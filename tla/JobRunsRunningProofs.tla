------------------------ MODULE JobRunsRunningProofs ------------------------
(* The proofs about what handlers leave on a workflow: something will end every run
   that a workflow is shown in, short of a crash or a given-up job (RunningIsAccounted),
   its counter misses no job that completed (CompletedIsCounted), and exceeds the
   successes reported by no more than its direct triggers allow (TriggersAreEarned).
   The first is not inductive by itself: it needs that jobs, queue entries and
   handlers agree on which workflow they belong to (LinkInv), that no handler holds a
   document that would put "Running" back (RestoreInv), that the worker holds the
   entry of its job (HoldInv), and that n8n reports no more than it owes (ReportsInv).
   The last needs that no job is executed twice (OnceInv), and counts the handlers
   that are still on their way to the counter (EarnedInv). *)
EXTENDS JobRunsProofs, FiniteSetTheorems

------------------------------------------------------------------------------
(* Jobs, entries, executions and handlers belong to workflows *)

(* Frame f names no job beyond the first n, it belongs to a workflow and, in the
   steps of JobSteps, to a job of that workflow. *)
Linked(f, docs, n) ==
    /\ f.job \in 0..n
    /\ f.step # "idle" => f.workflow \in Workflows
    /\ f.step \in JobSteps => f.job \in JobIds /\ f.workflow = docs[f.job].workflowId

(* Ids are natural numbers. *)
LEMMA Ids ==
    /\ \A j \in JobIds : j \in Nat /\ j > 0
    /\ TypeInv => created \in Nat /\ \A p \in Handlers : frames[p].job \in Nat
  BY BoundsAssumption DEF JobIds, TypeInv, TypeOK, Frame

JobsInOrder ==
    \A j \in JobIds : IF j <= created THEN jobs[j].workflowId \in Workflows
                      ELSE jobs[j] = NoJobDoc

OnlyCreatedJobs ==
    \A j \in JobIds : queue[j].state # "none" \/ posts[j] > 0 => j <= created

FramesLinked == \A p \in Handlers : Linked(frames[p], jobs, created)

LinkInv == JobsInOrder /\ OnlyCreatedJobs /\ FramesLinked

(* Jobs keep their workflow and are never deleted. *)
KeepsJobs ==
    /\ created' \in Nat /\ created <= created'
    /\ \A j \in JobIds : j <= created => jobs'[j].workflowId = jobs[j].workflowId

LEMMA LinkInit == Init => LinkInv
<1> SUFFICES ASSUME Init PROVE LinkInv
  OBVIOUS
<1>1. JobsInOrder
  BY DEF Init, JobsInOrder, JobIds
<1>2. OnlyCreatedJobs
  BY DEF Init, OnlyCreatedJobs, NoEntry
<1>3. FramesLinked
  BY DEF Init, FramesLinked, Linked, Idle, NoJob, JobSteps
<1> QED
  BY <1>1, <1>2, <1>3 DEF LinkInv

(* A handler that becomes a linked frame leaves all handlers linked. *)
LEMMA BecomeLinked ==
  ASSUME TypeInv, LinkInv, KeepsJobs, NEW p \in Handlers, NEW f,
         Linked(f, jobs, created), Become(p, f)
  PROVE  FramesLinked'
<1>1. Linked(f, jobs', created') /\ \A q \in Handlers : Linked(frames[q], jobs', created')
  BY Ids DEF Linked, KeepsJobs, LinkInv, FramesLinked
<1>2. \A q \in Handlers : frames'[q] = frames[q] \/ frames'[q] = f
  BY DEF Become, TypeInv, TypeOK
<1> QED
  BY <1>1, <1>2 DEF FramesLinked, LinkInv

(* A step that moves handler p and keeps the jobs keeps LinkInv. *)
LEMMA FrameStepLinked ==
  ASSUME TypeInv, LinkInv, UNCHANGED <<jobs, created>>, NEW p \in Handlers, NEW f,
         Linked(f, jobs, created), Become(p, f),
         \A j \in JobIds : queue'[j].state # "none" \/ posts'[j] > 0 => j <= created
  PROVE  LinkInv'
<1>1. KeepsJobs
  BY DEF KeepsJobs, TypeInv, TypeOK
<1>2. FramesLinked'
  BY <1>1, BecomeLinked
<1> QED
  BY <1>2 DEF LinkInv, JobsInOrder, OnlyCreatedJobs

(* Saving a job document keeps every job's workflow. *)
LEMMA SaveKeepsJobs ==
  ASSUME TypeInv, NEW i, NEW doc, NEW loaded, UNCHANGED created,
         jobs' = [jobs EXCEPT ![i] = SaveJob(doc, loaded, jobs[i])]
  PROVE  KeepsJobs /\ \A j \in JobIds : jobs'[j].workflowId = jobs[j].workflowId
  BY DEF SaveJob, KeepsJobs, TypeInv, TypeOK

(* Only the ids in use have documents that name a workflow. *)
LEMMA NamedJobsExist ==
  ASSUME LinkInv, NEW j \in JobIds, jobs[j].workflowId \in Workflows
  PROVE  j <= created
  BY SlotsAssumption DEF LinkInv, JobsInOrder, NoJobDoc

LEMMA FoundLinked ==
  ASSUME TypeInv, LinkInv, NEW j \in JobIds, NEW o, j <= created
  PROVE  Linked(Found(j, o), jobs, created)
<1>1. jobs[j].workflowId \in Workflows
  BY DEF LinkInv, JobsInOrder
<1>2. CASE o = "completed" /\ jobs[j].status = "completed"
  BY <1>2, Ids DEF Found, Linked, Idle, NoJob, JobSteps
<1>3. CASE ~(o = "completed" /\ jobs[j].status = "completed")
  BY <1>1, <1>3, Ids DEF Found, Linked, Idle, JobSteps
<1> QED
  BY <1>2, <1>3

(* The frames an exception, a return of dispatch and markRunFinished lead to
   have no job step and keep the workflow. *)
LEMMA EndsLinked ==
  ASSUME TypeInv, NEW p \in Handlers, FramesLinked, frames[p].step # "idle"
  PROVE  /\ Linked(Idle, jobs, created)
         /\ \A step \in {"worker.nack", "worker.ack", "run.reload"} :
                Linked([Idle EXCEPT !.step = step, !.job = frames[p].job,
                                    !.workflow = frames[p].workflow], jobs, created)
         /\ \A o, n : Linked(Finishing(frames[p], o, n), jobs, created)
<1>1. frames[p].workflow \in Workflows /\ frames[p].job \in 0..created /\ NoJob \in 0..created
  BY Ids DEF FramesLinked, Linked, NoJob
<1> QED
  BY <1>1 DEF Linked, Idle, JobSteps, Finishing

LEMMA ThrowLinked ==
  ASSUME TypeInv, LinkInv, NEW p \in Handlers, frames[p].step # "idle",
         UNCHANGED <<jobs, created, queue, posts>>, Throw(p) \/ DispatchReturns(p)
  PROVE  LinkInv'
<1> DEFINE f(step) == [Idle EXCEPT !.step = step, !.job = frames[p].job,
                                   !.workflow = frames[p].workflow]
<1>1. PICK g : Linked(g, jobs, created) /\ Become(p, g)
  <2>0. /\ Linked(Idle, jobs, created)
        /\ \A step \in {"worker.nack", "worker.ack", "run.reload"} :
               Linked(f(step), jobs, created)
    BY EndsLinked DEF LinkInv
  <2>1. CASE Throw(p) /\ p = Worker
    <3>1. Become(p, f("worker.nack")) BY <2>1 DEF Throw
    <3> QED BY <2>0, <3>1
  <2>2. CASE Throw(p) /\ p # Worker
    <3>1. Become(p, Idle) BY <2>2 DEF Throw
    <3> QED BY <2>0, <3>1
  <2>3. CASE DispatchReturns(p) /\ p = Worker
    <3>1. Become(p, f("worker.ack")) BY <2>3 DEF DispatchReturns
    <3> QED BY <2>0, <3>1
  <2>4. CASE DispatchReturns(p) /\ p # Worker
    <3>1. Become(p, f("run.reload")) BY <2>4 DEF DispatchReturns
    <3> QED BY <2>0, <3>1
  <2> QED BY <2>1, <2>2, <2>3, <2>4
<1>2. \A j \in JobIds : queue'[j].state # "none" \/ posts'[j] > 0 => j <= created
  BY DEF LinkInv, OnlyCreatedJobs
<1> QED
  BY <1>1, <1>2, FrameStepLinked

(* A save of a job by handler p, which goes on to frame f. *)
LEMMA JobStepLinked ==
  ASSUME TypeInv, LinkInv, UNCHANGED <<created, queue, posts>>, KeepsJobs,
         \A j \in JobIds : j > created => jobs'[j] = jobs[j],
         NEW p \in Handlers, NEW f, Linked(f, jobs, created), Become(p, f)
  PROVE  LinkInv'
<1>1. FramesLinked'
  BY BecomeLinked
<1>2. JobsInOrder'
  <2> SUFFICES ASSUME NEW j \in JobIds
               PROVE  IF j <= created THEN jobs'[j].workflowId \in Workflows
                      ELSE jobs'[j] = NoJobDoc
    BY DEF JobsInOrder
  <2>1. CASE j <= created
    BY <2>1 DEF LinkInv, JobsInOrder, KeepsJobs
  <2>2. CASE j > created
    BY <2>2 DEF LinkInv, JobsInOrder
  <2> QED BY <2>1, <2>2, BoundsAssumption DEF TypeInv, TypeOK, JobIds
<1>3. OnlyCreatedJobs'
  BY DEF LinkInv, OnlyCreatedJobs
<1> QED
  BY <1>1, <1>2, <1>3 DEF LinkInv

(* The save of a job by the handler that belongs to it. *)
LEMMA SaveStepLinked ==
  ASSUME TypeInv, LinkInv, UNCHANGED <<created, queue, posts>>,
         NEW p \in Handlers, frames[p].step \in JobSteps, NEW doc, NEW loaded,
         jobs' = [jobs EXCEPT ![frames[p].job] = SaveJob(doc, loaded, jobs[frames[p].job])],
         NEW f, Linked(f, jobs, created), Become(p, f)
  PROVE  LinkInv'
<1>1. KeepsJobs
  BY SaveKeepsJobs
<1>2. frames[p].job \in JobIds /\ frames[p].job <= created
  BY DEF LinkInv, FramesLinked, Linked
<1>3. \A j \in JobIds : j > created => jobs'[j] = jobs[j]
  BY <1>2, BoundsAssumption DEF TypeInv, TypeOK, JobIds
<1> QED
  BY <1>1, <1>3, JobStepLinked

LEMMA DispatchStepLinked ==
  ASSUME TypeInv, LinkInv, NEW p \in Handlers, DispatchStep(p)
  PROVE  LinkInv'
<1> USE DEF At
<1>0. /\ Linked(frames[p], jobs, created)
      /\ \A j \in JobIds : queue[j].state # "none" \/ posts[j] > 0 => j <= created
      /\ frames[p] \in Frame /\ posts \in [JobIds -> Nat]
  BY DEF LinkInv, FramesLinked, OnlyCreatedJobs, TypeInv, TypeOK
<1>same. UNCHANGED <<queue, posts>> =>
            \A j \in JobIds : queue'[j].state # "none" \/ posts'[j] > 0 => j <= created
  BY <1>0
<1>goes. ASSUME NEW step \in Steps, NEW doc, frames[p].step \in JobSteps
         PROVE  /\ Linked([frames[p] EXCEPT !.step = step], jobs, created)
                /\ Linked([frames[p] EXCEPT !.step = step, !.jobDoc = doc], jobs, created)
  BY <1>0, <1>goes DEF Linked, Frame, JobSteps
<1>1. CASE DispatchLoad(p)
  <2> DEFINE f == [frames[p] EXCEPT !.step = "dispatch.start", !.jobDoc = jobs[frames[p].job]]
  <2>1. Linked(f, jobs, created)
    <3>1. frames[p].step \in JobSteps /\ "dispatch.start" \in Steps
      BY <1>1 DEF DispatchLoad, Steps, JobSteps
    <3> QED BY <1>goes, <3>1
  <2> QED
    BY <1>1, <1>same, <2>1, FrameStepLinked DEF DispatchLoad, store, n8n
<1>2. CASE CredentialMissing(p) \/ WorkflowGone(p) \/ AnswerOk(p) \/ FinishReread(p)
  <2>1. frames[p].step # "idle" /\ UNCHANGED <<jobs, created, queue, posts>>
    BY <1>2 DEF CredentialMissing, WorkflowGone, AnswerOk, FinishReread, NeedsWorkflow,
       store, n8n
  <2> QED
    BY <1>2, <2>1, ThrowLinked DEF CredentialMissing, WorkflowGone, AnswerOk, FinishReread
<1>3. CASE DispatchStart(p)
  <2> DEFINE loaded == frames[p].jobDoc
             doc == [loaded EXCEPT !.status = "processing"]
             f == [frames[p] EXCEPT !.step = "dispatch.post", !.jobDoc = doc]
  <2>1. Linked(f, jobs, created)
    <3>1. frames[p].step \in JobSteps /\ "dispatch.post" \in Steps
      BY <1>3 DEF DispatchStart, Steps, JobSteps
    <3> QED BY <1>goes, <3>1
  <2> HIDE DEF f
  <2>2. /\ jobs' = [jobs EXCEPT ![frames[p].job] = SaveJob(doc, loaded, jobs[frames[p].job])]
        /\ frames[p].step \in JobSteps /\ Become(p, f)
        /\ UNCHANGED <<created, queue, posts>>
    BY <1>3 DEF DispatchStart, JobSteps, n8n, f
  <2> QED
    BY <2>1, <2>2, SaveStepLinked
<1>4. CASE PostAccepted(p)
  <2>1. Linked([frames[p] EXCEPT !.step = "dispatch.await"], jobs, created)
    BY <1>4, <1>goes DEF PostAccepted, Steps, JobSteps
  <2>2. frames[p].job \in JobIds /\ frames[p].job <= created
    BY <1>0, <1>4 DEF PostAccepted, Linked, JobSteps
  <2>3. \A j \in JobIds : queue'[j].state # "none" \/ posts'[j] > 0 => j <= created
    BY <1>0, <1>4, <2>2 DEF PostAccepted, store
  <2> QED
    BY <1>4, <2>1, <2>3, FrameStepLinked DEF PostAccepted, Goto, store
<1>5. CASE PostRefused(p) \/ AnswerLost(p)
  <2>1. Linked([frames[p] EXCEPT !.step = "dispatch.fail"], jobs, created)
    BY <1>5, <1>goes DEF PostRefused, AnswerLost, Steps, JobSteps
  <2> QED
    BY <1>5, <1>same, <2>1, FrameStepLinked DEF PostRefused, AnswerLost, Goto, store, n8n
<1>6. CASE DispatchFail(p)
  <2> DEFINE loaded == frames[p].jobDoc
             doc(text) == [loaded EXCEPT !.status = "failed", !.errorMessage = text]
             f == Finishing(frames[p], "failed", TRUE)
  <2>1. Linked(f, jobs, created)
    BY <1>6, EndsLinked DEF DispatchFail, LinkInv
  <2>2. PICK text : jobs' = [jobs EXCEPT ![frames[p].job] =
                                SaveJob(doc(text), loaded, jobs[frames[p].job])]
    BY <1>6 DEF DispatchFail
  <2>3. frames[p].step \in JobSteps /\ Become(p, f) /\ UNCHANGED <<created, queue, posts>>
    BY <1>6 DEF DispatchFail, JobSteps, n8n
  <2> HIDE DEF f, doc
  <2> QED
    BY <2>1, <2>2, <2>3, SaveStepLinked
<1>7. CASE FinishLoad(p)
  <2> DEFINE f == [frames[p] EXCEPT !.step = "finish.save",
                                    !.workflowDoc = workflows[frames[p].workflow]]
  <2>1. Linked(f, jobs, created)
    BY <1>0, <1>7 DEF FinishLoad, Linked, Frame, JobSteps
  <2> QED
    BY <1>7, <1>same, <2>1, FrameStepLinked DEF FinishLoad, store, n8n
<1>8. CASE FinishSave(p)
  <2> DEFINE f == [frames[p] EXCEPT !.step = "finish.reread", !.workflowDoc = NullWorkflowDoc]
  <2>1. Linked(f, jobs, created) /\ Linked(Idle, jobs, created)
    BY <1>0, <1>8, Ids DEF FinishSave, Linked, Frame, Idle, NoJob, JobSteps
  <2>2. Become(p, f) \/ Become(p, Idle)
    BY <1>8 DEF FinishSave
  <2> QED
    BY <1>8, <1>same, <2>1, <2>2, FrameStepLinked DEF FinishSave, n8n
<1> QED
  BY <1>1, <1>2, <1>3, <1>4, <1>5, <1>6, <1>7, <1>8 DEF DispatchStep

(* A new job of a workflow, inserted by a handler that goes on to frame f. *)
LEMMA InsertKeepsJobs ==
  ASSUME TypeInv, LinkInv, NEW w \in Workflows, NEW status \in JobStatuses, InsertJob(w, status)
  PROVE  /\ KeepsJobs /\ JobsInOrder'
         /\ created' = created + 1 /\ created' \in JobIds
         /\ jobs'[created'] = NewJob(w, status)
         /\ \A j \in JobIds : j # created' => jobs'[j] = jobs[j]
<1>1. /\ created \in Nat /\ created' = created + 1 /\ created' \in JobIds
      /\ jobs \in [JobIds -> JobDoc]
      /\ jobs' = [jobs EXCEPT ![created + 1] = NewJob(w, status)]
  BY BoundsAssumption DEF InsertJob, TypeInv, TypeOK, JobIds
<1>2. jobs'[created'] = NewJob(w, status) /\ \A j \in JobIds : j # created' => jobs'[j] = jobs[j]
  BY <1>1
<1>3. \A j \in JobIds : j \in Nat /\ (j <= created => j # created')
  BY <1>1, BoundsAssumption DEF JobIds
<1>4. KeepsJobs
  BY <1>1, <1>2, <1>3 DEF KeepsJobs
<1>5. ASSUME NEW j \in JobIds
      PROVE  IF j <= created' THEN jobs'[j].workflowId \in Workflows ELSE jobs'[j] = NoJobDoc
  <2>1. CASE j = created'
    BY <1>1, <1>2, <2>1 DEF NewJob, JobIds
  <2>2. CASE j <= created
    BY <1>1, <1>2, <1>3, <2>2 DEF LinkInv, JobsInOrder
  <2>3. CASE j > created'
    BY <1>1, <1>2, <1>3, <2>3 DEF LinkInv, JobsInOrder
  <2> QED BY <1>1, <1>3, <2>1, <2>2, <2>3
<1> QED
  BY <1>1, <1>2, <1>4, <1>5 DEF JobsInOrder

LEMMA RequestStepLinked ==
  ASSUME TypeInv, LinkInv, NEW p \in Requests, RequestStep(p) \/ RunEnqueueFails(p)
  PROVE  LinkInv'
<1> USE DEF At
<1>0. /\ p \in Handlers /\ Linked(frames[p], jobs, created)
      /\ frames[p].step # "idle" => frames[p].workflow \in Workflows
      /\ \A j \in JobIds : queue[j].state # "none" \/ posts[j] > 0 => j <= created
      /\ frames[p] \in Frame
  BY DEF LinkInv, FramesLinked, Linked, OnlyCreatedJobs, TypeInv, TypeOK, Handlers
<1>same. UNCHANGED <<queue, posts>> =>
            \A j \in JobIds : queue'[j].state # "none" \/ posts'[j] > 0 => j <= created
  BY <1>0
<1>idle. Linked(Idle, jobs, created)
  BY Ids DEF Linked, Idle, NoJob, JobSteps
<1>ends. frames[p].step # "idle" => \A o, n : Linked(Finishing(frames[p], o, n), jobs, created)
  BY <1>0, EndsLinked DEF LinkInv
<1>1. CASE DispatchStep(p)
  BY <1>0, <1>1, DispatchStepLinked
<1>2. CASE RunMark(p)
  <2> DEFINE f == [Idle EXCEPT !.step = "run.reread", !.workflow = frames[p].workflow]
  <2>1. Linked(f, jobs, created)
    BY <1>0, <1>2, Ids DEF RunMark, Linked, Idle, NoJob, JobSteps
  <2> QED BY <1>0, <1>2, <1>same, <2>1, FrameStepLinked DEF RunMark, n8n
<1>3. CASE RunReread(p)
  <2>1. Linked([frames[p] EXCEPT !.step = "run.create"], jobs, created)
    BY <1>0, <1>3 DEF RunReread, Linked, Frame, JobSteps
  <2> QED BY <1>0, <1>3, <1>same, <2>1, FrameStepLinked DEF RunReread, Goto, store, n8n
<1>4. CASE RunCreate(p)
  <2> DEFINE w == frames[p].workflow
             f == [Idle EXCEPT
                     !.step = IF QueueEnabled THEN "run.enqueue" ELSE "dispatch.load",
                     !.workflow = w, !.job = created + 1]
  <2>1. /\ KeepsJobs /\ JobsInOrder' /\ created' = created + 1 /\ created' \in JobIds
        /\ jobs'[created'] = NewJob(w, "queued")
    BY <1>0, <1>4, InsertKeepsJobs DEF RunCreate, JobStatuses
  <2>2. f.job = created' /\ f.workflow = w /\ created' \in 0..created'
    BY <2>1, Ids DEF Idle
  <2>3. Linked(f, jobs', created')
    BY <1>0, <1>4, <2>1, <2>2 DEF RunCreate, Linked, NewJob
  <2>4. \A q \in Handlers : Linked(frames[q], jobs', created')
    <3>1. created \in Nat /\ created' \in Nat /\ \A j \in JobIds : j \in Nat
      BY <2>1, BoundsAssumption DEF JobIds, TypeInv, TypeOK
    <3> QED BY <2>1, <3>1 DEF LinkInv, FramesLinked, Linked, KeepsJobs
  <2>5. FramesLinked'
    BY <1>4, <2>3, <2>4 DEF RunCreate, Become, FramesLinked, TypeInv, TypeOK
  <2>6. OnlyCreatedJobs'
    <3>1. UNCHANGED <<queue, posts>> /\ created \in Nat /\ \A j \in JobIds : j \in Nat
      BY <1>4, BoundsAssumption DEF RunCreate, n8n, JobIds, TypeInv, TypeOK
    <3> QED BY <1>0, <2>1, <3>1 DEF OnlyCreatedJobs
  <2> QED BY <2>1, <2>5, <2>6 DEF LinkInv
<1>5. CASE RunEnqueue(p)
  <2>1. frames[p].job \in JobIds /\ frames[p].job <= created
    BY <1>0, <1>5 DEF RunEnqueue, Linked, JobSteps
  <2>2. \A j \in JobIds : queue'[j].state # "none" \/ posts'[j] > 0 => j <= created
    BY <1>0, <1>5, <2>1 DEF RunEnqueue, n8n, TypeInv, TypeOK
  <2> QED BY <1>0, <1>5, <1>idle, <2>2, FrameStepLinked DEF RunEnqueue
<1>6. CASE RunEnqueueFails(p)
  BY <1>0, <1>6, <1>same, <1>idle, FrameStepLinked DEF RunEnqueueFails, store, n8n
<1>7. CASE RunReload(p)
  <2>1. \/ Become(p, Finishing(frames[p], "failed", FALSE))
        \/ Become(p, Idle)
    BY <1>7 DEF RunReload
  <2>2. Linked(Finishing(frames[p], "failed", FALSE), jobs, created)
    BY <1>7, <1>ends DEF RunReload
  <2> QED BY <1>0, <1>7, <1>same, <1>idle, <2>1, <2>2, FrameStepLinked DEF RunReload, store, n8n
<1>8. CASE ReportLatest(p)
  <2> DEFINE w == frames[p].workflow
             counting == [frames[p] EXCEPT !.step = "report.count"]
             finishing == Finishing(frames[p], "failed", FALSE)
  <2>1. w \in Workflows /\ UNCHANGED <<jobs, created, queue, posts>>
    BY <1>0, <1>8 DEF ReportLatest, store, n8n
  <2>2. \A o : \A j \in JobsOf(w) : Linked(Found(j, o), jobs, created)
    BY <2>1, NamedJobsExist, FoundLinked DEF JobsOf
  <2>3. Linked(counting, jobs, created) /\ Linked(finishing, jobs, created)
    BY <1>0, <1>8, <1>ends DEF ReportLatest, Linked, Frame, JobSteps
  <2>4. \/ \E j \in JobsOf(w) : Become(p, Found(j, frames[p].outcome))
        \/ Become(p, Idle) \/ Become(p, counting) \/ Become(p, finishing)
    <3>1. CASE w \notin live
      BY <1>8, <3>1 DEF ReportLatest
    <3>2. CASE w \in live /\ frames[p].outcome = "completed"
      BY <1>8, <3>2 DEF ReportLatest
    <3>3. CASE w \in live /\ frames[p].outcome # "completed"
      BY <1>8, <3>3 DEF ReportLatest
    <3> QED BY <3>1, <3>2, <3>3
  <2>5. PICK g : Linked(g, jobs, created) /\ Become(p, g)
    BY <1>idle, <2>2, <2>3, <2>4
  <2> QED BY <1>0, <1>same, <2>1, <2>5, FrameStepLinked
<1>9. CASE ReportSave(p)
  <2> DEFINE j == frames[p].job
             loaded == frames[p].jobDoc
             outcome == frames[p].outcome
             doc(text) == [loaded EXCEPT !.status = outcome, !.errorMessage = text]
             counting == [Idle EXCEPT !.step = "report.count", !.job = j,
                                      !.workflow = frames[p].workflow, !.outcome = outcome]
             finishing == Finishing(frames[p], outcome, FALSE)
  <2>1. Linked(counting, jobs, created) /\ Linked(finishing, jobs, created)
    BY <1>0, <1>9, <1>ends DEF ReportSave, Linked, Idle, JobSteps
  <2>2. PICK text : jobs' = [jobs EXCEPT ![j] = SaveJob(doc(text), loaded, jobs[j])]
    BY <1>9 DEF ReportSave
  <2>3. /\ Become(p, counting) \/ Become(p, finishing)
        /\ frames[p].step \in JobSteps /\ UNCHANGED <<created, queue, posts>>
    BY <1>9 DEF ReportSave, JobSteps, n8n
  <2> HIDE DEF doc, counting, finishing
  <2> QED BY <1>0, <2>1, <2>2, <2>3, SaveStepLinked
<1>10. CASE ReportCount(p)
  BY <1>0, <1>10, <1>same, <1>ends, FrameStepLinked DEF ReportCount, n8n
<1>11. CASE StatusSave(p) \/ TriggerAnswered(p)
  BY <1>0, <1>11, <1>same, <1>idle, FrameStepLinked DEF StatusSave, TriggerAnswered, n8n
<1> QED
  BY <1>1, <1>2, <1>3, <1>4, <1>5, <1>6, <1>7, <1>8, <1>9, <1>10, <1>11 DEF RequestStep

LEMMA ArrivalLinked ==
  ASSUME TypeInv, LinkInv, NEW p \in Requests, Arrival(p)
  PROVE  LinkInv'
<1>0. /\ p \in Handlers
      /\ \A j \in JobIds : queue[j].state # "none" \/ posts[j] > 0 => j <= created
      /\ \A j \in JobIds : posts[j] \in Nat /\ reports[j] \in Nat
  BY DEF LinkInv, OnlyCreatedJobs, TypeInv, TypeOK, Handlers
<1>same. UNCHANGED <<queue, posts>> =>
            \A j \in JobIds : queue'[j].state # "none" \/ posts'[j] > 0 => j <= created
  BY <1>0
<1>find. ASSUME NEW w \in Workflows, NEW outcome, FindActive(p, w, outcome)
         PROVE  \E g : Linked(g, jobs, created) /\ Become(p, g)
  <2>1. \A j \in ActiveJobs(w) : Linked(Found(j, outcome), jobs, created)
    BY NamedJobsExist, FoundLinked DEF ActiveJobs
  <2>2. Linked([Idle EXCEPT !.step = "report.latest", !.workflow = w, !.outcome = outcome],
               jobs, created)
    BY Ids DEF Linked, Idle, NoJob, JobSteps
  <2> QED BY <1>find, <2>1, <2>2 DEF FindActive
<1>1. ASSUME NEW w \in Workflows, Run(p, w) \/ SetStatus(p, w) \/ Trigger(p, w) PROVE LinkInv'
  <2>1. \A step \in {"run.mark", "status.save", "trigger.await"}, doc \in {workflows[w]} :
            /\ Linked([Idle EXCEPT !.step = step, !.workflow = w, !.workflowDoc = doc],
                      jobs, created)
            /\ Linked([Idle EXCEPT !.step = step, !.workflow = w], jobs, created)
    BY Ids DEF Linked, Idle, NoJob, JobSteps
  <2>2. PICK g : Linked(g, jobs, created) /\ Become(p, g)
    BY <1>1, <2>1 DEF Run, SetStatus, Trigger
  <2>3. UNCHANGED <<jobs, created, queue, posts>>
    BY <1>1 DEF Run, SetStatus, Trigger, store, n8n
  <2> QED BY <1>0, <1>same, <2>2, <2>3, FrameStepLinked
<1>2. ASSUME NEW j \in JobIds, NEW outcome \in Outcomes, Report(p, j, outcome) PROVE LinkInv'
  <2>1. posts[j] > 0
    <3>1. CASE posts[j] = 0
      BY <1>0, <1>2, <3>1, BoundsAssumption DEF Report
    <3> QED BY <1>0, <3>1
  <2>2. j <= created /\ jobs[j].workflowId \in Workflows
    BY <1>0, <2>1 DEF LinkInv, JobsInOrder
  <2>3. PICK g : Linked(g, jobs, created) /\ Become(p, g)
    BY <1>2, <1>find, <2>2, FoundLinked DEF Report
  <2>4. UNCHANGED <<jobs, created, queue, posts>>
    BY <1>2 DEF Report, store
  <2> QED BY <1>0, <1>same, <2>3, <2>4, FrameStepLinked
<1>3. ASSUME NEW w \in Workflows, NEW outcome \in Outcomes, ReportDirect(p, w, outcome)
      PROVE  LinkInv'
  <2>1. PICK g : Linked(g, jobs, created) /\ Become(p, g)
    BY <1>3, <1>find DEF ReportDirect
  <2>2. UNCHANGED <<jobs, created, queue, posts>>
    BY <1>3 DEF ReportDirect, store
  <2> QED BY <1>0, <1>same, <2>1, <2>2, FrameStepLinked
<1> QED
  BY <1>1, <1>2, <1>3 DEF Arrival

LEMMA OtherStepLinked ==
  ASSUME TypeInv, LinkInv,
         \/ \E j \in JobIds : WorkerTake(j)
         \/ WorkerAck \/ WorkerNack \/ Crash
         \/ \E w \in Workflows : CreateDraft(w) \/ Remove(w)
  PROVE  LinkInv'
<1> USE DEF At
<1>0. /\ Worker \in Handlers /\ queue \in [JobIds -> Entry] /\ Linked(Idle, jobs, created)
      /\ \A j \in JobIds : queue[j].state # "none" \/ posts[j] > 0 => j <= created
      /\ Linked(frames[Worker], jobs, created)
  BY Ids DEF LinkInv, FramesLinked, OnlyCreatedJobs, TypeInv, TypeOK, Handlers, Linked, Idle,
     NoJob, JobSteps
<1>1. ASSUME NEW j \in JobIds, WorkerTake(j) PROVE LinkInv'
  <2> DEFINE f == [Idle EXCEPT !.step = "dispatch.load", !.job = j,
                               !.workflow = jobs[j].workflowId]
  <2>1. j <= created /\ jobs[j].workflowId \in Workflows
    BY <1>0, <1>1 DEF WorkerTake, LinkInv, JobsInOrder
  <2>2. Linked(f, jobs, created)
    BY <2>1, Ids DEF Linked, Idle
  <2>3. \A k \in JobIds : queue'[k].state # "none" \/ posts'[k] > 0 => k <= created
    BY <1>0, <1>1, <2>1 DEF WorkerTake, n8n
  <2> QED BY <1>0, <1>1, <2>2, <2>3, FrameStepLinked DEF WorkerTake
<1>2. CASE WorkerAck \/ WorkerNack
  <2> DEFINE i == frames[Worker].job
  <2>1. \A k \in JobIds : k # i => queue'[k] = queue[k]
    BY <1>0, <1>2 DEF WorkerAck, WorkerNack
  <2>2. JobsInOrder' /\ FramesLinked'
    <3>1. KeepsJobs /\ UNCHANGED <<jobs, created>> /\ Become(Worker, Idle)
      BY <1>2 DEF WorkerAck, WorkerNack, KeepsJobs, TypeInv, TypeOK
    <3> QED BY <1>0, <3>1, BecomeLinked DEF LinkInv, JobsInOrder
  <2>3. OnlyCreatedJobs'
    <3>1. UNCHANGED <<created, posts>>
      BY <1>2 DEF WorkerAck, WorkerNack, n8n
    <3>2. i \in JobIds => i <= created
      BY <1>0, Ids DEF Linked
    <3> QED BY <1>0, <2>1, <3>1, <3>2 DEF OnlyCreatedJobs
  <2> QED BY <2>2, <2>3 DEF LinkInv
<1>3. CASE Crash
  <2>1. FramesLinked' /\ JobsInOrder'
    BY <1>0, <1>3 DEF Crash, FramesLinked, LinkInv, JobsInOrder
  <2>2. OnlyCreatedJobs'
    BY <1>0, <1>3 DEF Crash, OnlyCreatedJobs, n8n
  <2> QED BY <2>1, <2>2 DEF LinkInv
<1>4. ASSUME NEW w \in Workflows, CreateDraft(w) PROVE LinkInv'
  <2>1. KeepsJobs /\ JobsInOrder' /\ created' = created + 1
    BY <1>4, InsertKeepsJobs DEF CreateDraft, JobStatuses
  <2>2. UNCHANGED <<frames, queue, posts>> /\ created \in Nat /\ \A j \in JobIds : j \in Nat
    BY <1>4, BoundsAssumption DEF CreateDraft, n8n, JobIds, TypeInv, TypeOK
  <2>3. OnlyCreatedJobs'
    BY <1>0, <2>1, <2>2 DEF OnlyCreatedJobs
  <2>4. FramesLinked'
    BY <2>1, <2>2 DEF LinkInv, FramesLinked, Linked, KeepsJobs
  <2> QED BY <2>1, <2>3, <2>4 DEF LinkInv
<1>5. ASSUME NEW w \in Workflows, Remove(w) PROVE LinkInv'
  BY <1>5 DEF Remove, LinkInv, JobsInOrder, OnlyCreatedJobs, FramesLinked, n8n
<1> QED
  BY <1>1, <1>2, <1>3, <1>4, <1>5

LEMMA LinkStep == TypeInv /\ LinkInv /\ [Next]_vars => LinkInv'
<1> SUFFICES ASSUME TypeInv, LinkInv, [Next]_vars PROVE LinkInv'
  OBVIOUS
<1>1. ASSUME NEW p \in Requests, Arrival(p) \/ RequestStep(p) \/ RunEnqueueFails(p)
      PROVE  LinkInv'
  BY <1>1, ArrivalLinked, RequestStepLinked
<1>2. CASE WorkerStep
  BY <1>2, DispatchStepLinked, OtherStepLinked DEF WorkerStep, Handlers
<1>3. CASE \/ \E j \in JobIds : WorkerTake(j)
           \/ \E w \in Workflows : CreateDraft(w) \/ Remove(w)
           \/ Crash
  BY <1>3, OtherStepLinked
<1>4. CASE UNCHANGED vars
  BY <1>4 DEF vars, store, n8n, LinkInv, JobsInOrder, OnlyCreatedJobs, FramesLinked
<1> QED
  BY <1>1, <1>2, <1>3, <1>4 DEF Next

LEMMA LinkInvariant == Spec => []LinkInv
  BY TypeInvariant, LinkInit, LinkStep, PTL DEF Spec

------------------------------------------------------------------------------
(* "Running" is never remembered *)

LoadedNeverRestoreRunning ==
    \A p \in Handlers : frames[p].workflowDoc.statusBeforeRun # "Running"

RestoreInv == NeverRestoresRunning /\ LoadedNeverRestoreRunning

(* None of the saves of a workflow document writes "Running" to statusBeforeRun
   when neither the loaded nor the stored document has it there. *)
LEMMA SavesKeepRestore ==
  ASSUME NEW loaded \in WorkflowDoc, NEW stored \in WorkflowDoc,
         loaded.statusBeforeRun # "Running", stored.statusBeforeRun # "Running"
  PROVE  /\ SaveWorkflow(MarkAsRunning(loaded), loaded, stored).statusBeforeRun # "Running"
         /\ \A o : SaveWorkflow(MarkRunFinished(loaded, o), loaded, stored).statusBeforeRun
                      # "Running"
         /\ \A s : SaveWorkflow([loaded EXCEPT !.status = s], loaded, stored).statusBeforeRun
                      # "Running"
         /\ IncrementTriggers(stored).statusBeforeRun # "Running"
  BY DEF SaveWorkflow, Written, MarkAsRunning, MarkRunFinished, IncrementTriggers, WorkflowDoc, Null

LEMMA RestoreInit == Init => RestoreInv
<1> SUFFICES ASSUME Init PROVE RestoreInv
  OBVIOUS
<1>1. NeverRestoresRunning
  BY DEF Init, NeverRestoresRunning, Null
<1>2. LoadedNeverRestoreRunning
  BY DEF Init, LoadedNeverRestoreRunning, Idle, NullWorkflowDoc, Null
<1> QED
  BY <1>1, <1>2 DEF RestoreInv

(* A handler that keeps its document, drops it or loads a stored one keeps
   LoadedNeverRestoreRunning. *)
LEMMA BecomeRestores ==
  ASSUME TypeInv, RestoreInv, NEW p \in Handlers, NEW f,
         f.workflowDoc.statusBeforeRun # "Running", Become(p, f)
  PROVE  LoadedNeverRestoreRunning'
  BY DEF Become, RestoreInv, LoadedNeverRestoreRunning, TypeInv, TypeOK

(* The documents of the frames that hold none. *)
LEMMA NullNeverRestores ==
    /\ Idle.workflowDoc.statusBeforeRun # "Running"
    /\ NullWorkflowDoc.statusBeforeRun # "Running"
    /\ \A f, o, n : Finishing(f, o, n).workflowDoc.statusBeforeRun # "Running"
    /\ \A j, o : Found(j, o).workflowDoc.statusBeforeRun # "Running"
<1>1. /\ Idle.workflowDoc.statusBeforeRun # "Running"
      /\ NullWorkflowDoc.statusBeforeRun # "Running"
      /\ \A f, o, n : Finishing(f, o, n).workflowDoc.statusBeforeRun # "Running"
  BY DEF Idle, NullWorkflowDoc, Null, Finishing
<1>2. ASSUME NEW j, NEW o PROVE Found(j, o).workflowDoc.statusBeforeRun # "Running"
  <2>1. CASE o = "completed" /\ jobs[j].status = "completed"
    BY <1>1, <2>1 DEF Found
  <2>2. CASE ~(o = "completed" /\ jobs[j].status = "completed")
    BY <2>2 DEF Found, Idle, NullWorkflowDoc, Null
  <2> QED BY <2>1, <2>2
<1> QED
  BY <1>1, <1>2

LEMMA EndRestores ==
  ASSUME TypeInv, RestoreInv, NEW p \in Handlers, Throw(p) \/ DispatchReturns(p)
  PROVE  LoadedNeverRestoreRunning'
<1> DEFINE f(step) == [Idle EXCEPT !.step = step, !.job = frames[p].job,
                                   !.workflow = frames[p].workflow]
<1>1. \A step : f(step).workflowDoc.statusBeforeRun # "Running"
  BY DEF Idle, NullWorkflowDoc, Null
<1>2. \/ Become(p, Idle) \/ Become(p, f("worker.nack"))
      \/ Become(p, f("worker.ack")) \/ Become(p, f("run.reload"))
  <2>1. CASE p = Worker
    BY <2>1 DEF Throw, DispatchReturns
  <2>2. CASE p # Worker
    BY <2>2 DEF Throw, DispatchReturns
  <2> QED BY <2>1, <2>2
<1> HIDE DEF f
<1> QED
  BY <1>1, <1>2, NullNeverRestores, BecomeRestores

LEMMA DispatchStepRestores ==
  ASSUME TypeInv, RestoreInv, NEW p \in Handlers, DispatchStep(p)
  PROVE  RestoreInv'
<1> USE DEF At
<1>0. /\ frames[p] \in Frame /\ frames[p].workflowDoc.statusBeforeRun # "Running"
      /\ frames[p].workflowDoc \in WorkflowDoc
      /\ \A w \in Workflows : workflows[w].statusBeforeRun # "Running"
      /\ workflows \in [Workflows -> WorkflowDoc] /\ live \subseteq Workflows
  BY DEF RestoreInv, LoadedNeverRestoreRunning, NeverRestoresRunning, TypeInv, TypeOK, Frame
<1>same. UNCHANGED workflows => NeverRestoresRunning'
  BY DEF RestoreInv, NeverRestoresRunning
<1>1. CASE DispatchLoad(p) \/ DispatchStart(p)
  <2>1. \A step, doc : [frames[p] EXCEPT !.step = step, !.jobDoc = doc].workflowDoc
                          = frames[p].workflowDoc
    BY <1>0 DEF Frame
  <2>2. LoadedNeverRestoreRunning'
    BY <1>0, <1>1, <2>1, BecomeRestores DEF DispatchLoad, DispatchStart
  <2> QED BY <1>1, <1>same, <2>2 DEF DispatchLoad, DispatchStart, store, RestoreInv
<1>2. CASE CredentialMissing(p) \/ WorkflowGone(p) \/ AnswerOk(p) \/ FinishReread(p)
  BY <1>2, <1>same, EndRestores
  DEF CredentialMissing, WorkflowGone, AnswerOk, FinishReread, store, RestoreInv
<1>3. CASE PostAccepted(p) \/ PostRefused(p) \/ AnswerLost(p)
  <2>1. \A step : [frames[p] EXCEPT !.step = step].workflowDoc = frames[p].workflowDoc
    BY <1>0 DEF Frame
  <2>2. LoadedNeverRestoreRunning'
    BY <1>0, <1>3, <2>1, BecomeRestores DEF PostAccepted, PostRefused, AnswerLost, Goto
  <2> QED BY <1>3, <1>same, <2>2 DEF PostAccepted, PostRefused, AnswerLost, store, RestoreInv
<1>4. CASE DispatchFail(p)
  BY <1>4, <1>same, NullNeverRestores, BecomeRestores DEF DispatchFail, RestoreInv
<1>5. CASE FinishLoad(p)
  <2> DEFINE w == frames[p].workflow
             f == [frames[p] EXCEPT !.step = "finish.save", !.workflowDoc = workflows[w]]
  <2>1. f.workflowDoc.statusBeforeRun # "Running"
    BY <1>0, <1>5 DEF FinishLoad, Frame
  <2>2. LoadedNeverRestoreRunning'
    BY <1>5, <2>1, BecomeRestores DEF FinishLoad
  <2> QED BY <1>5, <1>same, <2>2 DEF FinishLoad, store, RestoreInv
<1>6. CASE FinishSave(p)
  <2> DEFINE f == [frames[p] EXCEPT !.step = "finish.reread", !.workflowDoc = NullWorkflowDoc]
  <2>1. f.workflowDoc.statusBeforeRun # "Running"
    BY <1>0, NullNeverRestores DEF Frame
  <2>2. Become(p, f) \/ Become(p, Idle)
    BY <1>6 DEF FinishSave
  <2>3. LoadedNeverRestoreRunning'
    BY <2>1, <2>2, NullNeverRestores, BecomeRestores
  <2>4. NeverRestoresRunning'
    BY <1>0, <1>6, SavesKeepRestore DEF FinishSave, SaveDoc, NeverRestoresRunning
  <2> QED BY <2>3, <2>4 DEF RestoreInv
<1> QED
  BY <1>1, <1>2, <1>3, <1>4, <1>5, <1>6 DEF DispatchStep

LEMMA IncrementRestores ==
  ASSUME TypeInv, RestoreInv, NEW w, Increment(w)
  PROVE  NeverRestoresRunning'
<1>1. /\ workflows \in [Workflows -> WorkflowDoc] /\ live \subseteq Workflows
      /\ \A v \in Workflows : workflows[v].statusBeforeRun # "Running"
  BY DEF RestoreInv, NeverRestoresRunning, TypeInv, TypeOK
<1>2. CASE w \in live
  BY <1>1, <1>2, SavesKeepRestore DEF Increment, NeverRestoresRunning
<1>3. CASE w \notin live
  BY <1>1, <1>3 DEF Increment, NeverRestoresRunning
<1> QED
  BY <1>2, <1>3

LEMMA RequestRestores ==
  ASSUME TypeInv, RestoreInv, NEW p \in Requests,
         Arrival(p) \/ RequestStep(p) \/ RunEnqueueFails(p)
  PROVE  RestoreInv'
<1> USE DEF At
<1>0. /\ p \in Handlers /\ frames[p] \in Frame
      /\ frames[p].workflowDoc.statusBeforeRun # "Running"
      /\ frames[p].workflowDoc \in WorkflowDoc
      /\ \A w \in Workflows : workflows[w].statusBeforeRun # "Running"
      /\ workflows \in [Workflows -> WorkflowDoc] /\ live \subseteq Workflows
  BY DEF RestoreInv, LoadedNeverRestoreRunning, NeverRestoresRunning, TypeInv, TypeOK, Frame,
     Handlers
<1>same. UNCHANGED workflows => NeverRestoresRunning'
  BY DEF RestoreInv, NeverRestoresRunning
<1>idle. Idle.workflowDoc.statusBeforeRun # "Running"
  BY NullNeverRestores
<1>find. ASSUME NEW w, NEW outcome, FindActive(p, w, outcome) PROVE LoadedNeverRestoreRunning'
  <2>1. [Idle EXCEPT !.step = "report.latest", !.workflow = w, !.outcome = outcome]
            .workflowDoc.statusBeforeRun # "Running"
    BY DEF Idle, NullWorkflowDoc, Null
  <2> QED BY <1>0, <1>find, <2>1, NullNeverRestores, BecomeRestores DEF FindActive
<1>1. CASE DispatchStep(p)
  BY <1>0, <1>1, DispatchStepRestores
<1>2. ASSUME NEW w \in Workflows, Run(p, w) \/ SetStatus(p, w) PROVE RestoreInv'
  <2>1. \A step : [Idle EXCEPT !.step = step, !.workflow = w, !.workflowDoc = workflows[w]]
                      .workflowDoc.statusBeforeRun # "Running"
    BY <1>0 DEF Idle
  <2>2. LoadedNeverRestoreRunning'
    BY <1>0, <1>2, <2>1, BecomeRestores DEF Run, SetStatus
  <2> QED BY <1>2, <1>same, <2>2 DEF Run, SetStatus, store, RestoreInv
<1>3. ASSUME NEW w \in Workflows, Trigger(p, w) PROVE RestoreInv'
  <2>1. [Idle EXCEPT !.step = "trigger.await", !.workflow = w]
            .workflowDoc.statusBeforeRun # "Running"
    BY DEF Idle, NullWorkflowDoc, Null
  <2>2. LoadedNeverRestoreRunning'
    BY <1>0, <1>3, <2>1, BecomeRestores DEF Trigger
  <2> QED BY <1>3, <1>same, <2>2 DEF Trigger, store, RestoreInv
<1>4. ASSUME NEW j \in JobIds, NEW o \in Outcomes, Report(p, j, o) PROVE RestoreInv'
  <2>1. LoadedNeverRestoreRunning'
    BY <1>0, <1>4, <1>find, NullNeverRestores, BecomeRestores DEF Report
  <2> QED BY <1>4, <1>same, <2>1 DEF Report, store, RestoreInv
<1>5. ASSUME NEW w \in Workflows, NEW o \in Outcomes, ReportDirect(p, w, o) PROVE RestoreInv'
  BY <1>5, <1>same, <1>find DEF ReportDirect, store, RestoreInv
<1>6. CASE RunMark(p)
  <2>1. [Idle EXCEPT !.step = "run.reread", !.workflow = frames[p].workflow]
            .workflowDoc.statusBeforeRun # "Running"
    BY DEF Idle, NullWorkflowDoc, Null
  <2>2. LoadedNeverRestoreRunning'
    BY <1>0, <1>6, <2>1, BecomeRestores DEF RunMark
  <2>3. NeverRestoresRunning'
    BY <1>0, <1>6, SavesKeepRestore DEF RunMark, SaveDoc, NeverRestoresRunning
  <2> QED BY <2>2, <2>3 DEF RestoreInv
<1>7. CASE RunReread(p)
  <2>1. [frames[p] EXCEPT !.step = "run.create"].workflowDoc = frames[p].workflowDoc
    BY <1>0 DEF Frame
  <2>2. LoadedNeverRestoreRunning'
    BY <1>0, <1>7, <2>1, BecomeRestores DEF RunReread, Goto
  <2> QED BY <1>7, <1>same, <2>2 DEF RunReread, store, RestoreInv
<1>8. CASE RunCreate(p)
  <2>1. \A step : [Idle EXCEPT !.step = step, !.workflow = frames[p].workflow,
                               !.job = created + 1].workflowDoc.statusBeforeRun # "Running"
    BY DEF Idle, NullWorkflowDoc, Null
  <2>2. LoadedNeverRestoreRunning'
    BY <1>0, <1>8, <2>1, BecomeRestores DEF RunCreate
  <2> QED BY <1>8, <1>same, <2>2 DEF RunCreate, RestoreInv
<1>9. CASE RunEnqueue(p) \/ RunEnqueueFails(p)
  BY <1>0, <1>9, <1>same, <1>idle, BecomeRestores
  DEF RunEnqueue, RunEnqueueFails, store, RestoreInv
<1>10. CASE RunReload(p)
  <2>1. Become(p, Finishing(frames[p], "failed", FALSE)) \/ Become(p, Idle)
    BY <1>10 DEF RunReload
  <2>2. LoadedNeverRestoreRunning'
    BY <1>0, <2>1, NullNeverRestores, BecomeRestores
  <2> QED BY <1>10, <1>same, <2>2 DEF RunReload, store, RestoreInv
<1>11. CASE ReportLatest(p)
  <2> DEFINE w == frames[p].workflow
             counting == [frames[p] EXCEPT !.step = "report.count"]
             finishing == Finishing(frames[p], "failed", FALSE)
  <2>1. counting.workflowDoc = frames[p].workflowDoc
    BY <1>0 DEF Frame
  <2>2. \/ \E j \in JobsOf(w) : Become(p, Found(j, frames[p].outcome))
        \/ Become(p, Idle) \/ Become(p, counting) \/ Become(p, finishing)
    <3>1. CASE w \notin live
      BY <1>11, <3>1 DEF ReportLatest
    <3>2. CASE w \in live /\ frames[p].outcome = "completed"
      BY <1>11, <3>2 DEF ReportLatest
    <3>3. CASE w \in live /\ frames[p].outcome # "completed"
      BY <1>11, <3>3 DEF ReportLatest
    <3> QED BY <3>1, <3>2, <3>3
  <2> HIDE DEF counting, finishing
  <2>3. finishing.workflowDoc.statusBeforeRun # "Running"
    BY NullNeverRestores DEF finishing
  <2>4. LoadedNeverRestoreRunning'
    BY <1>0, <2>1, <2>2, <2>3, NullNeverRestores, BecomeRestores
  <2> QED BY <1>11, <1>same, <2>4 DEF ReportLatest, store, RestoreInv
<1>12. CASE ReportSave(p)
  <2> DEFINE counting == [Idle EXCEPT !.step = "report.count", !.job = frames[p].job,
                                      !.workflow = frames[p].workflow,
                                      !.outcome = frames[p].outcome]
             finishing == Finishing(frames[p], frames[p].outcome, FALSE)
  <2>1. /\ counting.workflowDoc.statusBeforeRun # "Running"
        /\ finishing.workflowDoc.statusBeforeRun # "Running"
    BY NullNeverRestores DEF Idle, NullWorkflowDoc, Null
  <2>2. Become(p, counting) \/ Become(p, finishing)
    BY <1>12 DEF ReportSave
  <2> HIDE DEF counting, finishing
  <2>3. LoadedNeverRestoreRunning'
    BY <1>0, <2>1, <2>2, BecomeRestores
  <2> QED BY <1>12, <1>same, <2>3 DEF ReportSave, RestoreInv
<1>13. CASE ReportCount(p)
  BY <1>0, <1>13, NullNeverRestores, BecomeRestores, IncrementRestores
  DEF ReportCount, RestoreInv
<1>14. CASE StatusSave(p)
  <2>1. LoadedNeverRestoreRunning'
    BY <1>0, <1>14, <1>idle, BecomeRestores DEF StatusSave
  <2>2. NeverRestoresRunning'
    <3> DEFINE w == frames[p].workflow
               loaded == frames[p].workflowDoc
    <3>1. PICK status : workflows' = [workflows EXCEPT ![w] =
                  SaveWorkflow([loaded EXCEPT !.status = status], loaded, workflows[w])]
      BY <1>14 DEF StatusSave, SaveDoc
    <3>2. w \in Workflows
      BY <1>0, <1>14 DEF StatusSave
    <3> QED BY <1>0, <3>1, <3>2, SavesKeepRestore DEF NeverRestoresRunning
  <2> QED BY <2>1, <2>2 DEF RestoreInv
<1>15. CASE TriggerAnswered(p)
  BY <1>0, <1>15, <1>same, <1>idle, BecomeRestores, IncrementRestores
  DEF TriggerAnswered, RestoreInv
<1> QED
  BY <1>1, <1>2, <1>3, <1>4, <1>5, <1>6, <1>7, <1>8, <1>9, <1>10, <1>11, <1>12, <1>13, <1>14,
     <1>15 DEF Arrival, RequestStep

LEMMA RestoreStep == TypeInv /\ RestoreInv /\ [Next]_vars => RestoreInv'
<1> SUFFICES ASSUME TypeInv, RestoreInv, [Next]_vars PROVE RestoreInv'
  OBVIOUS
<1> USE DEF At
<1>same. UNCHANGED workflows => NeverRestoresRunning'
  BY DEF RestoreInv, NeverRestoresRunning
<1>worker. Worker \in Handlers
  BY DEF Handlers
<1>1. ASSUME NEW p \in Requests, Arrival(p) \/ RequestStep(p) \/ RunEnqueueFails(p)
      PROVE  RestoreInv'
  BY <1>1, RequestRestores
<1>2. CASE DispatchStep(Worker)
  BY <1>2, <1>worker, DispatchStepRestores
<1>3. ASSUME NEW j \in JobIds, WorkerTake(j) PROVE RestoreInv'
  <2>1. [Idle EXCEPT !.step = "dispatch.load", !.job = j, !.workflow = jobs[j].workflowId]
            .workflowDoc.statusBeforeRun # "Running"
    BY DEF Idle, NullWorkflowDoc, Null
  <2> QED
    BY <1>3, <1>same, <1>worker, <2>1, BecomeRestores DEF WorkerTake, RestoreInv
<1>4. CASE WorkerAck \/ WorkerNack
  BY <1>4, <1>same, <1>worker, NullNeverRestores, BecomeRestores
  DEF WorkerAck, WorkerNack, RestoreInv
<1>5. CASE Crash
  BY <1>5, <1>same, NullNeverRestores DEF Crash, RestoreInv, LoadedNeverRestoreRunning
<1>6. ASSUME NEW w \in Workflows, CreateDraft(w) \/ Remove(w) PROVE RestoreInv'
  BY <1>6, <1>same DEF CreateDraft, Remove, RestoreInv, LoadedNeverRestoreRunning
<1>7. CASE UNCHANGED vars
  BY <1>7, <1>same DEF vars, store, RestoreInv, LoadedNeverRestoreRunning
<1> QED
  BY <1>1, <1>2, <1>3, <1>4, <1>5, <1>6, <1>7 DEF Next, WorkerStep

LEMMA RestoreInvariant == Spec => []RestoreInv
  BY TypeInvariant, RestoreInit, RestoreStep, PTL DEF Spec

(* However many runs of a workflow overlap, whatever users set and n8n reports,
   the status to go back to is never "Running". *)
THEOREM RunningNeverRestored == Spec => []NeverRestoresRunning
<1>1. RestoreInv => NeverRestoresRunning
  BY DEF RestoreInv
<1> QED
  BY <1>1, RestoreInvariant, PTL

------------------------------------------------------------------------------
(* The worker holds the entry of its job *)

(* Only the frame of the handler that moves changes. *)
LEMMA BecomeOnly ==
  ASSUME TypeInv, NEW p \in Handlers, NEW f, Become(p, f)
  PROVE  frames'[p] = f /\ \A q \in Handlers : q # p => frames'[q] = frames[q]
  BY DEF Become, TypeInv, TypeOK

LEMMA EndOnly ==
  ASSUME TypeInv, NEW p \in Handlers, Throw(p) \/ DispatchReturns(p)
  PROVE  \A q \in Handlers : q # p => frames'[q] = frames[q]
  BY DEF Throw, DispatchReturns, Become, TypeInv, TypeOK

(* The steps of a dispatch whose webhook call is still to come. *)
Unposted == {"run.enqueue", "dispatch.load", "dispatch.start", "dispatch.post"}

(* The request steps that touch no entry and create no job end outside dispatch. *)
LEMMA RequestMoves ==
  ASSUME TypeInv, NEW p \in Requests,
         \/ Arrival(p) \/ RunMark(p) \/ RunReread(p) \/ RunReload(p) \/ RunEnqueueFails(p)
         \/ ReportLatest(p) \/ ReportSave(p) \/ ReportCount(p) \/ StatusSave(p)
         \/ TriggerAnswered(p)
  PROVE  /\ \E f : Become(p, f) /\ f.step \notin Unposted \cup {"worker.nack"}
         /\ UNCHANGED <<created, live, posts, queue>>
         /\ KeepsJobs
<1> USE DEF At
<1> DEFINE Fine(f) == f.step \notin Unposted \cup {"worker.nack"}
           Moves == \E f : Become(p, f) /\ Fine(f)
<1>0. /\ Fine(Idle) /\ frames[p] \in Frame
      /\ \A o, n : Fine(Finishing(frames[p], o, n))
      /\ \A j, o : Fine(Found(j, o))
  BY DEF Idle, Finishing, Found, Unposted, TypeInv, TypeOK, Handlers
<1>same. UNCHANGED <<jobs, created>> => KeepsJobs
  BY DEF KeepsJobs, TypeInv, TypeOK
<1>1. CASE Arrival(p)
  <2>1. ASSUME NEW w, NEW o, FindActive(p, w, o) PROVE Moves
    <3> DEFINE f == [Idle EXCEPT !.step = "report.latest", !.workflow = w, !.outcome = o]
    <3>1. Fine(f)
      BY DEF Idle, Unposted
    <3>2. Become(p, f) \/ \E j : Become(p, Found(j, o))
      BY <2>1 DEF FindActive
    <3> HIDE DEF f, Fine
    <3> QED BY <1>0, <3>1, <3>2
  <2>2. ASSUME NEW w \in Workflows, Run(p, w) \/ SetStatus(p, w) \/ Trigger(p, w)
        PROVE  Moves /\ UNCHANGED <<jobs, created, live, posts, queue>>
    <3> DEFINE a == [Idle EXCEPT !.step = "run.mark", !.workflow = w, !.workflowDoc = workflows[w]]
               b == [Idle EXCEPT !.step = "status.save", !.workflow = w,
                                 !.workflowDoc = workflows[w]]
               c == [Idle EXCEPT !.step = "trigger.await", !.workflow = w]
    <3>1. Fine(a) /\ Fine(b) /\ Fine(c)
      BY DEF Idle, Unposted
    <3>2. /\ Become(p, a) \/ Become(p, b) \/ Become(p, c)
          /\ UNCHANGED <<jobs, created, live, posts, queue>>
      BY <2>2 DEF Run, SetStatus, Trigger, store, n8n
    <3> HIDE DEF a, b, c, Fine
    <3> QED BY <3>1, <3>2
  <2>3. ASSUME NEW j \in JobIds, NEW o \in Outcomes, Report(p, j, o)
        PROVE  Moves /\ UNCHANGED <<jobs, created, live, posts, queue>>
    <3>1. UNCHANGED <<jobs, created, live, posts, queue>>
      BY <2>3 DEF Report, store
    <3>2. Become(p, Found(j, o)) \/ FindActive(p, jobs[j].workflowId, o)
      BY <2>3 DEF Report
    <3> HIDE DEF Fine
    <3> QED BY <1>0, <2>1, <3>1, <3>2
  <2>4. ASSUME NEW w \in Workflows, NEW o \in Outcomes, ReportDirect(p, w, o)
        PROVE  Moves /\ UNCHANGED <<jobs, created, live, posts, queue>>
    <3>1. UNCHANGED <<jobs, created, live, posts, queue>> /\ FindActive(p, w, o)
      BY <2>4 DEF ReportDirect, store
    <3> QED BY <2>1, <3>1
  <2> HIDE DEF Moves
  <2>5. Moves /\ UNCHANGED <<jobs, created, live, posts, queue>>
    BY <1>1, <2>2, <2>3, <2>4 DEF Arrival
  <2> QED BY <1>same, <2>5 DEF Moves
<1>2. CASE RunMark(p) \/ RunReread(p)
  <2> DEFINE a == [Idle EXCEPT !.step = "run.reread", !.workflow = frames[p].workflow]
             b == [frames[p] EXCEPT !.step = "run.create"]
  <2>1. Fine(a) /\ Fine(b)
    BY <1>0 DEF Idle, Frame, Unposted
  <2>2. /\ Become(p, a) \/ Become(p, b) 
        /\ UNCHANGED <<jobs, created, live, posts, queue>>
    BY <1>2 DEF RunMark, RunReread, Goto, store, n8n
  <2> HIDE DEF a, b, Fine
  <2>3. Moves
    BY <2>1, <2>2
  <2> QED BY <1>same, <2>2, <2>3 DEF Fine
<1>3. CASE \/ RunReload(p) \/ RunEnqueueFails(p) \/ ReportCount(p) \/ StatusSave(p)
           \/ TriggerAnswered(p)
  <2>1. /\ Become(p, Idle) \/ \E o, n : Become(p, Finishing(frames[p], o, n))
        /\ UNCHANGED <<jobs, created, live, posts, queue>>
    BY <1>3 DEF RunReload, RunEnqueueFails, ReportCount, StatusSave, TriggerAnswered, store, n8n
  <2> HIDE DEF Fine
  <2>2. Moves
    BY <1>0, <2>1
  <2> QED BY <1>same, <2>1, <2>2 DEF Fine
<1>4. CASE ReportLatest(p)
  <2> DEFINE f == [frames[p] EXCEPT !.step = "report.count"]
  <2>1. Fine(f)
    BY <1>0 DEF Frame, Unposted
  <2>2. UNCHANGED <<jobs, created, live, posts, queue>>
    BY <1>4 DEF ReportLatest, store, n8n
  <2>3. \/ \E j, o : Become(p, Found(j, o))
        \/ \E g \in {Idle, f, Finishing(frames[p], "failed", FALSE)} : Become(p, g)
    BY <1>4 DEF ReportLatest
  <2> HIDE DEF f, Fine
  <2>4. Moves
    BY <1>0, <2>1, <2>3
  <2> QED BY <1>same, <2>2, <2>4 DEF Fine
<1>5. CASE ReportSave(p)
  <2> DEFINE f == [Idle EXCEPT !.step = "report.count", !.job = frames[p].job,
                               !.workflow = frames[p].workflow, !.outcome = frames[p].outcome]
  <2>1. Fine(f)
    BY DEF Idle, Unposted
  <2>2. /\ Become(p, f) \/ Become(p, Finishing(frames[p], frames[p].outcome, FALSE))
        /\ UNCHANGED <<created, live, posts, queue>>
        /\ \E doc, loaded : jobs' = [jobs EXCEPT ![frames[p].job] =
                                        SaveJob(doc, loaded, jobs[frames[p].job])]
    BY <1>5 DEF ReportSave, n8n
  <2> HIDE DEF f, Fine
  <2>3. Moves /\ KeepsJobs
    BY <1>0, <2>1, <2>2, SaveKeepsJobs
  <2> QED BY <2>2, <2>3 DEF Fine
<1> QED
  BY <1>1, <1>2, <1>3, <1>4, <1>5

(* Whatever dispatch does, it stays with its job. *)
LEMMA DispatchMoves ==
  ASSUME TypeInv, NEW p \in Handlers, DispatchStep(p)
  PROVE  /\ frames[p].step # "idle" /\ UNCHANGED <<queue, reports>>
         /\ \E f : /\ Become(p, f) /\ f.step # "run.enqueue"
                   /\ f.step = "idle" \/ f.job = frames[p].job
<1> USE DEF At
<1> DEFINE Fine(f) == f.step # "run.enqueue" /\ (f.step = "idle" \/ f.job = frames[p].job)
           Moves == \E f : Become(p, f) /\ Fine(f)
<1>0. frames[p] \in Frame /\ Fine(Idle)
  BY DEF TypeInv, TypeOK, Idle
<1>1. CASE DispatchLoad(p) \/ DispatchStart(p) \/ FinishLoad(p) \/ PostAccepted(p)
             \/ PostRefused(p) \/ AnswerLost(p)
  <2> DEFINE a(doc) == [frames[p] EXCEPT !.step = "dispatch.start", !.jobDoc = doc]
             b(doc) == [frames[p] EXCEPT !.step = "dispatch.post", !.jobDoc = doc]
             c(doc) == [frames[p] EXCEPT !.step = "finish.save", !.workflowDoc = doc]
             d(step) == [frames[p] EXCEPT !.step = step]
  <2>1. /\ \A doc : Fine(a(doc)) /\ Fine(b(doc)) /\ Fine(c(doc))
        /\ Fine(d("dispatch.await")) /\ Fine(d("dispatch.fail"))
    BY <1>0 DEF Frame
  <2>2. /\ \/ \E doc : Become(p, a(doc)) \/ Become(p, b(doc)) \/ Become(p, c(doc))
           \/ Become(p, d("dispatch.await")) \/ Become(p, d("dispatch.fail"))
        /\ frames[p].step # "idle" /\ UNCHANGED <<queue, reports>>
    BY <1>1 DEF DispatchLoad, DispatchStart, FinishLoad, PostAccepted, PostRefused, AnswerLost,
       Goto, store, n8n
  <2> HIDE DEF a, b, c, d, Fine
  <2>3. Moves
    BY <2>1, <2>2
  <2> QED BY <2>2, <2>3 DEF Fine
<1>2. CASE CredentialMissing(p) \/ WorkflowGone(p) \/ AnswerOk(p) \/ FinishReread(p)
  <2> DEFINE e(step) == [Idle EXCEPT !.step = step, !.job = frames[p].job,
                                     !.workflow = frames[p].workflow]
  <2>1. Fine(e("worker.nack")) /\ Fine(e("worker.ack")) /\ Fine(e("run.reload"))
    BY DEF Idle
  <2>2. /\ \/ Become(p, Idle) \/ Become(p, e("worker.nack"))
           \/ Become(p, e("worker.ack")) \/ Become(p, e("run.reload"))
        /\ frames[p].step # "idle" /\ UNCHANGED <<queue, reports>>
    BY <1>2 DEF CredentialMissing, WorkflowGone, AnswerOk, FinishReread, Throw, DispatchReturns,
       NeedsWorkflow, store, n8n
  <2> HIDE DEF e, Fine
  <2>3. Moves
    BY <1>0, <2>1, <2>2
  <2> QED BY <2>2, <2>3 DEF Fine
<1>3. CASE DispatchFail(p) \/ FinishSave(p)
  <2> DEFINE a == Finishing(frames[p], "failed", TRUE)
             b == [frames[p] EXCEPT !.step = "finish.reread", !.workflowDoc = NullWorkflowDoc]
  <2>1. Fine(a) /\ Fine(b)
    BY <1>0 DEF Frame, Finishing, Idle
  <2>2. /\ Become(p, a) \/ Become(p, b) \/ Become(p, Idle)
        /\ frames[p].step # "idle" /\ UNCHANGED <<queue, reports>>
    BY <1>3 DEF DispatchFail, FinishSave, n8n
  <2> HIDE DEF a, b, Fine
  <2>3. Moves
    BY <1>0, <2>1, <2>2
  <2> QED BY <2>2, <2>3 DEF Fine
<1> QED
  BY <1>1, <1>2, <1>3 DEF DispatchStep

(* The worker's entry is active as long as it works, and no job is added twice. *)
HoldsActive ==
    frames[Worker].step # "idle" =>
        frames[Worker].job \in JobIds /\ queue[frames[Worker].job].state = "active"

AddedOnce ==
    \A p \in Requests : frames[p].step = "run.enqueue" =>
        /\ queue[frames[p].job].state = "none"
        /\ \A q \in Requests : q # p /\ frames[q].step = "run.enqueue"
                                  => frames[q].job # frames[p].job

HoldInv == HoldsActive /\ AddedOnce

LEMMA HoldMove ==
  ASSUME TypeInv, HoldInv, UNCHANGED queue, NEW p \in Handlers, NEW f, Become(p, f),
         f.step # "run.enqueue",
         p = Worker => f.step = "idle" \/ (frames[p].step # "idle" /\ f.job = frames[p].job)
  PROVE  HoldInv'
<1>1. frames'[p] = f /\ \A q \in Handlers : q # p => frames'[q] = frames[q]
  BY BecomeOnly
<1>2. HoldsActive'
  BY <1>1 DEF HoldInv, HoldsActive, Handlers
<1>3. AddedOnce'
  BY <1>1 DEF HoldInv, AddedOnce, Handlers
<1> QED
  BY <1>2, <1>3 DEF HoldInv

LEMMA HoldRequest ==
  ASSUME TypeInv, LinkInv, HoldInv, NEW p \in Requests,
         Arrival(p) \/ RequestStep(p) \/ RunEnqueueFails(p)
  PROVE  HoldInv'
<1> USE DEF At
<1>0. p \in Handlers /\ p # Worker /\ Worker \in Handlers /\ Linked(frames[p], jobs, created)
  BY SlotsAssumption DEF Handlers, LinkInv, FramesLinked
<1>1. CASE DispatchStep(p)
  BY <1>0, <1>1, DispatchMoves, HoldMove
<1>2. CASE RunCreate(p)
  <2> DEFINE w == frames[p].workflow
             f == [Idle EXCEPT
                     !.step = IF QueueEnabled THEN "run.enqueue" ELSE "dispatch.load",
                     !.workflow = w, !.job = created + 1]
  <2>1. w \in Workflows /\ InsertJob(w, "queued")
    BY <1>0, <1>2 DEF RunCreate, Linked
  <2>2. created' = created + 1 /\ created' \in JobIds
    BY <2>1, InsertKeepsJobs DEF JobStatuses
  <2>3. f.job = created'
    BY <2>2 DEF Idle
  <2> HIDE DEF f
  <2>4. /\ UNCHANGED queue
        /\ frames'[p] = f /\ \A q \in Handlers : q # p => frames'[q] = frames[q]
    BY <1>0, <1>2, BecomeOnly DEF RunCreate, n8n, f
  <2>5. created \in Nat /\ \A q \in Handlers : frames[q].job \in 0..created
    BY Ids DEF LinkInv, FramesLinked, Linked
  <2>6. queue[created'].state = "none"
    BY <2>2, <2>5 DEF LinkInv, OnlyCreatedJobs
  <2>7. \A q \in Handlers : q # p => frames'[q].job # frames'[p].job
    BY <2>2, <2>3, <2>4, <2>5
  <2>8. HoldsActive'
    BY <1>0, <2>4 DEF HoldInv, HoldsActive
  <2>9. AddedOnce'
    <3>1. \A q \in Requests : q \in Handlers
      BY DEF Handlers
    <3> QED BY <2>3, <2>4, <2>6, <2>7, <3>1 DEF HoldInv, AddedOnce
  <2> QED BY <2>8, <2>9 DEF HoldInv
<1>3. CASE RunEnqueue(p)
  <2> DEFINE j == frames[p].job
  <2>1. /\ frames[p].step = "run.enqueue" /\ queue' = [queue EXCEPT ![j] = Added]
        /\ queue \in [JobIds -> Entry]
        /\ frames'[p] = Idle /\ \A q \in Handlers : q # p => frames'[q] = frames[q]
    BY <1>0, <1>3, BecomeOnly DEF RunEnqueue, TypeInv, TypeOK
  <2>2. queue[j].state = "none" /\ \A i \in JobIds : i # j => queue'[i] = queue[i]
    BY <2>1 DEF HoldInv, AddedOnce
  <2>3. \A q \in Requests : frames'[q].step = "run.enqueue" =>
            /\ q # p /\ frames'[q] = frames[q]
            /\ frames[q].job \in JobIds /\ frames[q].job # j
    <3>1. Idle.step # "run.enqueue"
      BY DEF Idle
    <3> QED
      BY <2>1, <3>1 DEF HoldInv, AddedOnce, Handlers, LinkInv, FramesLinked, Linked, JobSteps
  <2> HIDE DEF j
  <2>4. HoldsActive'
    BY <1>0, <2>1, <2>2 DEF HoldInv, HoldsActive
  <2>5. AddedOnce'
    BY <2>2, <2>3 DEF HoldInv, AddedOnce
  <2> QED BY <2>4, <2>5 DEF HoldInv
<1>4. CASE ~(DispatchStep(p) \/ RunCreate(p) \/ RunEnqueue(p))
  <2>1. /\ \E f : Become(p, f) /\ f.step \notin Unposted
        /\ UNCHANGED queue
    BY <1>4, RequestMoves DEF RequestStep
  <2> QED BY <1>0, <2>1, HoldMove DEF Unposted
<1> QED
  BY <1>1, <1>2, <1>3, <1>4

LEMMA HoldStep == TypeInv /\ LinkInv /\ HoldInv /\ [Next]_vars => HoldInv'
<1> SUFFICES ASSUME TypeInv, LinkInv, HoldInv, [Next]_vars PROVE HoldInv'
  OBVIOUS
<1> USE DEF At
<1>0. Worker \in Handlers /\ queue \in [JobIds -> Entry] /\ Idle.step = "idle"
      /\ \A q \in Requests : q \in Handlers /\ q # Worker
  BY SlotsAssumption DEF Handlers, TypeInv, TypeOK, Idle
<1>1. ASSUME NEW p \in Requests, Arrival(p) \/ RequestStep(p) \/ RunEnqueueFails(p)
      PROVE  HoldInv'
  BY <1>1, HoldRequest
<1>2. CASE DispatchStep(Worker)
  BY <1>0, <1>2, DispatchMoves, HoldMove
<1>work. ASSUME NEW j \in JobIds, queue[j].state # "none", NEW entry,
                queue' = [queue EXCEPT ![j] = entry], NEW f, Become(Worker, f),
                f.step # "idle" => f.job = j /\ entry.state = "active"
         PROVE  HoldInv'
  <2>1. /\ queue'[j] = entry /\ \A i \in JobIds : i # j => queue'[i] = queue[i]
        /\ frames'[Worker] = f /\ \A q \in Requests : frames'[q] = frames[q]
    BY <1>0, <1>work, BecomeOnly
  <2>2. HoldsActive'
    BY <1>work, <2>1 DEF HoldsActive
  <2>3. \A q \in Requests : frames[q].step = "run.enqueue" =>
            queue'[frames[q].job] = queue[frames[q].job]
    BY <1>0, <1>work, <2>1 DEF HoldInv, AddedOnce, LinkInv, FramesLinked, Linked, JobSteps
  <2>4. AddedOnce'
    BY <2>1, <2>3 DEF HoldInv, AddedOnce
  <2> QED BY <2>2, <2>4 DEF HoldInv
<1>3. ASSUME NEW j \in JobIds, WorkerTake(j) PROVE HoldInv'
  <2> DEFINE f == [Idle EXCEPT !.step = "dispatch.load", !.job = j,
                               !.workflow = jobs[j].workflowId]
  <2>1. f.job = j /\ Taken(queue[j]).state = "active"
    BY <1>0 DEF Idle, Taken, Entry
  <2>2. queue[j].state # "none" /\ queue' = [queue EXCEPT ![j] = Taken(queue[j])] /\ Become(Worker, f)
    BY <1>3 DEF WorkerTake
  <2> HIDE DEF f
  <2> QED BY <1>work, <2>1, <2>2
<1>4. CASE WorkerAck \/ WorkerNack
  <2> DEFINE j == frames[Worker].job
  <2>1. j \in JobIds /\ queue[j].state # "none"
    BY <1>4 DEF WorkerAck, WorkerNack, HoldInv, HoldsActive
  <2>2. Become(Worker, Idle) /\ \E entry : queue' = [queue EXCEPT ![j] = entry]
    BY <1>4 DEF WorkerAck, WorkerNack
  <2> HIDE DEF j
  <2> QED BY <1>0, <1>work, <2>1, <2>2
<1>5. CASE Crash
  <2>1. \A q \in Handlers : frames'[q].step = "idle"
    BY <1>5 DEF Crash, Idle
  <2> QED BY <1>0, <2>1 DEF HoldInv, HoldsActive, AddedOnce
<1>6. ASSUME NEW w \in Workflows, CreateDraft(w) \/ Remove(w) PROVE HoldInv'
  BY <1>6 DEF CreateDraft, Remove, HoldInv, HoldsActive, AddedOnce
<1>7. CASE UNCHANGED vars
  BY <1>7 DEF vars, store, HoldInv, HoldsActive, AddedOnce
<1> QED
  BY <1>1, <1>2, <1>3, <1>4, <1>5, <1>6, <1>7 DEF Next, WorkerStep

LEMMA HoldInvariant == Spec => []HoldInv
<1>1. Init => HoldInv
  BY DEF Init, Idle, HoldInv, HoldsActive, AddedOnce, Handlers
<1> QED
  BY <1>1, TypeInvariant, LinkInvariant, HoldStep, PTL DEF Spec

------------------------------------------------------------------------------
(* A running workflow is accounted for *)

Witness(p, w) == AboutToStart(p, w) \/ AboutToFinish(p, w)
Explained(j) == Carried(j) \/ GivenUp(j)
Accounted(w) == \/ \E j \in ActiveJobs(w) : Explained(j)
                \/ \E p \in Handlers : Witness(p, w)
Running(w) == w \in live \ interrupted /\ workflows[w].status = "Running"

WitnessSteps == {"run.reread", "run.create", "report.count", "finish.load", "finish.save"}

AccountInv == \A w \in Workflows : Running(w) => Accounted(w)

(* Workflows come to run, as far as it matters here, only by markAsRunning. *)
NoNewRunning == \A w \in Workflows : Running(w)' => Running(w)

(* A step of handler p that hands its own part of the account over. *)
LEMMA HandOver ==
  ASSUME NEW p \in Handlers, NEW w \in Workflows, Accounted(w),
         \A q \in Handlers : q # p => frames'[q] = frames[q],
         Witness(p, w) => Accounted(w)',
         \A j \in ActiveJobs(w) : Explained(j) => Accounted(w)'
  PROVE  Accounted(w)'
<1>1. ASSUME NEW q \in Handlers, Witness(q, w) PROVE Accounted(w)'
  <2>1. CASE q # p
    BY <1>1, <2>1 DEF Accounted, Witness, AboutToStart, AboutToFinish, At
  <2>2. CASE q = p
    BY <1>1, <2>2
  <2> QED BY <2>1, <2>2
<1> QED
  BY <1>1 DEF Accounted

(* A step of a handler that accounts for nothing, and that ends no job. *)
LEMMA QuietStep ==
  ASSUME AccountInv, NEW p \in Handlers, frames[p].step \notin WitnessSteps,
         \A q \in Handlers : q # p => frames'[q] = frames[q],
         NoNewRunning,
         \A w \in Workflows : ActiveJobs(w) \subseteq ActiveJobs(w)',
         \A j \in JobIds : Explained(j) => Explained(j)'
  PROVE  AccountInv'
<1>1. ASSUME NEW w \in Workflows, Running(w)' PROVE Accounted(w)'
  <2>1. Accounted(w)
    BY <1>1 DEF NoNewRunning, AccountInv
  <2>2. ~Witness(p, w)
    BY DEF Witness, AboutToStart, AboutToFinish, At, WitnessSteps
  <2>3. \A j \in ActiveJobs(w) : Explained(j) => Accounted(w)'
    BY DEF Accounted, ActiveJobs
  <2> QED BY <2>1, <2>2, <2>3, HandOver
<1> QED
  BY <1>1 DEF AccountInv

(* A step of handler p away from the queue and from n8n explains what was
   explained, if it does not drop the job p has in hand. *)
LEMMA StaysExplained ==
  ASSUME NEW p \in Handlers, \A q \in Handlers : q # p => frames'[q] = frames[q],
         UNCHANGED <<queue, posts, reports>>, abandoned \subseteq abandoned'
  PROVE  \A j \in JobIds : /\ Explained(j)
                           /\ frames[p].step \in InHand /\ frames[p].job = j => Explained(j)'
                           => Explained(j)'
<1> SUFFICES ASSUME NEW j \in JobIds, Explained(j),
                    frames[p].step \in InHand /\ frames[p].job = j => Explained(j)'
             PROVE  Explained(j)'
  OBVIOUS
<1>1. CASE frames[p].step \in InHand /\ frames[p].job = j
  BY <1>1
<1>2. CASE ~(frames[p].step \in InHand /\ frames[p].job = j)
  <2>1. CASE \E q \in Handlers : frames[q].job = j /\ frames[q].step \in InHand
    <3>1. PICK q \in Handlers : q # p /\ frames[q].job = j /\ frames[q].step \in InHand
      BY <1>2, <2>1
    <3>2. frames'[q] = frames[q]
      BY <3>1
    <3>3. frames'[q].job = j /\ frames'[q].step \in InHand
      BY <3>1, <3>2
    <3> QED BY <3>3 DEF Explained, Carried
  <2>2. CASE ~\E q \in Handlers : frames[q].job = j /\ frames[q].step \in InHand
    BY <2>2 DEF Explained, Carried, GivenUp
  <2> QED BY <2>1, <2>2
<1> QED
  BY <1>1, <1>2

(* Which steps make no workflow run, and which keep the active jobs. *)
LEMMA KeepsRunning ==
  ASSUME UNCHANGED <<workflows, live, interrupted>>
  PROVE  NoNewRunning
  BY DEF NoNewRunning, Running

LEMMA KeepsActive ==
  ASSUME UNCHANGED jobs
  PROVE  \A w \in Workflows : ActiveJobs(w)' = ActiveJobs(w)
  BY DEF ActiveJobs

LEMMA InsertKeepsActive ==
  ASSUME TypeInv, LinkInv, NEW v \in Workflows, NEW status \in JobStatuses, InsertJob(v, status)
  PROVE  \A w \in Workflows : ActiveJobs(w) \subseteq ActiveJobs(w)'
<1>1. /\ created' = created + 1
      /\ \A j \in JobIds : j # created' => jobs'[j] = jobs[j]
  BY InsertKeepsJobs
<1>2. \A j \in JobIds : j = created' => jobs[j] = NoJobDoc
  BY <1>1, Ids DEF LinkInv, JobsInOrder
<1> QED
  BY <1>1, <1>2, SlotsAssumption DEF ActiveJobs, NoJobDoc

(* The save of markRunFinished makes no workflow run; a document loaded as
   Running no longer is. *)
LEMMA FinishSaveEndsRun ==
  ASSUME NEW loaded \in WorkflowDoc, NEW stored \in WorkflowDoc,
         loaded.statusBeforeRun # "Running"
  PROVE  \A o : SaveWorkflow(MarkRunFinished(loaded, o), loaded, stored).status = "Running"
                   => stored.status = "Running" /\ loaded.status # "Running"
  BY DEF SaveWorkflow, Written, MarkRunFinished, StatusToRestore, WorkflowDoc, Null

LEMMA IncrementKeepsRunning ==
  ASSUME TypeInv, NEW v, Increment(v), UNCHANGED <<live, interrupted>>
  PROVE  NoNewRunning
<1>1. /\ workflows \in [Workflows -> WorkflowDoc] /\ live \subseteq Workflows
      /\ \A d \in WorkflowDoc : IncrementTriggers(d).status = d.status
  BY DEF TypeInv, TypeOK, IncrementTriggers, WorkflowDoc
<1>2. CASE v \in live
  BY <1>1, <1>2 DEF Increment, NoNewRunning, Running
<1>3. CASE v \notin live
  BY <1>3 DEF Increment, NoNewRunning, Running
<1> QED
  BY <1>2, <1>3

(* A save of a job that ends it: the handler becomes a witness of its workflow. *)
LEMMA EndingStep ==
  ASSUME TypeInv, LinkInv, AccountInv, NEW p \in Handlers, frames[p].step \in JobSteps,
         NEW doc, NEW loaded,
         jobs' = [jobs EXCEPT ![frames[p].job] = SaveJob(doc, loaded, jobs[frames[p].job])],
         UNCHANGED <<workflows, live, interrupted, queue, posts, reports, abandoned>>,
         \A q \in Handlers : q # p => frames'[q] = frames[q],
         frames'[p].step \in {"report.count", "finish.load"},
         frames'[p].workflow = frames[p].workflow
  PROVE  AccountInv'
<1>1. NoNewRunning
  BY KeepsRunning
<1>2. /\ frames[p].job \in JobIds /\ frames[p].workflow = jobs[frames[p].job].workflowId
      /\ jobs \in [JobIds -> JobDoc]
  BY DEF LinkInv, FramesLinked, Linked, TypeInv, TypeOK
<1>3. ASSUME NEW w \in Workflows, Running(w)' PROVE Accounted(w)'
  <2>1. CASE w = frames[p].workflow
    BY <2>1 DEF Accounted, Witness, AboutToFinish
  <2>2. CASE w # frames[p].workflow
    <3>1. Accounted(w) /\ ~Witness(p, w)
      BY <1>1, <1>3, <2>2 DEF NoNewRunning, AccountInv, Witness, AboutToStart, AboutToFinish
    <3>2. \A j \in ActiveJobs(w) : j \in ActiveJobs(w)' /\ j # frames[p].job /\ j \in JobIds
      BY <1>2, <2>2 DEF ActiveJobs
    <3>3. \A j \in ActiveJobs(w) : Explained(j) => Accounted(w)'
      BY <3>2, StaysExplained DEF Accounted
    <3> QED BY <3>1, <3>3, HandOver
  <2> QED BY <2>1, <2>2
<1> QED
  BY <1>3 DEF AccountInv

(* n8n reports at least one of the executions it accepted, and no more than it owes. *)
ExecutionsAreReported == ReportsPerExecution > 0

ReportsInv == \A j \in JobIds : reports[j] <= posts[j] * ReportsPerExecution

LEMMA OneMoreReport ==
  ASSUME NEW r \in Nat, NEW n \in Nat, r <= n * ReportsPerExecution
  PROVE  /\ r <= (n + 1) * ReportsPerExecution
         /\ ExecutionsAreReported => r < (n + 1) * ReportsPerExecution
<1>1. ReportsPerExecution \in Nat
  BY BoundsAssumption
<1>2. (n + 1) * ReportsPerExecution = n * ReportsPerExecution + ReportsPerExecution
  BY <1>1
<1>3. n * ReportsPerExecution \in Nat
  BY <1>1
<1> HIDE DEF ExecutionsAreReported
<1>4. ExecutionsAreReported => ReportsPerExecution > 0
  BY DEF ExecutionsAreReported
<1> QED
  BY <1>1, <1>2, <1>3, <1>4

LEMMA DispatchStepAccounted ==
  ASSUME ExecutionsAreReported, TypeInv, LinkInv, RestoreInv, AccountInv, ReportsInv,
         NEW p \in Handlers, DispatchStep(p)
  PROVE  AccountInv'
<1> USE DEF At
<1>0. /\ frames[p] \in Frame /\ frames[p].workflowDoc \in WorkflowDoc
      /\ frames[p].workflowDoc.statusBeforeRun # "Running"
      /\ workflows \in [Workflows -> WorkflowDoc] /\ live \subseteq Workflows
      /\ jobs \in [JobIds -> JobDoc]
  BY DEF TypeInv, TypeOK, Frame, RestoreInv, LoadedNeverRestoreRunning
<1>quiet. ASSUME UNCHANGED <<workflows, live, interrupted, jobs, queue, posts, reports>>,
                 abandoned \subseteq abandoned', frames[p].step \notin WitnessSteps,
                 \A q \in Handlers : q # p => frames'[q] = frames[q],
                 \A j \in JobIds : frames[p].step \in InHand /\ frames[p].job = j
                                     => Explained(j)'
          PROVE  AccountInv'
  <2>1. \A j \in JobIds : Explained(j) => Explained(j)'
    BY <1>quiet, StaysExplained
  <2> QED BY <1>quiet, <2>1, QuietStep, KeepsRunning, KeepsActive
<1>hand. ASSUME frames'[p].step \in InHand, frames'[p].job = frames[p].job
         PROVE  \A j \in JobIds : frames[p].job = j => Explained(j)'
  BY <1>hand DEF Explained, Carried
<1>1. CASE DispatchLoad(p) \/ PostRefused(p) \/ AnswerLost(p)
  <2> DEFINE a(doc) == [frames[p] EXCEPT !.step = "dispatch.start", !.jobDoc = doc]
             b == [frames[p] EXCEPT !.step = "dispatch.fail"]
  <2>1. /\ \A doc : a(doc).step = "dispatch.start" /\ a(doc).job = frames[p].job
        /\ b.step = "dispatch.fail" /\ b.job = frames[p].job
    BY <1>0 DEF Frame
  <2>2. /\ Become(p, b) \/ \E doc : Become(p, a(doc))
        /\ UNCHANGED <<workflows, live, interrupted, jobs, queue, posts, reports, abandoned>>
        /\ frames[p].step \notin WitnessSteps
    BY <1>1 DEF DispatchLoad, PostRefused, AnswerLost, Goto, store, n8n, ghosts, WitnessSteps
  <2> HIDE DEF a, b
  <2>3. /\ \A q \in Handlers : q # p => frames'[q] = frames[q]
        /\ frames'[p].step \in {"dispatch.start", "dispatch.fail"}
        /\ frames'[p].job = frames[p].job
    BY <2>1, <2>2, BecomeOnly
  <2>4. \A j \in JobIds : frames[p].job = j => Explained(j)'
    BY <1>hand, <2>3 DEF InHand
  <2> QED BY <1>quiet, <2>2, <2>3, <2>4
<1>8. CASE PostAccepted(p)
  <2> DEFINE k == frames[p].job
  <2>1. /\ \A q \in Handlers : q # p => frames'[q] = frames[q]
        /\ UNCHANGED <<workflows, live, interrupted, jobs, queue, reports, abandoned>>
        /\ frames[p].step \notin WitnessSteps /\ frames[p].step \in JobSteps
        /\ posts' = [posts EXCEPT ![k] = @ + 1]
    BY <1>8, BecomeOnly DEF PostAccepted, Goto, store, ghosts, WitnessSteps, JobSteps
  <2>2. k \in JobIds /\ posts \in [JobIds -> Nat]
    BY <2>1 DEF LinkInv, FramesLinked, Linked, TypeInv, TypeOK
  <2>3. /\ posts'[k] = posts[k] + 1
        /\ \A j \in JobIds : j # k => posts'[j] = posts[j]
    BY <2>1, <2>2
  <2>4. reports[k] < posts'[k] * ReportsPerExecution
    <3>1. posts[k] \in Nat /\ reports[k] \in Nat /\ reports[k] <= posts[k] * ReportsPerExecution
      BY <2>2 DEF ReportsInv, TypeInv, TypeOK
    <3>2. reports[k] < (posts[k] + 1) * ReportsPerExecution
      BY <3>1, OneMoreReport
    <3> QED BY <2>3, <3>2
  <2>5. ASSUME NEW j \in JobIds, Explained(j) PROVE Explained(j)'
    <3>1. CASE j = k
      <4>1. reports'[j] < posts'[j] * ReportsPerExecution
        BY <2>1, <2>4, <3>1
      <4> QED BY <4>1 DEF Explained, Carried
    <3>2. CASE j # k
      <4>1. ASSUME NEW q \in Handlers, frames[q].job = j, frames[q].step \in InHand
            PROVE  Explained(j)'
        <5>1. frames'[q] = frames[q]
          BY <2>1, <3>2, <4>1
        <5>2. frames'[q].job = j /\ frames'[q].step \in InHand
          BY <4>1, <5>1
        <5> QED BY <5>2 DEF Explained, Carried
      <4>2. CASE \/ queue[j].state = "waiting" \/ GivenUp(j)
                 \/ reports[j] < posts[j] * ReportsPerExecution
        BY <2>1, <2>3, <3>2, <4>2 DEF Explained, Carried, GivenUp
      <4> QED BY <2>5, <4>1, <4>2 DEF Explained, Carried
    <3> QED BY <3>1, <3>2
  <2> QED BY <2>1, <2>5, QuietStep, KeepsRunning, KeepsActive
<1>9. CASE CredentialMissing(p)
  <2>1. /\ \A q \in Handlers : q # p => frames'[q] = frames[q]
        /\ UNCHANGED <<workflows, live, interrupted, jobs, queue, posts, reports>>
        /\ abandoned \subseteq abandoned' /\ frames[p].step \notin WitnessSteps
    BY <1>9, EndOnly DEF CredentialMissing, store, n8n, WitnessSteps
  <2>2. CASE p = Worker
    <3> DEFINE f == [Idle EXCEPT !.step = "worker.nack", !.job = frames[p].job,
                                 !.workflow = frames[p].workflow]
    <3>1. f.step = "worker.nack" /\ f.job = frames[p].job
      BY DEF Idle
    <3>2. Become(p, f)
      BY <1>9, <2>2 DEF CredentialMissing, Throw
    <3> HIDE DEF f
    <3>3. frames'[p].step = "worker.nack" /\ frames'[p].job = frames[p].job
      BY <3>1, <3>2, BecomeOnly
    <3>4. \A j \in JobIds : frames[p].job = j => Explained(j)'
      BY <1>hand, <3>3 DEF InHand
    <3> QED BY <1>quiet, <2>1, <3>4
  <2>3. CASE p # Worker
    <3>1. abandoned' = abandoned \cup {frames[p].job}
      BY <1>9, <2>3 DEF CredentialMissing
    <3>2. \A j \in JobIds : frames[p].job = j => Explained(j)'
      BY <3>1 DEF Explained, GivenUp
    <3> QED BY <1>quiet, <2>1, <3>2
  <2> QED BY <2>2, <2>3
<1>2. CASE AnswerOk(p) \/ FinishReread(p)
  BY <1>2, <1>quiet, EndOnly
  DEF AnswerOk, FinishReread, store, n8n, ghosts, WitnessSteps, InHand
<1>3. CASE WorkflowGone(p)
  <2>1. /\ \A q \in Handlers : q # p => frames'[q] = frames[q]
        /\ UNCHANGED <<workflows, live, interrupted, jobs, queue, posts, reports, abandoned>>
        /\ frames[p].workflow \notin live
    BY <1>3, EndOnly DEF WorkflowGone, store, n8n, ghosts
  <2>2. frames[p].step \in InHand => frames[p].workflow = jobs[frames[p].job].workflowId
    BY <1>3 DEF WorkflowGone, NeedsWorkflow, InHand, LinkInv, FramesLinked, Linked, JobSteps
  <2>3. ASSUME NEW w \in Workflows, Running(w)' PROVE Accounted(w)'
    <3>1. Accounted(w) /\ w # frames[p].workflow
      BY <2>1, <2>3 DEF Running, AccountInv
    <3>2. ~Witness(p, w)
      BY <3>1 DEF Witness, AboutToStart, AboutToFinish
    <3>3. ASSUME NEW j \in ActiveJobs(w), Explained(j) PROVE Accounted(w)'
      <4>1. j \in JobIds /\ jobs[j].workflowId = w
        BY DEF ActiveJobs
      <4>2. ~(frames[p].step \in InHand /\ frames[p].job = j)
        BY <2>2, <3>1, <4>1
      <4>3. Explained(j)'
        BY <2>1, <3>3, <4>1, <4>2, StaysExplained
      <4> QED BY <2>1, <4>3, KeepsActive DEF Accounted
    <3> QED BY <2>1, <3>1, <3>2, <3>3, HandOver
  <2> QED BY <2>3 DEF AccountInv
<1>4. CASE DispatchStart(p)
  <2> DEFINE j == frames[p].job
             loaded == frames[p].jobDoc
             doc == [loaded EXCEPT !.status = "processing"]
  <2> DEFINE f == [frames[p] EXCEPT !.step = "dispatch.post", !.jobDoc = doc]
  <2>0. f.step = "dispatch.post" /\ f.job = frames[p].job
    BY <1>0 DEF Frame
  <2> HIDE DEF f
  <2>1. /\ frames'[p] = f /\ \A q \in Handlers : q # p => frames'[q] = frames[q]
        /\ UNCHANGED <<workflows, live, interrupted, queue, posts, reports, abandoned>>
        /\ frames[p].step \notin WitnessSteps
    BY <1>4, BecomeOnly DEF DispatchStart, n8n, ghosts, WitnessSteps, f
  <2>2. loaded \in JobDoc /\ doc.status = "processing" /\ j \in JobIds
    BY <1>0, <1>4 DEF DispatchStart, Frame, JobDoc, LinkInv, FramesLinked, Linked, JobSteps
  <2>3. /\ SaveJob(doc, loaded, jobs[j]).workflowId = jobs[j].workflowId
        /\ \/ SaveJob(doc, loaded, jobs[j]).status = jobs[j].status
           \/ SaveJob(doc, loaded, jobs[j]).status = "processing"
    BY <2>2 DEF SaveJob, Written
  <2>4. jobs' = [jobs EXCEPT ![j] = SaveJob(doc, loaded, jobs[j])]
    BY <1>4 DEF DispatchStart
  <2> HIDE DEF doc
  <2>5. \A w \in Workflows : ActiveJobs(w) \subseteq ActiveJobs(w)'
    BY <1>0, <2>2, <2>3, <2>4 DEF ActiveJobs, ActiveStatuses
  <2>6. \A i \in JobIds : frames[p].job = i => Explained(i)'
    BY <1>hand, <2>0, <2>1 DEF InHand
  <2>7. \A i \in JobIds : Explained(i) => Explained(i)'
    BY <2>1, <2>6, StaysExplained
  <2> QED BY <2>1, <2>5, <2>7, QuietStep, KeepsRunning
<1>5. CASE DispatchFail(p)
  <2> DEFINE loaded == frames[p].jobDoc
             doc(text) == [loaded EXCEPT !.status = "failed", !.errorMessage = text]
  <2>1. PICK text : jobs' = [jobs EXCEPT ![frames[p].job] =
                                SaveJob(doc(text), loaded, jobs[frames[p].job])]
    BY <1>5 DEF DispatchFail
  <2>2. /\ \A q \in Handlers : q # p => frames'[q] = frames[q]
        /\ frames'[p] = Finishing(frames[p], "failed", TRUE)
        /\ UNCHANGED <<workflows, live, interrupted, queue, posts, reports, abandoned>>
        /\ frames[p].step \in JobSteps
    BY <1>5, BecomeOnly DEF DispatchFail, n8n, ghosts, JobSteps
  <2>3. frames'[p].step = "finish.load" /\ frames'[p].workflow = frames[p].workflow
    BY <2>2 DEF Finishing, Idle
  <2> HIDE DEF doc
  <2> QED BY <2>1, <2>2, <2>3, EndingStep
<1>6. CASE FinishLoad(p)
  <2> DEFINE w == frames[p].workflow
             f == [frames[p] EXCEPT !.step = "finish.save", !.workflowDoc = workflows[w]]
  <2>1. /\ frames'[p] = f /\ \A q \in Handlers : q # p => frames'[q] = frames[q]
        /\ UNCHANGED <<workflows, live, interrupted, jobs>>
        /\ \A j \in JobIds : Explained(j) => Explained(j)'
    BY <1>6, BecomeOnly, StaysExplained DEF FinishLoad, store, n8n, ghosts, InHand
  <2>2. f.step = "finish.save" /\ f.workflow = w /\ f.workflowDoc = workflows[w]
    BY <1>0 DEF Frame
  <2> HIDE DEF f
  <2>3. ASSUME NEW v \in Workflows, Running(v)' PROVE Accounted(v)'
    <3>1. Accounted(v) /\ Running(v)
      BY <2>1, <2>3 DEF Running, AccountInv
    <3>2. ASSUME Witness(p, v) PROVE Accounted(v)'
      <4>1. v = w /\ workflows[w].status = "Running"
        BY <3>1, <3>2 DEF Witness, AboutToStart, AboutToFinish, Running
      <4> QED BY <2>1, <2>2, <4>1 DEF Accounted, Witness, AboutToFinish
    <3>3. \A j \in ActiveJobs(v) : Explained(j) => Accounted(v)'
      BY <2>1, KeepsActive DEF Accounted, ActiveJobs
    <3> QED BY <2>1, <3>1, <3>2, <3>3, HandOver
  <2> QED BY <2>3 DEF AccountInv
<1>7. CASE FinishSave(p)
  <2> DEFINE w == frames[p].workflow
             loaded == frames[p].workflowDoc
             saved == SaveWorkflow(MarkRunFinished(loaded, frames[p].outcome), loaded, workflows[w])
  <2>1. /\ \A q \in Handlers : q # p => frames'[q] = frames[q]
        /\ UNCHANGED <<live, interrupted, jobs>> /\ w \in Workflows
        /\ workflows' = [workflows EXCEPT ![w] = saved]
        /\ \A j \in JobIds : Explained(j) => Explained(j)'
    <3>1. \A q \in Handlers : q # p => frames'[q] = frames[q]
      BY <1>7 DEF FinishSave, Become, TypeInv, TypeOK
    <3>2. \A j \in JobIds : Explained(j) => Explained(j)'
      BY <1>7, <3>1, StaysExplained DEF FinishSave, n8n, ghosts, InHand
    <3> QED BY <1>0, <1>7, <3>1, <3>2 DEF FinishSave, SaveDoc, ghosts
  <2>2. saved.status = "Running" => workflows[w].status = "Running" /\ loaded.status # "Running"
    BY <1>0, <2>1, FinishSaveEndsRun
  <2> HIDE DEF saved
  <2>3. NoNewRunning
    BY <1>0, <2>1, <2>2 DEF NoNewRunning, Running
  <2>4. ASSUME NEW v \in Workflows, Running(v)' PROVE Accounted(v)'
    <3>1. Accounted(v)
      BY <2>3, <2>4 DEF NoNewRunning, AccountInv
    <3>2. ~Witness(p, v)
      <4>1. CASE v = w
        <5>1. saved.status = "Running"
          BY <1>0, <2>1, <2>4, <4>1 DEF Running
        <5> QED BY <1>7, <2>2, <5>1 DEF FinishSave, Witness, AboutToStart, AboutToFinish
      <4>2. CASE v # w
        BY <4>2 DEF Witness, AboutToStart, AboutToFinish
      <4> QED BY <4>1, <4>2
    <3>3. \A j \in ActiveJobs(v) : Explained(j) => Accounted(v)'
      BY <2>1, KeepsActive DEF Accounted, ActiveJobs
    <3> QED BY <2>1, <3>1, <3>2, <3>3, HandOver
  <2> QED BY <2>4 DEF AccountInv
<1> QED
  BY <1>1, <1>2, <1>3, <1>4, <1>5, <1>6, <1>7, <1>8, <1>9 DEF DispatchStep

(* A request that arrives takes a free slot and changes no document. *)
LEMMA ArrivalAccounted ==
  ASSUME TypeInv, LinkInv, AccountInv, NEW p \in Requests, Arrival(p)
  PROVE  AccountInv'
<1>0. p \in Handlers /\ Idle.step \notin WitnessSteps \cup InHand
  BY DEF Handlers, Idle, WitnessSteps, InHand
<1>quiet. ASSUME frames[p] = Idle, NEW f, Become(p, f),
                 UNCHANGED <<workflows, live, interrupted, jobs, queue, posts, reports, abandoned>>
          PROVE  AccountInv'
  <2>1. \A q \in Handlers : q # p => frames'[q] = frames[q]
    BY <1>0, <1>quiet, BecomeOnly
  <2>2. \A j \in JobIds : Explained(j) => Explained(j)'
    BY <1>0, <1>quiet, <2>1, StaysExplained
  <2> QED BY <1>0, <1>quiet, <2>1, <2>2, QuietStep, KeepsRunning, KeepsActive
<1>found. ASSUME NEW w, NEW o, FindActive(p, w, o) PROVE \E f : Become(p, f)
  BY <1>found DEF FindActive
<1>1. ASSUME NEW w \in Workflows, Run(p, w) \/ SetStatus(p, w) \/ Trigger(p, w)
      PROVE  AccountInv'
  BY <1>1, <1>quiet DEF Run, SetStatus, Trigger, Free, store, n8n, ghosts
<1>2. ASSUME NEW w \in Workflows, NEW o \in Outcomes, ReportDirect(p, w, o) PROVE AccountInv'
  <2>1. /\ frames[p] = Idle /\ FindActive(p, w, o)
        /\ UNCHANGED <<workflows, live, interrupted, jobs, queue, posts, reports, abandoned>>
    BY <1>2 DEF ReportDirect, Free, store, ghosts
  <2> QED BY <1>quiet, <1>found, <2>1
<1>3. ASSUME NEW k \in JobIds, NEW o \in Outcomes, Report(p, k, o) PROVE AccountInv'
  <2>0. PICK v : v = jobs[k].workflowId
    OBVIOUS
  <2>1. /\ frames[p] = Idle
        /\ UNCHANGED <<workflows, live, interrupted, jobs, queue, posts, abandoned>>
        /\ reports' = [reports EXCEPT ![k] = @ + 1]
        /\ Become(p, Found(k, o)) \/ FindActive(p, v, o)
    BY <1>3, <2>0 DEF Report, Free, store, ghosts
  <2>2. \A q \in Handlers : q # p => frames'[q] = frames[q]
    BY <1>0, <1>found, <2>1, BecomeOnly
  <2>3. \A j \in JobIds : j # k => reports'[j] = reports[j]
    BY <2>1 DEF TypeInv, TypeOK
  <2>4. ASSUME NEW j \in JobIds, Explained(j), j # k PROVE Explained(j)'
    <3>1. ASSUME NEW q \in Handlers, frames[q].job = j, frames[q].step \in InHand
          PROVE  Explained(j)'
      <4>1. frames'[q] = frames[q]
        BY <1>0, <2>1, <2>2, <3>1
      <4>2. frames'[q].job = j /\ frames'[q].step \in InHand
        BY <3>1, <4>1
      <4> QED BY <4>2 DEF Explained, Carried
    <3>2. CASE \/ queue[j].state = "waiting" \/ GivenUp(j)
               \/ reports[j] < posts[j] * ReportsPerExecution
      BY <2>1, <2>3, <2>4, <3>2 DEF Explained, Carried, GivenUp
    <3> QED BY <2>4, <3>1, <3>2 DEF Explained, Carried
  <2>5. \A j \in ActiveJobs(v) : Found(j, o).step = "report.save" /\ Found(j, o).job = j
    <3>1. \A j \in ActiveJobs(v) : jobs[j].status # "completed"
      BY DEF ActiveJobs, ActiveStatuses
    <3> QED BY <3>1 DEF Found, Idle
  <2>6. ASSUME k \in ActiveJobs(v) PROVE Accounted(v)'
    <3>1. PICK j \in ActiveJobs(v) : Become(p, Found(j, o))
      BY <2>1, <2>6 DEF FindActive
    <3>2. frames'[p] = Found(j, o)
      BY <1>0, <3>1, BecomeOnly
    <3>3. frames'[p].job = j /\ frames'[p].step \in InHand
      BY <2>5, <3>1, <3>2 DEF InHand
    <3>4. Explained(j)'
      BY <1>0, <3>3 DEF Explained, Carried
    <3>5. j \in ActiveJobs(v)'
      BY <2>1, <3>1 DEF ActiveJobs
    <3> QED BY <3>4, <3>5 DEF Accounted
  <2>7. ASSUME NEW w \in Workflows, Running(w)' PROVE Accounted(w)'
    <3>1. Accounted(w) /\ ~Witness(p, w)
      BY <1>0, <2>1, <2>7
      DEF Running, AccountInv, Witness, AboutToStart, AboutToFinish, At, WitnessSteps
    <3>2. ASSUME NEW j \in ActiveJobs(w), Explained(j) PROVE Accounted(w)'
      <4>1. CASE j = k
        <5>1. w = v /\ k \in ActiveJobs(v)
          BY <2>0, <4>1 DEF ActiveJobs
        <5> QED BY <2>6, <5>1
      <4>2. CASE j # k
        <5>1. j \in ActiveJobs(w)' /\ j \in JobIds
          BY <2>1 DEF ActiveJobs
        <5>2. Explained(j)'
          BY <2>4, <3>2, <4>2, <5>1
        <5> QED BY <5>1, <5>2 DEF Accounted
      <4> QED BY <4>1, <4>2
    <3> QED BY <1>0, <2>2, <3>1, <3>2, HandOver
  <2> QED BY <2>7 DEF AccountInv
<1> QED
  BY <1>1, <1>2, <1>3 DEF Arrival

(* The steps of run hand the account from the handler to the job it creates. *)
LEMMA RunStepAccounted ==
  ASSUME TypeInv, LinkInv, AccountInv, NEW p \in Requests,
         RunMark(p) \/ RunReread(p) \/ RunCreate(p) \/ RunEnqueue(p) \/ RunReload(p)
             \/ RunEnqueueFails(p)
  PROVE  AccountInv'
<1> USE DEF At
<1>0. /\ p \in Handlers /\ frames[p] \in Frame
      /\ workflows \in [Workflows -> WorkflowDoc] /\ live \subseteq Workflows
  BY DEF TypeInv, TypeOK, Handlers
<1>1. CASE RunEnqueue(p) \/ RunReload(p) \/ RunEnqueueFails(p)
  <2>1. \A q \in Handlers : q # p => frames'[q] = frames[q]
    <3>1. \E f : Become(p, f)
      BY <1>1 DEF RunEnqueue, RunReload, RunEnqueueFails
    <3> QED BY <1>0, <3>1, BecomeOnly
  <2>2. UNCHANGED <<workflows, live, interrupted, jobs>> /\ frames[p].step \notin WitnessSteps
    BY <1>1 DEF RunEnqueue, RunReload, RunEnqueueFails, store, ghosts, WitnessSteps
  <2>3. \A j \in JobIds : Explained(j) => Explained(j)'
    <3>1. CASE RunReload(p)
      BY <1>0, <2>1, <3>1, StaysExplained DEF RunReload, store, n8n, ghosts, InHand
    <3>2. CASE RunEnqueueFails(p)
      <4>1. abandoned' = abandoned \cup {frames[p].job} /\ UNCHANGED <<queue, posts, reports>>
        BY <3>2 DEF RunEnqueueFails, store, n8n
      <4>2. \A j \in JobIds : frames[p].job = j => Explained(j)'
        BY <4>1 DEF Explained, GivenUp
      <4> QED BY <1>0, <2>1, <4>1, <4>2, StaysExplained
    <3>3. CASE RunEnqueue(p)
      <4> DEFINE k == frames[p].job
      <4>1. /\ k \in JobIds /\ queue \in [JobIds -> Entry]
            /\ queue' = [queue EXCEPT ![k] = Added] /\ UNCHANGED <<posts, reports, abandoned>>
        BY <1>0, <3>3
        DEF RunEnqueue, LinkInv, FramesLinked, Linked, JobSteps, TypeInv, TypeOK, n8n, ghosts
      <4>2. queue'[k].state = "waiting" /\ \A j \in JobIds : j # k => queue'[j] = queue[j]
        BY <4>1 DEF Added, NoEntry
      <4>3. ASSUME NEW j \in JobIds, Explained(j) PROVE Explained(j)'
        <5>1. CASE j = k
          <6>1. queue'[j].state = "waiting"
            BY <4>2, <5>1
          <6> QED BY <6>1 DEF Explained, Carried
        <5>2. CASE j # k
          <6>1. ASSUME NEW q \in Handlers, frames[q].job = j, frames[q].step \in InHand
                PROVE  Explained(j)'
            <7>1. frames'[q] = frames[q]
              BY <2>1, <5>2, <6>1
            <7>2. frames'[q].job = j /\ frames'[q].step \in InHand
              BY <6>1, <7>1
            <7> QED BY <7>2 DEF Explained, Carried
          <6>2. CASE \/ queue[j].state = "waiting" \/ GivenUp(j)
                     \/ reports[j] < posts[j] * ReportsPerExecution
            BY <4>1, <4>2, <5>2, <6>2 DEF Explained, Carried, GivenUp
          <6> QED BY <4>3, <6>1, <6>2 DEF Explained, Carried
        <5> QED BY <5>1, <5>2
      <4> QED BY <4>3
    <3> QED BY <1>1, <3>1, <3>2, <3>3
  <2> QED BY <1>0, <2>1, <2>2, <2>3, QuietStep, KeepsRunning, KeepsActive
<1>2. CASE RunMark(p) \/ RunReread(p)
  <2> DEFINE w == frames[p].workflow
  <2>1. /\ \A q \in Handlers : q # p => frames'[q] = frames[q]
        /\ frames'[p].workflow = w /\ frames'[p].step \in {"run.reread", "run.create"}
    <3>1. CASE RunMark(p)
      <4> DEFINE f == [Idle EXCEPT !.step = "run.reread", !.workflow = w]
      <4>1. f.step = "run.reread" /\ f.workflow = w
        BY DEF Idle
      <4>2. Become(p, f)
        BY <3>1 DEF RunMark
      <4> HIDE DEF f
      <4> QED BY <1>0, <4>1, <4>2, BecomeOnly
    <3>2. CASE RunReread(p)
      BY <1>0, <3>2, BecomeOnly DEF RunReread, Goto, Frame
    <3> QED BY <1>2, <3>1, <3>2
  <2>2. /\ UNCHANGED <<live, interrupted, jobs>>
        /\ \A v \in Workflows : v # w => workflows'[v] = workflows[v]
    BY <1>0, <1>2 DEF RunMark, RunReread, SaveDoc, store, ghosts
  <2>4. \A j \in JobIds : Explained(j) => Explained(j)'
    BY <1>0, <1>2, <2>1, StaysExplained DEF RunMark, RunReread, store, n8n, ghosts, InHand
  <2>3. ASSUME NEW v \in Workflows, Running(v)' PROVE Accounted(v)'
    <3>1. CASE v = w
      BY <1>0, <2>1, <3>1 DEF Accounted, Witness, AboutToStart
    <3>2. CASE v # w
      <4>1. Accounted(v) /\ ~Witness(p, v)
        BY <2>2, <2>3, <3>2 DEF Running, AccountInv, Witness, AboutToStart, AboutToFinish
      <4>2. \A j \in ActiveJobs(v) : Explained(j) => Accounted(v)'
        BY <2>2, <2>4, KeepsActive DEF Accounted, ActiveJobs
      <4> QED BY <1>0, <2>1, <4>1, <4>2, HandOver
    <3> QED BY <3>1, <3>2
  <2> QED BY <2>3 DEF AccountInv
<1>3. CASE RunCreate(p)
  <2>1. PICK w \in Workflows : w = frames[p].workflow
    BY <1>0, <1>3 DEF RunCreate, LinkInv, FramesLinked, Linked
  <2>2. /\ InsertJob(w, "queued") /\ "queued" \in JobStatuses
        /\ UNCHANGED <<workflows, live, interrupted, queue, posts, reports, abandoned>>
    BY <1>3, <2>1 DEF RunCreate, JobStatuses, n8n, ghosts
  <2> DEFINE f == [Idle EXCEPT
                     !.step = IF QueueEnabled THEN "run.enqueue" ELSE "dispatch.load",
                     !.workflow = frames[p].workflow, !.job = created + 1]
  <2>8. f.step \in {"run.enqueue", "dispatch.load"} /\ f.job = created + 1
    BY DEF Idle
  <2> HIDE DEF f
  <2>3. frames'[p] = f /\ \A q \in Handlers : q # p => frames'[q] = frames[q]
    BY <1>0, <1>3, BecomeOnly DEF RunCreate, f
  <2>4. Accounted(w)'
    <3>1. /\ created' \in JobIds /\ jobs'[created'] = NewJob(w, "queued")
          /\ created' = created + 1
      BY <2>2, InsertKeepsJobs
    <3>2. created' \in ActiveJobs(w)'
      BY <3>1 DEF ActiveJobs, NewJob, ActiveStatuses, JobIds
    <3>3. frames'[p].job = created' /\ frames'[p].step \in InHand
      BY <2>3, <2>8, <3>1 DEF InHand
    <3>4. PICK j : j = created'
      OBVIOUS
    <3>5. Explained(j)'
      BY <1>0, <3>3, <3>4 DEF Explained, Carried
    <3>6. j \in ActiveJobs(w)'
      BY <3>2, <3>4
    <3> QED BY <3>5, <3>6 DEF Accounted
  <2>7. \A j \in JobIds : Explained(j) => Explained(j)'
    BY <1>0, <1>3, <2>2, <2>3, StaysExplained DEF RunCreate, InHand
  <2>5. \A v \in Workflows : ActiveJobs(v) \subseteq ActiveJobs(v)'
    BY <2>2, InsertKeepsActive
  <2>6. ASSUME NEW v \in Workflows, Running(v)' PROVE Accounted(v)'
    <3>1. CASE v = w
      BY <2>4, <3>1
    <3>2. CASE v # w
      <4>1. Accounted(v) /\ ~Witness(p, v)
        BY <2>1, <2>2, <2>6, <3>2 DEF Running, AccountInv, Witness, AboutToStart, AboutToFinish
      <4>2. \A j \in ActiveJobs(v) : Explained(j) => Accounted(v)'
        BY <2>5, <2>7 DEF Accounted, ActiveJobs
      <4> QED BY <1>0, <2>3, <4>1, <4>2, HandOver
    <3> QED BY <3>1, <3>2
  <2> QED BY <2>6 DEF AccountInv
<1> QED
  BY <1>1, <1>2, <1>3

(* The other steps of requests: reports, edits and direct triggers. *)
LEMMA RequestStepAccounted ==
  ASSUME TypeInv, LinkInv, RestoreInv, AccountInv, "Running" \notin UserStatuses,
         NEW p \in Requests,
         ReportLatest(p) \/ ReportSave(p) \/ ReportCount(p) \/ StatusSave(p)
             \/ TriggerAnswered(p)
  PROVE  AccountInv'
<1> USE DEF At
<1>0. /\ p \in Handlers /\ frames[p] \in Frame /\ frames[p].workflowDoc \in WorkflowDoc
      /\ frames[p].workflowDoc.statusBeforeRun # "Running"
      /\ workflows \in [Workflows -> WorkflowDoc] /\ live \subseteq Workflows
  BY DEF TypeInv, TypeOK, Frame, Handlers, RestoreInv, LoadedNeverRestoreRunning
<1>1. CASE ReportLatest(p)
  <2>1. \E f : Become(p, f)
    BY <1>1 DEF ReportLatest
  <2>2. /\ UNCHANGED <<workflows, live, interrupted, jobs, queue, posts, reports, abandoned>>
        /\ frames[p].step \notin WitnessSteps \cup InHand
    BY <1>1 DEF ReportLatest, store, n8n, ghosts, WitnessSteps, InHand
  <2>3. \A q \in Handlers : q # p => frames'[q] = frames[q]
    BY <1>0, <2>1, BecomeOnly
  <2>4. \A j \in JobIds : Explained(j) => Explained(j)'
    BY <1>0, <2>2, <2>3, StaysExplained
  <2> QED BY <1>0, <2>2, <2>3, <2>4, QuietStep, KeepsRunning, KeepsActive
<1>2. CASE ReportSave(p)
  <2> DEFINE loaded == frames[p].jobDoc
             doc(text) == [loaded EXCEPT !.status = frames[p].outcome, !.errorMessage = text]
  <2>1. PICK text : jobs' = [jobs EXCEPT ![frames[p].job] =
                                SaveJob(doc(text), loaded, jobs[frames[p].job])]
    BY <1>2 DEF ReportSave
  <2>2. /\ \A q \in Handlers : q # p => frames'[q] = frames[q]
        /\ UNCHANGED <<workflows, live, interrupted, queue, posts, reports, abandoned>>
        /\ frames[p].step \in JobSteps
    BY <1>0, <1>2, BecomeOnly DEF ReportSave, n8n, ghosts, JobSteps
  <2>3. /\ frames'[p].step \in {"report.count", "finish.load"}
        /\ frames'[p].workflow = frames[p].workflow
    <3> DEFINE f == Finishing(frames[p], frames[p].outcome, FALSE)
               g == [Idle EXCEPT !.step = "report.count", !.job = frames[p].job,
                                 !.workflow = frames[p].workflow, !.outcome = frames[p].outcome]
    <3>1. /\ f.step = "finish.load" /\ f.workflow = frames[p].workflow
          /\ g.step = "report.count" /\ g.workflow = frames[p].workflow
      BY DEF Finishing, Idle
    <3>2. Become(p, f) \/ Become(p, g)
      BY <1>2 DEF ReportSave
    <3> HIDE DEF f, g
    <3> QED BY <1>0, <3>1, <3>2, BecomeOnly
  <2> HIDE DEF doc
  <2> QED BY <1>0, <2>1, <2>2, <2>3, EndingStep
<1>3. CASE ReportCount(p)
  <2> DEFINE w == frames[p].workflow
  <2>1. /\ frames'[p].step = "finish.load" /\ frames'[p].workflow = w
        /\ \A q \in Handlers : q # p => frames'[q] = frames[q]
    <3> DEFINE f == Finishing(frames[p], "completed", FALSE)
    <3>1. f.step = "finish.load" /\ f.workflow = w
      BY DEF Finishing, Idle
    <3>2. Become(p, f)
      BY <1>3 DEF ReportCount
    <3> HIDE DEF f
    <3> QED BY <1>0, <3>1, <3>2, BecomeOnly
  <2>2. NoNewRunning /\ UNCHANGED jobs
    BY <1>3, IncrementKeepsRunning DEF ReportCount, ghosts
  <2>4. \A j \in JobIds : Explained(j) => Explained(j)'
    BY <1>0, <1>3, <2>1, StaysExplained DEF ReportCount, n8n, ghosts, InHand
  <2>3. ASSUME NEW v \in Workflows, Running(v)' PROVE Accounted(v)'
    <3>1. CASE v = w
      BY <1>0, <2>1, <3>1 DEF Accounted, Witness, AboutToFinish
    <3>2. CASE v # w
      <4>1. Accounted(v) /\ ~Witness(p, v)
        BY <2>2, <2>3, <3>2
        DEF NoNewRunning, AccountInv, Witness, AboutToStart, AboutToFinish
      <4>2. \A j \in ActiveJobs(v) : Explained(j) => Accounted(v)'
        BY <2>2, <2>4, KeepsActive DEF Accounted, ActiveJobs
      <4> QED BY <1>0, <2>1, <4>1, <4>2, HandOver
    <3> QED BY <3>1, <3>2
  <2> QED BY <2>3 DEF AccountInv
<1>4. CASE StatusSave(p)
  <2> DEFINE w == frames[p].workflow
             loaded == frames[p].workflowDoc
  <2>1. PICK s \in UserStatuses :
            workflows' = [workflows EXCEPT ![w] =
                             SaveWorkflow([loaded EXCEPT !.status = s], loaded, workflows[w])]
    BY <1>4 DEF StatusSave, SaveDoc
  <2>2. /\ \A q \in Handlers : q # p => frames'[q] = frames[q]
        /\ UNCHANGED <<live, interrupted, jobs>> /\ frames[p].step \notin WitnessSteps
        /\ w \in Workflows
    BY <1>0, <1>4, BecomeOnly DEF StatusSave, ghosts, WitnessSteps
  <2>5. \A j \in JobIds : Explained(j) => Explained(j)'
    BY <1>0, <1>4, <2>2, StaysExplained DEF StatusSave, n8n, ghosts, InHand
  <2>3. workflows'[w].status = "Running" => workflows[w].status = "Running"
    <3>1. s # "Running" /\ workflows[w] \in WorkflowDoc
      BY <1>0, <2>2
    <3> DEFINE saved == SaveWorkflow([loaded EXCEPT !.status = s], loaded, workflows[w])
    <3>2. saved.status = "Running" => workflows[w].status = "Running"
      BY <1>0, <3>1 DEF SaveWorkflow, Written, WorkflowDoc
    <3>3. workflows'[w] = saved
      BY <1>0, <2>1, <2>2
    <3> HIDE DEF saved
    <3> QED BY <3>2, <3>3
  <2>4. NoNewRunning
    BY <1>0, <2>1, <2>2, <2>3 DEF NoNewRunning, Running
  <2> QED BY <1>0, <2>2, <2>4, <2>5, QuietStep, KeepsActive
<1>5. CASE TriggerAnswered(p)
  <2>1. /\ \A q \in Handlers : q # p => frames'[q] = frames[q]
        /\ UNCHANGED <<live, interrupted, jobs>> /\ frames[p].step \notin WitnessSteps
    BY <1>0, <1>5, BecomeOnly DEF TriggerAnswered, ghosts, WitnessSteps
  <2>2. NoNewRunning
    BY <1>5, <2>1, IncrementKeepsRunning, KeepsRunning DEF TriggerAnswered
  <2>3. \A j \in JobIds : Explained(j) => Explained(j)'
    BY <1>0, <1>5, <2>1, StaysExplained DEF TriggerAnswered, n8n, ghosts, InHand
  <2> QED BY <1>0, <2>1, <2>2, <2>3, QuietStep, KeepsActive
<1> QED
  BY <1>1, <1>2, <1>3, <1>4, <1>5

(* The worker takes an entry in hand, and gives it back or ends it. *)
LEMMA WorkerAccounted ==
  ASSUME TypeInv, LinkInv, HoldInv, AccountInv,
         WorkerAck \/ WorkerNack \/ \E j \in JobIds : WorkerTake(j)
  PROVE  AccountInv'
<1> USE DEF At
<1>0. Worker \in Handlers /\ queue \in [JobIds -> Entry]
      /\ Idle.step \notin WitnessSteps \cup InHand
  BY DEF Handlers, TypeInv, TypeOK, Idle, WitnessSteps, InHand
<1>work. ASSUME NEW k \in JobIds, NEW entry, queue' = [queue EXCEPT ![k] = entry],
                NEW f, Become(Worker, f), frames[Worker].step \notin WitnessSteps,
                frames[Worker].step \in InHand => frames[Worker].job = k,
                UNCHANGED <<workflows, live, interrupted, jobs, posts, reports, abandoned>>,
                \/ entry.state \in {"waiting", "failed"}
                \/ f.step \in InHand /\ f.job = k
                \/ /\ queue[k].state \notin {"waiting", "failed"}
                   /\ frames[Worker].step \notin InHand
         PROVE  AccountInv'
  <2>1. /\ queue'[k] = entry /\ \A j \in JobIds : j # k => queue'[j] = queue[j]
        /\ frames'[Worker] = f /\ \A q \in Handlers : q # Worker => frames'[q] = frames[q]
    BY <1>0, <1>work, BecomeOnly
  <2>2. ASSUME NEW j \in JobIds, Explained(j) PROVE Explained(j)'
    <3>1. CASE j = k /\ entry.state \in {"waiting", "failed"}
      <4>1. queue'[j].state \in {"waiting", "failed"}
        BY <2>1, <3>1
      <4> QED BY <4>1 DEF Explained, Carried, GivenUp
    <3>2. CASE j = k /\ f.step \in InHand /\ f.job = k
      <4>1. frames'[Worker].job = j /\ frames'[Worker].step \in InHand
        BY <2>1, <3>2
      <4> QED BY <1>0, <4>1 DEF Explained, Carried
    <3>3. CASE \/ j # k
               \/ /\ queue[k].state \notin {"waiting", "failed"}
                  /\ frames[Worker].step \notin InHand
      <4>1. ASSUME NEW q \in Handlers, frames[q].job = j, frames[q].step \in InHand
            PROVE  Explained(j)'
        <5>1. frames'[q] = frames[q]
          BY <1>work, <2>1, <3>3, <4>1
        <5>2. frames'[q].job = j /\ frames'[q].step \in InHand
          BY <4>1, <5>1
        <5> QED BY <5>2 DEF Explained, Carried
      <4>2. CASE reports[j] < posts[j] * ReportsPerExecution \/ j \in abandoned
        BY <1>work, <4>2 DEF Explained, Carried, GivenUp
      <4>3. CASE queue[j].state \in {"waiting", "failed"}
        <5>1. queue'[j] = queue[j]
          BY <2>1, <3>3, <4>3
        <5> QED BY <4>3, <5>1 DEF Explained, Carried, GivenUp
      <4> QED BY <2>2, <4>1, <4>2, <4>3 DEF Explained, Carried, GivenUp
    <3> QED BY <1>work, <3>1, <3>2, <3>3
  <2> QED BY <1>0, <1>work, <2>1, <2>2, QuietStep, KeepsRunning, KeepsActive
<1>1. ASSUME NEW j \in JobIds, WorkerTake(j) PROVE AccountInv'
  <2> DEFINE f == [Idle EXCEPT !.step = "dispatch.load", !.job = j,
                               !.workflow = jobs[j].workflowId]
  <2>1. f.step \in InHand /\ f.job = j
    BY DEF Idle, InHand
  <2>2. /\ queue' = [queue EXCEPT ![j] = Taken(queue[j])] /\ Become(Worker, f)
        /\ frames[Worker] = Idle
        /\ UNCHANGED <<workflows, live, interrupted, jobs, posts, reports, abandoned>>
    BY <1>1 DEF WorkerTake, Free, n8n, ghosts
  <2> HIDE DEF f
  <2> QED BY <1>0, <1>work, <2>1, <2>2
<1> DEFINE k == frames[Worker].job
<1>2. CASE WorkerAck
  <2>1. /\ queue' = [queue EXCEPT ![k] = Completed(queue[k])] /\ Become(Worker, Idle)
        /\ frames[Worker].step \notin WitnessSteps \cup InHand
        /\ UNCHANGED <<workflows, live, interrupted, jobs, posts, reports, abandoned>>
    BY <1>2 DEF WorkerAck, WitnessSteps, InHand, n8n, ghosts
  <2>2. k \in JobIds /\ queue[k].state = "active"
    BY <1>2 DEF WorkerAck, HoldInv, HoldsActive
  <2> HIDE DEF k
  <2> QED BY <1>work, <2>1, <2>2
<1>3. CASE WorkerNack
  <2>1. /\ queue' = [queue EXCEPT ![k] = Rejected(queue[k])] /\ Become(Worker, Idle)
        /\ frames[Worker].step \notin WitnessSteps
        /\ UNCHANGED <<workflows, live, interrupted, jobs, posts, reports, abandoned>>
    BY <1>3 DEF WorkerNack, WitnessSteps, n8n, ghosts
  <2>2. k \in JobIds
    BY <1>3 DEF WorkerNack, HoldInv, HoldsActive
  <2>3. Rejected(queue[k]).state \in {"waiting", "failed"}
    BY <1>0, <2>2 DEF Rejected, Entry
  <2>4. PICK entry : entry = Rejected(queue[k])
    OBVIOUS
  <2>5. queue' = [queue EXCEPT ![k] = entry] /\ entry.state \in {"waiting", "failed"}
    BY <2>1, <2>3, <2>4
  <2>6. frames[Worker].job = k
    OBVIOUS
  <2> HIDE DEF k
  <2> QED BY <1>work, <2>1, <2>2, <2>5, <2>6
<1> QED
  BY <1>1, <1>2, <1>3

(* A crash cuts the witnesses off; the worker's entry goes back to the queue, and
   what requests had in hand is given up. *)
LEMMA CrashAccounted ==
  ASSUME TypeInv, HoldInv, AccountInv, Crash
  PROVE  AccountInv'
<1>0. queue \in [JobIds -> Entry] /\ "idle" \notin InHand
  BY DEF TypeInv, TypeOK, InHand
<1>1. /\ UNCHANGED <<workflows, live, jobs, posts, reports>> /\ abandoned \subseteq abandoned'
      /\ \A j \in JobIds : queue'[j] = IF queue[j].state = "active" THEN Stalled(queue[j])
                                       ELSE queue[j]
      /\ \A q \in Requests : frames[q].step \in InHand => frames[q].job \in abandoned'
      /\ interrupted \subseteq interrupted'
      /\ \A q \in Handlers : frames[q].step \in HalfDone => frames[q].workflow \in interrupted'
  BY DEF Crash, n8n
<1>2. ASSUME NEW j \in JobIds, Explained(j) PROVE Explained(j)'
  <2>1. CASE queue[j].state \in {"waiting", "failed"}
    <3>1. queue'[j] = queue[j]
      BY <1>1, <2>1
    <3> QED BY <2>1, <3>1 DEF Explained, Carried, GivenUp
  <2>2. CASE reports[j] < posts[j] * ReportsPerExecution \/ j \in abandoned
    BY <1>1, <2>2 DEF Explained, Carried, GivenUp
  <2>3. ASSUME NEW q \in Requests, frames[q].job = j, frames[q].step \in InHand
        PROVE  Explained(j)'
    BY <1>1, <2>3 DEF Explained, GivenUp
  <2>4. CASE frames[Worker].job = j /\ frames[Worker].step \in InHand
    <3>1. queue[j].state = "active"
      BY <1>0, <2>4 DEF HoldInv, HoldsActive
    <3>2. Stalled(queue[j]).state \in {"waiting", "failed"}
      BY <1>0 DEF Stalled, Entry
    <3>3. queue'[j].state \in {"waiting", "failed"}
      BY <1>1, <3>1, <3>2
    <3> QED BY <3>3 DEF Explained, Carried, GivenUp
  <2> QED BY <1>2, <2>1, <2>2, <2>3, <2>4 DEF Explained, Carried, GivenUp, Handlers
<1>3. ASSUME NEW w \in Workflows, Running(w)' PROVE Accounted(w)'
  <2>1. Accounted(w) /\ w \notin interrupted'
    BY <1>1, <1>3 DEF Running, AccountInv
  <2>2. \A p \in Handlers : ~Witness(p, w)
    BY <1>1, <2>1 DEF Witness, AboutToStart, AboutToFinish, HalfDone, At
  <2>3. PICK j \in ActiveJobs(w) : Explained(j)
    BY <2>1, <2>2 DEF Accounted
  <2>4. j \in ActiveJobs(w)' /\ j \in JobIds
    BY <1>1, <2>3 DEF ActiveJobs
  <2>5. Explained(j)'
    BY <1>2, <2>3, <2>4
  <2> QED BY <2>4, <2>5 DEF Accounted
<1> QED
  BY <1>3 DEF AccountInv

LEMMA AccountStep ==
  ASSUME "Running" \notin UserStatuses, ExecutionsAreReported
  PROVE  TypeInv /\ LinkInv /\ RestoreInv /\ HoldInv /\ ReportsInv /\ AccountInv /\ [Next]_vars
            => AccountInv'
<1> SUFFICES ASSUME TypeInv, LinkInv, RestoreInv, HoldInv, ReportsInv, AccountInv, [Next]_vars
             PROVE  AccountInv'
  OBVIOUS
<1> USE DEF At
<1>0. Worker \in Handlers /\ Requests \subseteq Handlers
  BY DEF Handlers
<1>1. ASSUME NEW p \in Requests, Arrival(p) \/ RequestStep(p) \/ RunEnqueueFails(p)
      PROVE  AccountInv'
  <2>1. CASE Arrival(p)
    BY <2>1, ArrivalAccounted
  <2>2. CASE DispatchStep(p)
    BY <1>0, <2>2, DispatchStepAccounted
  <2>3. CASE RunMark(p) \/ RunReread(p) \/ RunCreate(p) \/ RunEnqueue(p) \/ RunReload(p)
                \/ RunEnqueueFails(p)
    BY <2>3, RunStepAccounted
  <2>4. CASE ReportLatest(p) \/ ReportSave(p) \/ ReportCount(p) \/ StatusSave(p)
                \/ TriggerAnswered(p)
    BY <2>4, RequestStepAccounted
  <2> QED BY <1>1, <2>1, <2>2, <2>3, <2>4 DEF RequestStep
<1>2. CASE DispatchStep(Worker)
  BY <1>0, <1>2, DispatchStepAccounted
<1>3. CASE WorkerAck \/ WorkerNack \/ \E j \in JobIds : WorkerTake(j)
  BY <1>3, WorkerAccounted
<1>same. ASSUME UNCHANGED <<frames, queue, posts, reports, abandoned>>
         PROVE  /\ \A j \in JobIds : Explained(j) => Explained(j)'
                /\ \A p \in Handlers, w \in Workflows : Witness(p, w) => Witness(p, w)'
  BY <1>same DEF Explained, Carried, GivenUp, Witness, AboutToStart, AboutToFinish
<1>4. ASSUME NEW w \in Workflows, CreateDraft(w) PROVE AccountInv'
  <2>1. \A v \in Workflows : ActiveJobs(v) \subseteq ActiveJobs(v)'
    BY <1>4, InsertKeepsActive DEF CreateDraft, JobStatuses
  <2>2. UNCHANGED <<workflows, live, interrupted, frames, queue, posts, reports, abandoned>>
    BY <1>4 DEF CreateDraft, n8n, ghosts
  <2>3. \A v \in Workflows : \A j \in ActiveJobs(v) : j \in JobIds
    BY DEF ActiveJobs
  <2> QED BY <1>same, <2>1, <2>2, <2>3 DEF AccountInv, Running, Accounted
<1>5. CASE (\E w \in Workflows : Remove(w)) \/ UNCHANGED vars
  <2>1. /\ UNCHANGED <<workflows, interrupted, jobs, frames, queue, posts, reports, abandoned>>
        /\ live' \subseteq live
    BY <1>5 DEF Remove, vars, store, n8n, ghosts
  <2>2. \A v \in Workflows : \A j \in ActiveJobs(v) : j \in JobIds /\ j \in ActiveJobs(v)'
    BY <2>1 DEF ActiveJobs
  <2> QED BY <1>same, <2>1, <2>2 DEF AccountInv, Running, Accounted
<1>6. CASE Crash
  BY <1>6, CrashAccounted
<1> QED
  BY <1>1, <1>2, <1>3, <1>4, <1>5, <1>6 DEF Next, WorkerStep

(* n8n never owes a negative number of reports. *)
LEMMA ReportsStep == TypeInv /\ ReportsInv /\ [Next]_vars => ReportsInv'
<1> SUFFICES ASSUME TypeInv, ReportsInv, [Next]_vars PROVE ReportsInv'
  OBVIOUS
<1>0. posts \in [JobIds -> Nat] /\ reports \in [JobIds -> Nat] /\ ReportsPerExecution \in Nat
  BY BoundsAssumption DEF TypeInv, TypeOK
<1>1. ASSUME NEW p \in Handlers, PostAccepted(p) PROVE ReportsInv'
  <2> DEFINE k == frames[p].job
  <2>1. posts' = [posts EXCEPT ![k] = posts[k] + 1] /\ UNCHANGED reports
    BY <1>1 DEF PostAccepted
  <2>2. ASSUME NEW j \in JobIds PROVE reports[j] <= posts'[j] * ReportsPerExecution
    <3>1. posts'[j] = posts[j] \/ posts'[j] = posts[j] + 1
      BY <1>0, <2>1
    <3>2. reports[j] <= posts[j] * ReportsPerExecution
      BY DEF ReportsInv
    <3>3. reports[j] <= (posts[j] + 1) * ReportsPerExecution
      BY <1>0, <3>2, OneMoreReport
    <3> QED BY <3>1, <3>2, <3>3
  <2> QED BY <2>1, <2>2 DEF ReportsInv
<1>2. ASSUME NEW p \in Requests, NEW k \in JobIds, NEW o \in Outcomes, Report(p, k, o)
      PROVE  ReportsInv'
  <2>1. /\ reports' = [reports EXCEPT ![k] = reports[k] + 1] /\ UNCHANGED posts
        /\ reports[k] < posts[k] * ReportsPerExecution
    BY <1>2 DEF Report
  <2>2. ASSUME NEW j \in JobIds PROVE reports'[j] <= posts[j] * ReportsPerExecution
    <3>1. posts[j] * ReportsPerExecution \in Nat /\ reports[j] \in Nat
      BY <1>0
    <3>2. CASE j = k
      <4>1. reports'[j] = reports[j] + 1 /\ reports[j] < posts[j] * ReportsPerExecution
        BY <1>0, <2>1, <3>2
      <4> QED BY <3>1, <4>1
    <3>3. CASE j # k
      <4>1. reports'[j] = reports[j]
        BY <1>0, <2>1, <3>3
      <4> QED BY <4>1 DEF ReportsInv
    <3> QED BY <3>2, <3>3
  <2> QED BY <2>1, <2>2 DEF ReportsInv
<1>same. UNCHANGED <<posts, reports>> => ReportsInv'
  BY DEF ReportsInv
<1>3. ASSUME NEW p \in Handlers, DispatchStep(p), ~PostAccepted(p) PROVE ReportsInv'
  BY <1>3, <1>same
  DEF DispatchStep, DispatchLoad, CredentialMissing, DispatchStart, PostRefused, AnswerOk,
      AnswerLost, DispatchFail, FinishLoad, FinishSave, FinishReread, WorkflowGone, n8n
<1>4. ASSUME NEW p \in Requests,
             \/ RunMark(p) \/ RunReread(p) \/ RunCreate(p) \/ RunEnqueue(p) \/ RunReload(p)
             \/ ReportLatest(p) \/ ReportSave(p) \/ ReportCount(p) \/ StatusSave(p)
             \/ TriggerAnswered(p) \/ RunEnqueueFails(p)
      PROVE  ReportsInv'
  BY <1>4, <1>same
  DEF RunMark, RunReread, RunCreate, RunEnqueue, RunReload, ReportLatest, ReportSave,
      ReportCount, StatusSave, TriggerAnswered, RunEnqueueFails, n8n
<1>5. ASSUME NEW p \in Requests,
             \/ \E w \in Workflows : Run(p, w) \/ SetStatus(p, w) \/ Trigger(p, w)
             \/ \E w \in Workflows, o \in Outcomes : ReportDirect(p, w, o)
      PROVE  ReportsInv'
  BY <1>5, <1>same DEF Run, SetStatus, Trigger, ReportDirect, n8n
<1>6. CASE \/ \E j \in JobIds : WorkerTake(j)
           \/ WorkerAck \/ WorkerNack \/ Crash \/ UNCHANGED vars
           \/ \E w \in Workflows : CreateDraft(w) \/ Remove(w)
  BY <1>6, <1>same DEF WorkerTake, WorkerAck, WorkerNack, Crash, CreateDraft, Remove, vars, n8n
<1>7. ASSUME NEW p \in Requests, Arrival(p) \/ RequestStep(p) \/ RunEnqueueFails(p)
      PROVE  ReportsInv'
  BY <1>1, <1>2, <1>3, <1>4, <1>5, <1>7 DEF Arrival, RequestStep, Handlers
<1> QED
  BY <1>1, <1>3, <1>6, <1>7 DEF Next, WorkerStep, Handlers

LEMMA ReportsInvariant == Spec => []ReportsInv
<1>1. Init => ReportsInv
  BY BoundsAssumption DEF Init, ReportsInv
<1> QED
  BY <1>1, TypeInvariant, ReportsStep, PTL DEF Spec

(* As long as users never set the status Running themselves, and n8n reports what it
   executes, a workflow shown as Running always has something that will end it: a
   run that is starting, a handler about to finish a run, or an unfinished job that
   its queue entry, a handler or an outstanding report of n8n carries.  No order of
   dispatches, retries, reports, edits and removals strands it otherwise, with two
   exceptions: a crash cut a handler off half way (interrupted), or its unfinished
   job was given up (GivenUp). *)
THEOREM RunningAccounted ==
  ASSUME "Running" \notin UserStatuses, ExecutionsAreReported
  PROVE  Spec => []RunningIsAccounted
<1>1. Init => AccountInv
  BY DEF Init, AccountInv, Running
<1>2. TypeInv /\ AccountInv => RunningIsAccounted
  BY DEF TypeInv, TypeOK, AccountInv, Running, Accounted, Explained, Witness, RunningIsAccounted
<1> QED
  BY <1>1, <1>2, TypeInvariant, LinkInvariant, RestoreInvariant, HoldInvariant,
     ReportsInvariant, AccountStep, PTL DEF Spec

------------------------------------------------------------------------------
(* Completed jobs are counted *)

(* One workflow's part of CompletedIsCounted. *)
Counted(w) ==
    Cardinality(CompletedJobs(w)) <= workflows[w].triggers + Cardinality(Counting(w))

LEMMA CountsAreFinite ==
  ASSUME IsFiniteSet(Requests)
  PROVE  \A w : /\ IsFiniteSet(CompletedJobs(w)) /\ IsFiniteSet(CompletedJobs(w)')
                /\ IsFiniteSet(Counting(w)) /\ IsFiniteSet(Counting(w)')
<1>1. IsFiniteSet(JobIds) /\ IsFiniteSet(Handlers)
  <2>1. IsFiniteSet(JobIds)
    <3>1. 1 \in Int /\ MaxJobs \in Int
      BY BoundsAssumption
    <3> QED BY <3>1, FS_Interval DEF JobIds
  <2>2. IsFiniteSet(Handlers)
    BY FS_AddElement DEF Handlers
  <2> QED BY <2>1, <2>2
<1>2. \A w : /\ CompletedJobs(w) \in SUBSET JobIds /\ CompletedJobs(w)' \in SUBSET JobIds
             /\ Counting(w) \in SUBSET Handlers /\ Counting(w)' \in SUBSET Handlers
  BY DEF CompletedJobs, JobsOf, Counting
<1> QED
  BY <1>1, <1>2, FS_Subset

(* A step after which no more jobs are completed, that lowers no counter and ends
   no increment on its way. *)
LEMMA CountedKept ==
  ASSUME IsFiniteSet(Requests), TypeInv, TypeInv', NEW w \in Workflows, Counted(w),
         CompletedJobs(w)' \subseteq CompletedJobs(w), Counting(w) \subseteq Counting(w)',
         workflows'[w].triggers >= workflows[w].triggers
  PROVE  Counted(w)'
<1>1. /\ Cardinality(CompletedJobs(w)') <= Cardinality(CompletedJobs(w))
      /\ Cardinality(Counting(w)) <= Cardinality(Counting(w)')
  BY CountsAreFinite, FS_Subset
<1>2. /\ Cardinality(CompletedJobs(w)) \in Nat /\ Cardinality(CompletedJobs(w)') \in Nat
      /\ Cardinality(Counting(w)) \in Nat /\ Cardinality(Counting(w)') \in Nat
      /\ workflows[w].triggers \in Nat /\ workflows'[w].triggers \in Nat
  BY CountsAreFinite, FS_CardinalityType DEF TypeInv, TypeOK, WorkflowDoc
<1> QED
  BY <1>1, <1>2 DEF Counted

LEMMA CountingKept ==
  ASSUME NEW p \in Handlers, frames[p].step # "report.count",
         \A q \in Handlers : q # p => frames'[q] = frames[q]
  PROVE  \A w : Counting(w) \subseteq Counting(w)'
  BY DEF Counting, At

(* Saving a job with another status than completed completes none. *)
LEMMA SaveCompletesNone ==
  ASSUME TypeInv, NEW i, NEW doc, NEW loaded, doc.status # "completed",
         jobs' = [jobs EXCEPT ![i] = SaveJob(doc, loaded, jobs[i])]
  PROVE  \A w : CompletedJobs(w)' \subseteq CompletedJobs(w)
<1>1. SaveJob(doc, loaded, jobs[i]).status \in {doc.status, jobs[i].status}
      /\ SaveJob(doc, loaded, jobs[i]).workflowId = jobs[i].workflowId
  BY DEF SaveJob, Written
<1>2. \A j \in JobIds : jobs'[j] = IF j = i THEN SaveJob(doc, loaded, jobs[i]) ELSE jobs[j]
  BY DEF TypeInv, TypeOK
<1>3. ASSUME NEW w, NEW j \in CompletedJobs(w)' PROVE j \in CompletedJobs(w)
  BY <1>1, <1>2 DEF CompletedJobs, JobsOf
<1> QED
  BY <1>3

LEMMA InsertCompletesNone ==
  ASSUME TypeInv, LinkInv, NEW v \in Workflows, NEW status \in {"draft", "queued"},
         InsertJob(v, status)
  PROVE  \A w : CompletedJobs(w)' \subseteq CompletedJobs(w)
<1>1. /\ jobs'[created'].status = status
      /\ \A j \in JobIds : j # created' => jobs'[j] = jobs[j]
  <2>1. status \in JobStatuses
    BY DEF JobStatuses
  <2>2. /\ jobs'[created'] = NewJob(v, status)
        /\ \A j \in JobIds : j # created' => jobs'[j] = jobs[j]
    BY <2>1, InsertKeepsJobs
  <2> QED BY <2>2 DEF NewJob
<1>2. ASSUME NEW w, NEW j \in CompletedJobs(w)' PROVE j \in CompletedJobs(w)
  <2>1. j # created'
    BY <1>1 DEF CompletedJobs, JobsOf
  <2> QED BY <1>1, <2>1 DEF CompletedJobs, JobsOf
<1> QED
  BY <1>2

(* No method assigns `triggers` on a loaded document, so no save writes it. *)
LEMMA SavesKeepTriggers ==
  ASSUME TypeInv, NEW p \in Handlers,
         \/ FinishSave(p) \/ RunMark(p) \/ StatusSave(p)
  PROVE  \A w \in Workflows : workflows'[w].triggers = workflows[w].triggers
<1> DEFINE loaded == frames[p].workflowDoc
           v == frames[p].workflow
<1>1. loaded \in WorkflowDoc
  BY DEF TypeInv, TypeOK, Frame
<1>2. PICK doc : doc.triggers = loaded.triggers /\ SaveDoc(v, doc, loaded)
  <2>1. CASE FinishSave(p)
    <3>1. SaveDoc(v, MarkRunFinished(loaded, frames[p].outcome), loaded)
      BY <2>1 DEF FinishSave
    <3>2. MarkRunFinished(loaded, frames[p].outcome).triggers = loaded.triggers
      BY <1>1 DEF MarkRunFinished, WorkflowDoc
    <3> QED BY <3>1, <3>2
  <2>2. CASE RunMark(p)
    <3>1. SaveDoc(v, MarkAsRunning(loaded), loaded)
      BY <2>2 DEF RunMark
    <3>2. MarkAsRunning(loaded).triggers = loaded.triggers
      BY <1>1 DEF MarkAsRunning, WorkflowDoc
    <3> QED BY <3>1, <3>2
  <2>3. CASE StatusSave(p)
    <3>1. PICK s : SaveDoc(v, [loaded EXCEPT !.status = s], loaded)
      BY <2>3 DEF StatusSave
    <3>2. [loaded EXCEPT !.status = s].triggers = loaded.triggers
      BY <1>1 DEF WorkflowDoc
    <3> QED BY <3>1, <3>2
  <2> QED BY <2>1, <2>2, <2>3
<1>3. SaveWorkflow(doc, loaded, workflows[v]).triggers = workflows[v].triggers
  BY <1>2 DEF SaveWorkflow, Written
<1> QED
  BY <1>2, <1>3 DEF SaveDoc, TypeInv, TypeOK

LEMMA IncrementRaises ==
  ASSUME TypeInv, NEW v, Increment(v)
  PROVE  /\ \A w \in Workflows : workflows'[w].triggers >= workflows[w].triggers
         /\ \A w \in Workflows : w # v => workflows'[w].triggers = workflows[w].triggers
         /\ v \in live => workflows'[v].triggers = workflows[v].triggers + 1
<1>1. /\ workflows \in [Workflows -> WorkflowDoc] /\ live \subseteq Workflows
      /\ \A d \in WorkflowDoc : IncrementTriggers(d).triggers = d.triggers + 1
      /\ \A d \in WorkflowDoc : d.triggers \in Nat
  BY DEF TypeInv, TypeOK, WorkflowDoc, IncrementTriggers
<1>2. CASE v \in live
  <2>1. workflows' = [workflows EXCEPT ![v] = IncrementTriggers(@)]
    BY <1>2 DEF Increment
  <2>2. /\ workflows'[v] = IncrementTriggers(workflows[v])
        /\ \A w \in Workflows : w # v => workflows'[w] = workflows[w]
    BY <1>1, <1>2, <2>1
  <2> QED BY <1>1, <1>2, <2>2
<1>3. CASE v \notin live
  BY <1>1, <1>3 DEF Increment
<1> QED BY <1>2, <1>3

(* The steps that complete no job, take no increment from the counters and end no
   increment on its way; the last conjunct is false of ReportCount only. *)
Uncounting ==
    \A w \in Workflows : /\ CompletedJobs(w)' \subseteq CompletedJobs(w)
                         /\ Counting(w) \subseteq Counting(w)'
                         /\ workflows'[w].triggers >= workflows[w].triggers

LEMMA QuietUncounting ==
  ASSUME TypeInv, NEW p \in Handlers, NEW f, Become(p, f), UNCHANGED <<workflows, jobs>>,
         frames[p].step # "report.count"
  PROVE  Uncounting
<1>1. \A w : Counting(w) \subseteq Counting(w)'
  BY BecomeOnly, CountingKept
<1>2. \A w \in Workflows : workflows'[w].triggers >= workflows[w].triggers
  BY DEF TypeInv, TypeOK, WorkflowDoc
<1> QED
  BY <1>1, <1>2 DEF Uncounting, CompletedJobs, JobsOf

LEMMA SaveUncounting ==
  ASSUME TypeInv, NEW p \in Handlers, NEW f, Become(p, f), UNCHANGED workflows,
         frames[p].step # "report.count", NEW doc, NEW loaded, doc.status # "completed",
         NEW i, jobs' = [jobs EXCEPT ![i] = SaveJob(doc, loaded, jobs[i])]
  PROVE  Uncounting
<1>1. \A w : Counting(w) \subseteq Counting(w)'
  BY BecomeOnly, CountingKept
<1>2. \A w \in Workflows : workflows'[w].triggers >= workflows[w].triggers
  BY DEF TypeInv, TypeOK, WorkflowDoc
<1> QED
  BY <1>1, <1>2, SaveCompletesNone DEF Uncounting

LEMMA DispatchUncounting ==
  ASSUME TypeInv, NEW p \in Handlers, DispatchStep(p)
  PROVE  Uncounting
<1> USE DEF At
<1>1. CASE DispatchLoad(p) \/ PostAccepted(p) \/ PostRefused(p) \/ AnswerLost(p) \/ FinishLoad(p)
  <2>1. \E f : Become(p, f)
    BY <1>1 DEF DispatchLoad, PostAccepted, PostRefused, AnswerLost, FinishLoad, Goto
  <2>2. UNCHANGED <<workflows, jobs>> /\ frames[p].step # "report.count"
    BY <1>1 DEF DispatchLoad, PostAccepted, PostRefused, AnswerLost, FinishLoad, store
  <2> QED BY <2>1, <2>2, QuietUncounting
<1>2. CASE CredentialMissing(p) \/ WorkflowGone(p) \/ AnswerOk(p) \/ FinishReread(p)
  <2>1. \E f : Become(p, f)
    BY <1>2 DEF CredentialMissing, WorkflowGone, AnswerOk, FinishReread, Throw, DispatchReturns
  <2>2. UNCHANGED <<workflows, jobs>> /\ frames[p].step # "report.count"
    BY <1>2 DEF CredentialMissing, WorkflowGone, AnswerOk, FinishReread, NeedsWorkflow, store
  <2> QED BY <2>1, <2>2, QuietUncounting
<1>3. CASE DispatchStart(p)
  <2> DEFINE doc == [frames[p].jobDoc EXCEPT !.status = "processing"]
  <2>1. doc.status = "processing"
    BY DEF TypeInv, TypeOK, Frame, JobDoc
  <2>2. /\ jobs' = [jobs EXCEPT ![frames[p].job] =
                       SaveJob(doc, frames[p].jobDoc, jobs[frames[p].job])]
        /\ UNCHANGED workflows /\ frames[p].step = "dispatch.start"
        /\ Become(p, [frames[p] EXCEPT !.step = "dispatch.post", !.jobDoc = doc])
    BY <1>3 DEF DispatchStart
  <2> HIDE DEF doc
  <2> QED BY <2>1, <2>2, SaveUncounting
<1>4. CASE DispatchFail(p)
  <2> DEFINE doc(text) == [frames[p].jobDoc EXCEPT !.status = "failed", !.errorMessage = text]
  <2>1. \A text : doc(text).status = "failed"
    BY DEF TypeInv, TypeOK, Frame, JobDoc
  <2>2. PICK text : jobs' = [jobs EXCEPT ![frames[p].job] =
                                SaveJob(doc(text), frames[p].jobDoc, jobs[frames[p].job])]
    BY <1>4 DEF DispatchFail
  <2>3. /\ UNCHANGED workflows /\ frames[p].step = "dispatch.fail"
        /\ Become(p, Finishing(frames[p], "failed", TRUE))
    BY <1>4 DEF DispatchFail
  <2> HIDE DEF doc
  <2> QED BY <2>1, <2>2, <2>3, SaveUncounting
<1>5. CASE FinishSave(p)
  <2>1. \E f : Become(p, f)
    BY <1>5 DEF FinishSave
  <2>2. \A w : Counting(w) \subseteq Counting(w)'
    BY <1>5, <2>1, BecomeOnly, CountingKept DEF FinishSave
  <2>3. \A w \in Workflows : workflows'[w].triggers >= workflows[w].triggers
    BY <1>5, SavesKeepTriggers DEF TypeInv, TypeOK, WorkflowDoc
  <2> QED BY <1>5, <2>2, <2>3 DEF FinishSave, Uncounting, CompletedJobs, JobsOf
<1> QED
  BY <1>1, <1>2, <1>3, <1>4, <1>5 DEF DispatchStep

LEMMA RequestUncounting ==
  ASSUME TypeInv, LinkInv, NEW p \in Requests,
         \/ Arrival(p) \/ RunMark(p) \/ RunReread(p) \/ RunCreate(p) \/ RunEnqueue(p)
         \/ RunReload(p) \/ RunEnqueueFails(p) \/ ReportLatest(p) \/ StatusSave(p)
         \/ TriggerAnswered(p)
  PROVE  Uncounting
<1> USE DEF At
<1>0. p \in Handlers /\ \A w \in Workflows : workflows[w].triggers \in Nat
  BY DEF Handlers, TypeInv, TypeOK, WorkflowDoc
<1>1. CASE Arrival(p)
  <2>1. UNCHANGED <<workflows, jobs>> /\ Free(p) /\ \E f : Become(p, f)
    <3>1. ASSUME NEW w \in Workflows, Run(p, w) \/ SetStatus(p, w) \/ Trigger(p, w)
          PROVE  UNCHANGED <<workflows, jobs>> /\ Free(p) /\ \E f : Become(p, f)
      BY <3>1 DEF Run, SetStatus, Trigger, store
    <3>2. \A w, o : FindActive(p, w, o) => \E f : Become(p, f)
      BY DEF FindActive
    <3>3. ASSUME NEW j \in JobIds, NEW o \in Outcomes, Report(p, j, o)
          PROVE  UNCHANGED <<workflows, jobs>> /\ Free(p) /\ \E f : Become(p, f)
      BY <3>2, <3>3 DEF Report, store
    <3>4. ASSUME NEW w \in Workflows, NEW o \in Outcomes, ReportDirect(p, w, o)
          PROVE  UNCHANGED <<workflows, jobs>> /\ Free(p) /\ \E f : Become(p, f)
      BY <3>2, <3>4 DEF ReportDirect, store
    <3> QED BY <1>1, <3>1, <3>3, <3>4 DEF Arrival
  <2>2. frames[p].step # "report.count"
    BY <2>1 DEF Free, Idle
  <2> QED BY <1>0, <2>1, <2>2, QuietUncounting
<1>2. CASE RunReread(p) \/ RunEnqueue(p) \/ RunReload(p) \/ RunEnqueueFails(p) \/ ReportLatest(p)
  <2>1. \E f : Become(p, f)
    BY <1>2 DEF RunReread, RunEnqueue, RunReload, RunEnqueueFails, ReportLatest, Goto
  <2>2. UNCHANGED <<workflows, jobs>> /\ frames[p].step # "report.count"
    BY <1>2 DEF RunReread, RunEnqueue, RunReload, RunEnqueueFails, ReportLatest, store
  <2> QED BY <1>0, <2>1, <2>2, QuietUncounting
<1>3. CASE RunMark(p) \/ StatusSave(p) \/ TriggerAnswered(p)
  <2>1. \E f : Become(p, f)
    BY <1>3 DEF RunMark, StatusSave, TriggerAnswered
  <2>2. UNCHANGED jobs /\ frames[p].step # "report.count"
    BY <1>3 DEF RunMark, StatusSave, TriggerAnswered
  <2>3. \A w : Counting(w) \subseteq Counting(w)'
    BY <1>0, <2>1, <2>2, BecomeOnly, CountingKept
  <2>4. \A w \in Workflows : workflows'[w].triggers >= workflows[w].triggers
    BY <1>0, <1>3, SavesKeepTriggers, IncrementRaises DEF TriggerAnswered
  <2> QED BY <2>2, <2>3, <2>4 DEF Uncounting, CompletedJobs, JobsOf
<1>4. CASE RunCreate(p)
  <2>1. PICK wf \in Workflows : InsertJob(wf, "queued")
    BY <1>0, <1>4 DEF RunCreate, LinkInv, FramesLinked, Linked
  <2>2. \A w : CompletedJobs(w)' \subseteq CompletedJobs(w)
    BY <2>1, InsertCompletesNone
  <2>3. \A w : Counting(w) \subseteq Counting(w)'
    <3>1. (\E f : Become(p, f)) /\ frames[p].step # "report.count"
      BY <1>4 DEF RunCreate
    <3> QED BY <1>0, <3>1, BecomeOnly, CountingKept
  <2> QED BY <1>0, <1>4, <2>2, <2>3 DEF RunCreate, Uncounting
<1> QED
  BY <1>1, <1>2, <1>3, <1>4

(* A report that completes a job goes on to count it. *)
LEMMA ReportSaveCounted ==
  ASSUME IsFiniteSet(Requests), TypeInv, TypeInv', LinkInv, NEW p \in Requests, ReportSave(p),
         NEW w \in Workflows, Counted(w)
  PROVE  Counted(w)'
<1> USE DEF At
<1> DEFINE j == frames[p].job
           loaded == frames[p].jobDoc
           outcome == frames[p].outcome
           doc(text) == [loaded EXCEPT !.status = outcome, !.errorMessage = text]
<1>0. /\ p \in Handlers /\ frames[p].step = "report.save" /\ UNCHANGED workflows
      /\ workflows[w].triggers \in Nat /\ loaded \in JobDoc /\ outcome \in Outcomes
      /\ jobs \in [JobIds -> JobDoc]
      /\ j \in JobIds /\ frames[p].workflow = jobs[j].workflowId
  BY DEF Handlers, ReportSave, TypeInv, TypeOK, WorkflowDoc, Frame, LinkInv, FramesLinked, Linked,
     JobSteps
<1>1. PICK text : jobs' = [jobs EXCEPT ![j] = SaveJob(doc(text), loaded, jobs[j])]
  BY DEF ReportSave
<1>2. doc(text).status = outcome
  BY <1>0 DEF JobDoc
<1> HIDE DEF doc
<1>3. CASE outcome # "completed"
  <2>1. Become(p, Finishing(frames[p], outcome, FALSE))
    BY <1>3 DEF ReportSave
  <2>2. Uncounting
    BY <1>0, <1>1, <1>2, <1>3, <2>1, SaveUncounting
  <2> QED BY <2>2, CountedKept DEF Uncounting
<1>4. CASE outcome = "completed"
  <2>1. /\ frames'[p].step = "report.count" /\ frames'[p].workflow = frames[p].workflow
        /\ \A q \in Handlers : q # p => frames'[q] = frames[q]
    <3> DEFINE f == [Idle EXCEPT !.step = "report.count", !.job = j,
                                 !.workflow = frames[p].workflow, !.outcome = outcome]
    <3>1. f.step = "report.count" /\ f.workflow = frames[p].workflow
      BY DEF Idle
    <3>2. Become(p, f)
      BY <1>4 DEF ReportSave
    <3> HIDE DEF f
    <3> QED BY <1>0, <3>1, <3>2, BecomeOnly
  <2>2. /\ jobs'[j].workflowId = jobs[j].workflowId
        /\ \A i \in JobIds : i # j => jobs'[i] = jobs[i]
    BY <1>0, <1>1 DEF SaveJob
  <2>3. CASE w # frames[p].workflow
    <3>1. CompletedJobs(w)' \subseteq CompletedJobs(w) /\ Counting(w) \subseteq Counting(w)'
      BY <1>0, <2>1, <2>2, <2>3 DEF CompletedJobs, JobsOf, Counting
    <3> QED BY <1>0, <3>1, CountedKept
  <2>4. CASE w = frames[p].workflow
    <3>1. CompletedJobs(w)' \subseteq CompletedJobs(w) \cup {j}
      BY <1>0, <2>2 DEF CompletedJobs, JobsOf
    <3>2. Counting(w)' = Counting(w) \cup {p} /\ p \notin Counting(w)
      BY <1>0, <2>1, <2>4 DEF Counting
    <3>3. Cardinality(CompletedJobs(w)') <= Cardinality(CompletedJobs(w)) + 1
      <4>1. /\ IsFiniteSet(CompletedJobs(w) \cup {j})
            /\ Cardinality(CompletedJobs(w) \cup {j}) <= Cardinality(CompletedJobs(w)) + 1
        <5>1. IsFiniteSet(CompletedJobs(w)) /\ Cardinality(CompletedJobs(w)) \in Nat
          BY CountsAreFinite, FS_CardinalityType
        <5> HIDE DEF j
        <5>2. /\ IsFiniteSet(CompletedJobs(w) \cup {j})
              /\ Cardinality(CompletedJobs(w) \cup {j}) =
                    IF j \in CompletedJobs(w) THEN Cardinality(CompletedJobs(w))
                    ELSE Cardinality(CompletedJobs(w)) + 1
          BY <5>1, FS_AddElement
        <5> QED BY <5>1, <5>2
      <4>2. Cardinality(CompletedJobs(w)') <= Cardinality(CompletedJobs(w) \cup {j})
        BY <3>1, <4>1, FS_Subset
      <4> QED BY <4>1, <4>2, CountsAreFinite, FS_CardinalityType
    <3>4. Cardinality(Counting(w)') = Cardinality(Counting(w)) + 1
      BY <3>2, CountsAreFinite, FS_AddElement
    <3>5. /\ Cardinality(CompletedJobs(w)) \in Nat /\ Cardinality(CompletedJobs(w)') \in Nat
          /\ Cardinality(Counting(w)) \in Nat
      BY CountsAreFinite, FS_CardinalityType
    <3> QED BY <1>0, <3>3, <3>4, <3>5 DEF Counted
  <2> QED BY <2>3, <2>4
<1> QED
  BY <1>3, <1>4

(* The increment itself; nothing is claimed of a workflow that is gone. *)
LEMMA ReportCountCounted ==
  ASSUME IsFiniteSet(Requests), TypeInv, TypeInv', NEW p \in Requests, ReportCount(p),
         NEW w \in live, Counted(w)
  PROVE  Counted(w)'
<1> USE DEF At
<1>0. /\ p \in Handlers /\ frames[p].step = "report.count" /\ UNCHANGED jobs
      /\ w \in Workflows /\ workflows[w].triggers \in Nat
  BY DEF Handlers, ReportCount, TypeInv, TypeOK, WorkflowDoc
<1>1. /\ frames'[p].step = "finish.load"
      /\ \A q \in Handlers : q # p => frames'[q] = frames[q]
  <2> DEFINE f == Finishing(frames[p], "completed", FALSE)
  <2>1. f.step = "finish.load" /\ Become(p, f)
    BY DEF ReportCount, Finishing, Idle
  <2> HIDE DEF f
  <2> QED BY <1>0, <2>1, BecomeOnly
<1>2. CompletedJobs(w)' = CompletedJobs(w)
  BY <1>0 DEF CompletedJobs, JobsOf
<1>3. CASE w # frames[p].workflow
  <2>1. Counting(w) \subseteq Counting(w)'
    BY <1>0, <1>1, <1>3 DEF Counting
  <2>2. workflows'[w].triggers >= workflows[w].triggers
    BY <1>0, IncrementRaises DEF ReportCount
  <2> QED BY <1>0, <1>2, <2>1, <2>2, CountedKept
<1>4. CASE w = frames[p].workflow
  <2>1. workflows'[w].triggers = workflows[w].triggers + 1
    BY <1>4, IncrementRaises DEF ReportCount
  <2>2. Counting(w)' = Counting(w) \ {p} /\ p \in Counting(w)
    BY <1>0, <1>1, <1>4 DEF Counting
  <2>3. Cardinality(Counting(w)') = Cardinality(Counting(w)) - 1
    BY <2>2, CountsAreFinite, FS_RemoveElement
  <2>4. Cardinality(CompletedJobs(w)) \in Nat /\ Cardinality(Counting(w)) \in Nat
    BY CountsAreFinite, FS_CardinalityType
  <2> QED BY <1>0, <1>2, <2>1, <2>3, <2>4 DEF Counted
<1> QED
  BY <1>3, <1>4

(* Workflows are only ever removed, and interruptions not forgotten. *)
LEMMA StepKeepsLive ==
  ASSUME [Next]_vars
  PROVE  live' \subseteq live /\ interrupted \subseteq interrupted'
<1>1. ASSUME NEW p, DispatchStep(p) PROVE UNCHANGED <<live, interrupted>>
  BY <1>1 DEF DispatchStep, DispatchLoad, CredentialMissing, DispatchStart, PostAccepted,
     PostRefused, AnswerOk, AnswerLost, DispatchFail, FinishLoad, FinishSave, FinishReread,
     WorkflowGone, store, ghosts
<1>2. ASSUME NEW p \in Requests, Arrival(p) PROVE UNCHANGED <<live, interrupted>>
  BY <1>2 DEF Arrival, Run, SetStatus, Trigger, Report, ReportDirect, store, ghosts
<1>3. ASSUME NEW p \in Requests, RequestStep(p) \/ RunEnqueueFails(p)
      PROVE  UNCHANGED <<live, interrupted>>
  BY <1>1, <1>3 DEF RequestStep, RunEnqueueFails, RunMark, RunReread, RunCreate, RunEnqueue,
     RunReload, ReportLatest, ReportSave, ReportCount, StatusSave, TriggerAnswered, store, ghosts
<1>4. CASE WorkerAck \/ WorkerNack \/ \E j \in JobIds : WorkerTake(j)
  BY <1>4 DEF WorkerAck, WorkerNack, WorkerTake, ghosts
<1>5. CASE Crash \/ UNCHANGED vars \/ \E w \in Workflows : CreateDraft(w) \/ Remove(w)
  BY <1>5 DEF Crash, CreateDraft, Remove, vars, store, ghosts
<1> QED BY <1>1, <1>2, <1>3, <1>4, <1>5 DEF Next, WorkerStep

LEMMA CountStep ==
  ASSUME IsFiniteSet(Requests)
  PROVE  TypeInv /\ TypeInv' /\ LinkInv /\ CompletedIsCounted /\ [Next]_vars => CompletedIsCounted'
<1> SUFFICES ASSUME TypeInv, TypeInv', LinkInv, CompletedIsCounted, [Next]_vars,
                    NEW w \in live', w \notin interrupted'
             PROVE  Counted(w)'
  BY DEF CompletedIsCounted, Counted
<1>0. /\ live' \subseteq live /\ interrupted \subseteq interrupted' /\ live \subseteq Workflows
      /\ \A v \in Workflows : workflows[v].triggers \in Nat
  BY StepKeepsLive DEF TypeInv, TypeOK, WorkflowDoc
<1>1. w \in live /\ w \in Workflows /\ Counted(w)
  BY <1>0 DEF CompletedIsCounted, Counted
<1>un. Uncounting => Counted(w)'
  BY <1>1, CountedKept DEF Uncounting
<1>2. ASSUME NEW p \in Requests, Arrival(p) \/ RequestStep(p) \/ RunEnqueueFails(p)
      PROVE  Counted(w)'
  <2>1. CASE DispatchStep(p)
    BY <1>un, <2>1, DispatchUncounting DEF Handlers
  <2>2. CASE ReportSave(p)
    BY <1>1, <2>2, ReportSaveCounted
  <2>3. CASE ReportCount(p)
    BY <1>1, <2>3, ReportCountCounted
  <2>4. CASE ~(DispatchStep(p) \/ ReportSave(p) \/ ReportCount(p))
    BY <1>2, <1>un, <2>4, RequestUncounting DEF RequestStep
  <2> QED BY <2>1, <2>2, <2>3, <2>4
<1>3. CASE DispatchStep(Worker)
  BY <1>3, <1>un, DispatchUncounting DEF Handlers
<1>4. CASE WorkerAck \/ WorkerNack \/ \E j \in JobIds : WorkerTake(j)
  <2>1. \E f : Become(Worker, f)
    BY <1>4 DEF WorkerAck, WorkerNack, WorkerTake
  <2>2. UNCHANGED <<workflows, jobs>>
    BY <1>4 DEF WorkerAck, WorkerNack, WorkerTake
  <2>3. frames[Worker].step # "report.count"
    <3>1. Idle.step # "report.count"
      BY DEF Idle
    <3> QED BY <1>4, <3>1 DEF WorkerAck, WorkerNack, WorkerTake, At, Free
  <2> QED BY <1>un, <2>1, <2>2, <2>3, QuietUncounting DEF Handlers
<1>5. ASSUME NEW v \in Workflows, CreateDraft(v) PROVE Counted(w)'
  <2>1. \A u : CompletedJobs(u)' \subseteq CompletedJobs(u)
    BY <1>5, InsertCompletesNone DEF CreateDraft
  <2> QED BY <1>0, <1>un, <1>5, <2>1 DEF CreateDraft, Uncounting, Counting, At
<1>6. ASSUME NEW v \in Workflows, Remove(v) PROVE Counted(w)'
  BY <1>0, <1>un, <1>6 DEF Remove, Uncounting, Counting, At, CompletedJobs, JobsOf
<1>7. CASE Crash
  <2>1. Counting(w) = {}
    BY <1>7 DEF Crash, Counting, At, HalfDone
  <2>2. CompletedJobs(w)' = CompletedJobs(w) /\ workflows'[w].triggers >= workflows[w].triggers
    BY <1>0, <1>1, <1>7 DEF Crash, CompletedJobs, JobsOf
  <2> QED BY <1>1, <2>1, <2>2, CountedKept
<1>8. CASE UNCHANGED vars
  BY <1>0, <1>8, <1>un DEF vars, store, Uncounting, Counting, At, CompletedJobs, JobsOf
<1> QED
  BY <1>2, <1>3, <1>4, <1>5, <1>6, <1>7, <1>8 DEF Next, WorkerStep

(* Every completed job has been counted on its workflow or is about to be, however
   reports, dispatches and edits of the workflow overlap, and however often n8n
   reports: saves leave the counter alone, and the increment is atomic.  Only a
   crash in the middle of a handler can lose one.  The slots for requests are
   finite: their number at any time is. *)
THEOREM CompletedAreCounted ==
  ASSUME IsFiniteSet(Requests)
  PROVE  Spec => []CompletedIsCounted
<1>1. Init => CompletedIsCounted
  <2> SUFFICES ASSUME Init, NEW w \in live PROVE Counted(w)
    BY DEF CompletedIsCounted, Counted
  <2>1. CompletedJobs(w) = {} /\ Counting(w) = {}
    BY DEF Init, CompletedJobs, JobsOf, NoJobDoc, Counting, At, Idle
  <2>2. workflows[w].triggers = 0
    BY DEF Init
  <2> QED BY <2>1, <2>2, FS_EmptySet DEF Counted
<1> QED
  BY <1>1, TypeInvariant, LinkInvariant, CountStep, PTL DEF Spec

------------------------------------------------------------------------------
(* No job is executed twice *)

(* Job j has not been executed, or cannot be again: its workflow is gone. *)
Fresh(j) == posts[j] = 0 \/ jobs[j].workflowId \notin live

OnceEntries ==
    \A j \in JobIds : /\ posts[j] <= 1
                      /\ queue[j].state = "waiting" => Fresh(j)
                      /\ ~QueueEnabled => queue[j].state = "none"

(* Only a dispatch that loads its job may come too late; the others have seen the
   workflow.  A job is with the queue or with the request that created it, and the
   worker holds the entry of its job. *)
OnceFrame(p) ==
    LET f == frames[p]
    IN  /\ f.step = "dispatch.load" \/ (p = Worker /\ f.step = "worker.nack") => Fresh(f.job)
        /\ f.step \in Unposted \ {"dispatch.load"} => posts[f.job] = 0
        /\ f.step = "run.enqueue" => QueueEnabled
        /\ p # Worker /\ f.step \in Unposted => queue[f.job].state = "none"
        /\ p = Worker /\ f.step # "idle" => /\ f.job \in JobIds /\ queue[f.job].state = "active"
                                            /\ f.workflow = jobs[f.job].workflowId

OnceFrames == \A p \in Handlers : OnceFrame(p)

Apart == \A p, q \in Requests : /\ p # q
                                /\ frames[p].step \in Unposted /\ frames[q].step \in Unposted
                                => frames[p].job # frames[q].job

OnceInv == OnceEntries /\ OnceFrames /\ Apart

LEMMA OnceInit == Init => OnceInv
<1> SUFFICES ASSUME Init PROVE OnceInv
  OBVIOUS
<1>1. /\ \A p \in Handlers : frames[p].step = "idle"
      /\ \A j \in JobIds : posts[j] = 0 /\ queue[j].state = "none"
  BY DEF Init, Idle, NoEntry
<1>2. OnceEntries
  BY <1>1 DEF OnceEntries
<1>3. OnceFrames /\ Apart
  BY <1>1 DEF OnceFrames, OnceFrame, Apart, Unposted, Handlers
<1> QED
  BY <1>2, <1>3 DEF OnceInv

(* What a step leaves alone stays as it was. *)
LEMMA OnceKept ==
  ASSUME TypeInv, LinkInv, OnceInv, KeepsJobs, live' \subseteq live, UNCHANGED <<posts, queue>>
  PROVE  /\ OnceEntries'
         /\ \A j \in JobIds : Fresh(j) => Fresh(j)'
         /\ \A q \in Handlers : frames'[q] = frames[q] => OnceFrame(q)'
<1>1. ASSUME NEW j \in JobIds, Fresh(j) PROVE Fresh(j)'
  <2>1. CASE posts[j] = 0
    BY <2>1 DEF Fresh
  <2>2. CASE posts[j] # 0
    <3>1. posts[j] > 0
      BY <2>2 DEF TypeInv, TypeOK
    <3>2. j <= created /\ jobs'[j].workflowId = jobs[j].workflowId
      BY <3>1 DEF LinkInv, OnlyCreatedJobs, KeepsJobs
    <3> QED BY <1>1, <2>2, <3>2 DEF Fresh
  <2> QED BY <2>1, <2>2
<1>2. OnceEntries'
  BY <1>1 DEF OnceInv, OnceEntries
<1>3. ASSUME NEW q \in Handlers, frames'[q] = frames[q] PROVE OnceFrame(q)'
  <2>1. OnceFrame(q) /\ (frames[q].step \in JobSteps => frames[q].job \in JobIds)
    BY DEF OnceInv, OnceFrames, LinkInv, FramesLinked, Linked
  <2>2. frames[q].job \in JobIds => jobs'[frames[q].job].workflowId = jobs[frames[q].job].workflowId
    BY DEF LinkInv, FramesLinked, Linked, KeepsJobs, TypeInv, TypeOK
  <2>3. "dispatch.load" \in JobSteps /\ "worker.nack" # "idle"
    BY DEF JobSteps
  <2> QED BY <1>1, <1>3, <2>1, <2>2, <2>3 DEF OnceFrame
<1> QED
  BY <1>1, <1>2, <1>3

(* Handler p moves on; a request that is still to post works on the same job. *)
LEMMA OnceMove ==
  ASSUME TypeInv, LinkInv, OnceInv, KeepsJobs, live' \subseteq live, UNCHANGED <<posts, queue>>,
         NEW p \in Handlers, \A q \in Handlers : q # p => frames'[q] = frames[q],
         OnceFrame(p)',
         frames'[p].step \in Unposted
            => frames[p].step \in Unposted /\ frames'[p].job = frames[p].job
  PROVE  OnceInv'
<1>1. OnceEntries' /\ OnceFrames'
  BY OnceKept DEF OnceFrames
<1>2. ASSUME NEW q \in Requests, frames'[q].step \in Unposted
      PROVE  frames[q].step \in Unposted /\ frames'[q].job = frames[q].job
  BY <1>2 DEF Handlers
<1>3. Apart'
  BY <1>2 DEF OnceInv, Apart
<1> QED
  BY <1>1, <1>3 DEF OnceInv

(* A move past the webhook call, or to a step of another kind. *)
LEMMA OnceEnds ==
  ASSUME TypeInv, LinkInv, OnceInv, KeepsJobs, live' \subseteq live, UNCHANGED <<posts, queue>>,
         NEW p \in Handlers, NEW f, Become(p, f), f.step \notin Unposted \cup {"worker.nack"},
         p = Worker => \/ f.step = "idle"
                       \/ /\ frames[p].step # "idle"
                          /\ f.job = frames[p].job /\ f.workflow = frames[p].workflow
  PROVE  OnceInv'
<1>1. frames'[p] = f /\ \A q \in Handlers : q # p => frames'[q] = frames[q]
  BY BecomeOnly
<1>2. OnceFrame(p) /\ Linked(frames[p], jobs, created)
  BY DEF OnceInv, OnceFrames, LinkInv, FramesLinked
<1>3. frames[p].job \in JobIds => jobs'[frames[p].job].workflowId = jobs[frames[p].job].workflowId
  BY <1>2 DEF Linked, KeepsJobs, TypeInv, TypeOK
<1>4. OnceFrame(p)'
  BY <1>1, <1>2, <1>3 DEF OnceFrame, Unposted
<1> QED
  BY <1>1, <1>4, OnceMove

(* An exception takes the worker back to an entry that has not been executed. *)
LEMMA OnceThrow ==
  ASSUME TypeInv, LinkInv, OnceInv, UNCHANGED <<jobs, created, live, posts, queue>>,
         NEW p \in Handlers, frames[p].step # "idle", Throw(p),
         p = Worker => Fresh(frames[p].job)
  PROVE  OnceInv'
<1>1. KeepsJobs
  BY DEF KeepsJobs, TypeInv, TypeOK
<1>2. CASE p # Worker
  <2>1. Become(p, Idle) /\ Idle.step = "idle"
    BY <1>2 DEF Throw, Idle
  <2> QED BY <1>1, <1>2, <2>1, OnceEnds DEF Unposted
<1>3. CASE p = Worker
  <2> DEFINE f == [Idle EXCEPT !.step = "worker.nack", !.job = frames[p].job,
                               !.workflow = frames[p].workflow]
  <2>1. f.step = "worker.nack" /\ f.job = frames[p].job /\ f.workflow = frames[p].workflow
    BY DEF Idle
  <2>2. Become(p, f)
    BY <1>3 DEF Throw
  <2> HIDE DEF f
  <2>3. frames'[p] = f /\ \A q \in Handlers : q # p => frames'[q] = frames[q]
    BY <2>2, BecomeOnly
  <2>4. frames[p].job \in JobIds /\ queue[frames[p].job].state = "active"
        /\ frames[p].workflow = jobs[frames[p].job].workflowId
    BY <1>3 DEF OnceInv, OnceFrames, OnceFrame
  <2>5. Fresh(frames[p].job)
    BY <1>3
  <2>6. OnceFrame(p)'
    BY <1>3, <2>1, <2>3, <2>4, <2>5 DEF OnceFrame, Fresh, Unposted
  <2>7. frames'[p].step \notin Unposted
    BY <2>1, <2>3 DEF Unposted
  <2> QED BY <1>1, <2>3, <2>6, <2>7, OnceMove
<1> QED
  BY <1>2, <1>3

LEMMA DispatchStepOnce ==
  ASSUME TypeInv, LinkInv, OnceInv, NEW p \in Handlers, DispatchStep(p)
  PROVE  OnceInv'
<1> USE DEF At
<1>0. /\ frames[p] \in Frame /\ OnceFrame(p)
      /\ frames[p].step \in JobSteps => /\ frames[p].job \in JobIds
                                        /\ frames[p].workflow = jobs[frames[p].job].workflowId
  BY DEF TypeInv, TypeOK, OnceInv, OnceFrames, LinkInv, FramesLinked, Linked
<1>same. UNCHANGED <<jobs, created>> => KeepsJobs
  BY DEF KeepsJobs, TypeInv, TypeOK
<1>1. CASE DispatchLoad(p)
  <2> DEFINE f == [frames[p] EXCEPT !.step = "dispatch.start", !.jobDoc = jobs[frames[p].job]]
  <2>1. f.step = "dispatch.start" /\ f.job = frames[p].job /\ f.workflow = frames[p].workflow
    BY <1>0 DEF Frame
  <2> HIDE DEF f
  <2>2. /\ frames[p].step = "dispatch.load" /\ frames[p].workflow \in live
        /\ UNCHANGED <<jobs, created, live, posts, queue>>
        /\ frames'[p] = f /\ \A q \in Handlers : q # p => frames'[q] = frames[q]
    BY <1>1, BecomeOnly DEF DispatchLoad, store, n8n, f
  <2>3. posts[frames[p].job] = 0
    BY <1>0, <2>2 DEF OnceFrame, Fresh, JobSteps
  <2>4. OnceFrame(p)' /\ frames[p].step \in Unposted
    BY <1>0, <2>1, <2>2, <2>3 DEF OnceFrame, Unposted
  <2> QED BY <1>same, <2>1, <2>2, <2>4, OnceMove
<1>2. CASE CredentialMissing(p) \/ WorkflowGone(p)
  <2>1. /\ UNCHANGED <<jobs, created, live, posts, queue>> /\ frames[p].step # "idle" /\ Throw(p)
    BY <1>2 DEF CredentialMissing, WorkflowGone, store, n8n, NeedsWorkflow
  <2>2. p = Worker => Fresh(frames[p].job)
    BY <1>0, <1>2, <2>1 DEF CredentialMissing, WorkflowGone, OnceFrame, Fresh
  <2> QED BY <2>1, <2>2, OnceThrow
<1>3. CASE DispatchStart(p)
  <2> DEFINE doc == [frames[p].jobDoc EXCEPT !.status = "processing"]
             f == [frames[p] EXCEPT !.step = "dispatch.post", !.jobDoc = doc]
  <2>1. f.step = "dispatch.post" /\ f.job = frames[p].job /\ f.workflow = frames[p].workflow
    BY <1>0 DEF Frame
  <2> HIDE DEF f
  <2>2. /\ frames[p].step = "dispatch.start"
        /\ jobs' = [jobs EXCEPT ![frames[p].job] =
                       SaveJob(doc, frames[p].jobDoc, jobs[frames[p].job])]
        /\ UNCHANGED <<created, live, posts, queue>>
        /\ frames'[p] = f /\ \A q \in Handlers : q # p => frames'[q] = frames[q]
    BY <1>3, BecomeOnly DEF DispatchStart, n8n, f
  <2> HIDE DEF doc
  <2>3. KeepsJobs /\ \A j \in JobIds : jobs'[j].workflowId = jobs[j].workflowId
    BY <2>2, SaveKeepsJobs
  <2>4. OnceFrame(p)' /\ frames[p].step \in Unposted
    BY <1>0, <2>1, <2>2, <2>3 DEF OnceFrame, Unposted, JobSteps
  <2> QED BY <2>1, <2>2, <2>3, <2>4, OnceMove
<1>4. CASE PostAccepted(p)
  <2> DEFINE j == frames[p].job
             f == [frames[p] EXCEPT !.step = "dispatch.await"]
  <2>1. f.step = "dispatch.await" /\ f.job = j /\ f.workflow = frames[p].workflow
    BY <1>0 DEF Frame
  <2> HIDE DEF f
  <2>2. /\ frames[p].step = "dispatch.post" /\ UNCHANGED <<jobs, created, live, queue>>
        /\ posts' = [posts EXCEPT ![j] = @ + 1] /\ posts \in [JobIds -> Nat]
        /\ frames'[p] = f /\ \A q \in Handlers : q # p => frames'[q] = frames[q]
    BY <1>4, BecomeOnly DEF PostAccepted, Goto, store, f, TypeInv, TypeOK
  <2>3. /\ j \in JobIds /\ posts[j] = 0
        /\ queue[j].state = IF p = Worker THEN "active" ELSE "none"
    BY <1>0, <2>2 DEF OnceFrame, Unposted, JobSteps
  <2>4. posts'[j] = 1 /\ \A i \in JobIds : i # j => posts'[i] = posts[i]
    BY <2>2, <2>3
  <2>5. OnceEntries'
    BY <2>2, <2>3, <2>4 DEF OnceInv, OnceEntries, Fresh
  <2>6. OnceFrame(p)'
    BY <1>0, <2>1, <2>2 DEF OnceFrame, Unposted
  <2>7. ASSUME NEW q \in Handlers, q # p PROVE OnceFrame(q)'
    <3>1. OnceFrame(q) /\ (frames[q].step \in JobSteps => frames[q].job \in JobIds)
      BY DEF OnceInv, OnceFrames, LinkInv, FramesLinked, Linked
    <3>2. frames[q].step \in Unposted \/ (q = Worker /\ frames[q].step = "worker.nack")
             => frames[q].job \in JobIds /\ frames[q].job # j
      <4>1. CASE q = Worker /\ frames[q].step # "idle"
        BY <2>3, <2>7, <3>1, <4>1 DEF OnceFrame
      <4>2. CASE q # Worker /\ p = Worker
        BY <2>3, <3>1, <4>2 DEF OnceFrame, Unposted, JobSteps
      <4>3. CASE q # Worker /\ p # Worker
        BY <2>2, <2>7, <3>1, <4>3 DEF OnceInv, Apart, Handlers, Unposted, JobSteps
      <4> QED BY <4>1, <4>2, <4>3 DEF Unposted
    <3>3. frames'[q] = frames[q]
      BY <2>2, <2>7
    <3>4. frames[q].step = "dispatch.load" => frames[q].step \in Unposted
      BY DEF Unposted
    <3> HIDE DEF j
    <3> QED BY <2>2, <2>4, <3>1, <3>2, <3>3, <3>4 DEF OnceFrame, Fresh
  <2>8. Apart'
    BY <2>1, <2>2 DEF OnceInv, Apart, Unposted, Handlers
  <2> QED BY <2>5, <2>6, <2>7, <2>8 DEF OnceInv, OnceFrames
<1>5. CASE PostRefused(p) \/ AnswerLost(p)
  <2> DEFINE f == [frames[p] EXCEPT !.step = "dispatch.fail"]
  <2>1. f.step = "dispatch.fail" /\ f.job = frames[p].job /\ f.workflow = frames[p].workflow
    BY <1>0 DEF Frame
  <2>2. /\ Become(p, f) /\ frames[p].step # "idle"
        /\ UNCHANGED <<jobs, created, live, posts, queue>>
    BY <1>5 DEF PostRefused, AnswerLost, Goto, store, n8n
  <2> HIDE DEF f
  <2> QED BY <1>same, <2>1, <2>2, OnceEnds DEF Unposted
<1>6. CASE AnswerOk(p) \/ FinishReread(p)
  <2> DEFINE f == [Idle EXCEPT !.step = IF p = Worker THEN "worker.ack" ELSE "run.reload",
                               !.job = frames[p].job, !.workflow = frames[p].workflow]
  <2>1. /\ f.step \in {"worker.ack", "run.reload"}
        /\ f.job = frames[p].job /\ f.workflow = frames[p].workflow
    BY DEF Idle
  <2>2. /\ Become(p, f) /\ frames[p].step # "idle"
        /\ UNCHANGED <<jobs, created, live, posts, queue>>
    BY <1>6 DEF AnswerOk, FinishReread, DispatchReturns, store, n8n
  <2> HIDE DEF f
  <2> QED BY <1>same, <2>1, <2>2, OnceEnds DEF Unposted
<1>7. CASE DispatchFail(p)
  <2> DEFINE f == Finishing(frames[p], "failed", TRUE)
  <2>1. f.step = "finish.load" /\ f.job = frames[p].job /\ f.workflow = frames[p].workflow
    BY DEF Finishing, Idle
  <2>2. /\ Become(p, f) /\ frames[p].step # "idle" /\ UNCHANGED <<created, live, posts, queue>>
        /\ \E doc, loaded : jobs' = [jobs EXCEPT ![frames[p].job] =
                                        SaveJob(doc, loaded, jobs[frames[p].job])]
    BY <1>7 DEF DispatchFail, n8n
  <2> HIDE DEF f
  <2>3. KeepsJobs
    BY <2>2, SaveKeepsJobs
  <2> QED BY <2>1, <2>2, <2>3, OnceEnds DEF Unposted
<1>8. CASE FinishLoad(p)
  <2> DEFINE f == [frames[p] EXCEPT !.step = "finish.save",
                                    !.workflowDoc = workflows[frames[p].workflow]]
  <2>1. f.step = "finish.save" /\ f.job = frames[p].job /\ f.workflow = frames[p].workflow
    BY <1>0 DEF Frame
  <2>2. /\ Become(p, f) /\ frames[p].step # "idle"
        /\ UNCHANGED <<jobs, created, live, posts, queue>>
    BY <1>8 DEF FinishLoad, store, n8n
  <2> HIDE DEF f
  <2> QED BY <1>same, <2>1, <2>2, OnceEnds DEF Unposted
<1>9. CASE FinishSave(p)
  <2> DEFINE f == [frames[p] EXCEPT !.step = "finish.reread", !.workflowDoc = NullWorkflowDoc]
  <2>1. /\ f.step = "finish.reread" /\ f.job = frames[p].job /\ f.workflow = frames[p].workflow
        /\ Idle.step = "idle"
    BY <1>0 DEF Frame, Idle
  <2>2. /\ Become(p, f) \/ Become(p, Idle)
        /\ frames[p].step # "idle" /\ UNCHANGED <<jobs, created, live, posts, queue>>
    BY <1>9 DEF FinishSave, n8n
  <2> HIDE DEF f
  <2> QED BY <1>same, <2>1, <2>2, OnceEnds DEF Unposted
<1> QED
  BY <1>1, <1>2, <1>3, <1>4, <1>5, <1>6, <1>7, <1>8, <1>9 DEF DispatchStep

LEMMA RequestStepOnce ==
  ASSUME TypeInv, LinkInv, OnceInv, NEW p \in Requests,
         Arrival(p) \/ RequestStep(p) \/ RunEnqueueFails(p)
  PROVE  OnceInv'
<1> USE DEF At
<1>0. /\ p \in Handlers /\ p # Worker /\ OnceFrame(p) /\ frames[p] \in Frame
      /\ Linked(frames[p], jobs, created)
  BY SlotsAssumption DEF Handlers, OnceInv, OnceFrames, TypeInv, TypeOK, LinkInv, FramesLinked
<1>1. CASE DispatchStep(p)
  BY <1>0, <1>1, DispatchStepOnce
<1>2. CASE RunCreate(p)
  <2> DEFINE w == frames[p].workflow
             f == [Idle EXCEPT
                     !.step = IF QueueEnabled THEN "run.enqueue" ELSE "dispatch.load",
                     !.workflow = w, !.job = created + 1]
  <2>1. w \in Workflows /\ InsertJob(w, "queued")
    BY <1>0, <1>2 DEF RunCreate, Linked
  <2>2. /\ KeepsJobs /\ created' = created + 1 /\ created' \in JobIds
    BY <2>1, InsertKeepsJobs DEF JobStatuses
  <2>3. /\ f.step = IF QueueEnabled THEN "run.enqueue" ELSE "dispatch.load"
        /\ f.job = created'
    BY <2>2 DEF Idle
  <2> HIDE DEF f
  <2>4. /\ UNCHANGED <<live, posts, queue>>
        /\ frames'[p] = f /\ \A q \in Handlers : q # p => frames'[q] = frames[q]
    BY <1>0, <1>2, BecomeOnly DEF RunCreate, n8n, f
  <2>5. created \in Nat /\ \A q \in Handlers : frames[q].job \in 0..created
    BY Ids DEF LinkInv, FramesLinked, Linked
  <2>6. posts[created'] = 0 /\ queue[created'].state = "none"
    BY <2>2, <2>5 DEF LinkInv, OnlyCreatedJobs, TypeInv, TypeOK
  <2>7. OnceFrame(p)'
    BY <1>0, <2>3, <2>4, <2>6 DEF OnceFrame, Fresh, Unposted
  <2>8. OnceEntries' /\ OnceFrames'
    BY <2>2, <2>4, <2>7, OnceKept DEF OnceFrames
  <2>9. \A q \in Handlers : q # p => frames'[q].job # frames'[p].job
    BY <2>2, <2>3, <2>4, <2>5
  <2>10. Apart'
    BY <2>4, <2>9 DEF OnceInv, Apart, Handlers
  <2> QED BY <2>8, <2>10 DEF OnceInv
<1>3. CASE RunEnqueue(p)
  <2> DEFINE j == frames[p].job
  <2>1. /\ frames[p].step = "run.enqueue" /\ UNCHANGED <<jobs, created, live, posts>>
        /\ queue' = [queue EXCEPT ![j] = Added] /\ queue \in [JobIds -> Entry]
        /\ frames'[p] = Idle /\ \A q \in Handlers : q # p => frames'[q] = frames[q]
    BY <1>0, <1>3, BecomeOnly DEF RunEnqueue, n8n, TypeInv, TypeOK
  <2>2. j \in JobIds /\ posts[j] = 0 /\ queue[j].state = "none" /\ QueueEnabled
    BY <1>0, <2>1 DEF OnceFrame, Unposted, Linked, JobSteps
  <2>3. \A i \in JobIds : i # j => queue'[i] = queue[i]
    BY <2>1
  <2>4. OnceEntries'
    BY <2>1, <2>2, <2>3 DEF OnceInv, OnceEntries, Fresh
  <2>5. ASSUME NEW q \in Handlers, q # p PROVE OnceFrame(q)'
    <3>1. /\ OnceFrame(q) /\ frames'[q] = frames[q]
          /\ frames[q].step \in Unposted => frames[q].job \in JobIds
      BY <2>1, <2>5 DEF OnceInv, OnceFrames, LinkInv, FramesLinked, Linked, Unposted, JobSteps
    <3>2. q # Worker /\ frames[q].step \in Unposted => queue'[frames[q].job] = queue[frames[q].job]
      <4>1. q # Worker /\ frames[q].step \in Unposted => frames[q].job # j
        BY <1>0, <2>1, <2>5 DEF OnceInv, Apart, Unposted, Handlers
      <4> QED BY <2>3, <3>1, <4>1
    <3>3. q = Worker /\ frames[q].step # "idle" => queue'[frames[q].job] = queue[frames[q].job]
      BY <2>2, <2>3, <3>1 DEF OnceFrame
    <3> HIDE DEF j
    <3> QED BY <2>1, <3>1, <3>2, <3>3 DEF OnceFrame, Fresh
  <2>6. OnceFrame(p)' /\ Apart'
    BY <1>0, <2>1 DEF OnceFrame, Unposted, Idle, OnceInv, Apart, Handlers
  <2> QED BY <2>4, <2>5, <2>6 DEF OnceInv, OnceFrames
<1>4. CASE ~(DispatchStep(p) \/ RunCreate(p) \/ RunEnqueue(p))
  <2>1. /\ \E f : Become(p, f) /\ f.step \notin Unposted \cup {"worker.nack"}
        /\ UNCHANGED <<created, live, posts, queue>>
        /\ KeepsJobs
    BY <1>4, RequestMoves DEF RequestStep
  <2> QED BY <1>0, <2>1, OnceEnds
<1> QED
  BY <1>1, <1>2, <1>3, <1>4

(* Without crashes while jobs go through the queue nothing is executed again. *)
NeverRedelivers == MaxFaults = 0 \/ ~QueueEnabled

LEMMA OtherStepOnce ==
  ASSUME NeverRedelivers, TypeInv, LinkInv, OnceInv,
         \/ \E j \in JobIds : WorkerTake(j)
         \/ WorkerAck \/ WorkerNack \/ Crash
         \/ \E w \in Workflows : CreateDraft(w) \/ Remove(w)
  PROVE  OnceInv'
<1> USE DEF At
<1>0. /\ Worker \in Handlers /\ OnceFrame(Worker) /\ queue \in [JobIds -> Entry]
      /\ UNCHANGED <<jobs, created>> => KeepsJobs
      /\ \A q \in Requests : /\ OnceFrame(q) /\ q # Worker /\ q \in Handlers
                             /\ frames[q].step \in Unposted => frames[q].job \in JobIds
  BY SlotsAssumption DEF Handlers, OnceInv, OnceFrames, TypeInv, TypeOK, KeepsJobs, LinkInv,
     FramesLinked, Linked, Unposted, JobSteps
<1>work. ASSUME NEW j \in JobIds, queue[j].state # "none",
                NEW entry, queue' = [queue EXCEPT ![j] = entry],
                UNCHANGED <<jobs, created, live, posts>>, entry.state = "waiting" => Fresh(j),
                \A q \in Handlers : q # Worker => frames'[q] = frames[q],
                OnceFrame(Worker)'
         PROVE  OnceInv'
  <2>1. queue'[j] = entry /\ \A i \in JobIds : i # j => queue'[i] = queue[i]
    BY <1>0, <1>work
  <2>2. OnceEntries'
    BY <1>work, <2>1 DEF OnceInv, OnceEntries, Fresh
  <2>3. ASSUME NEW q \in Requests PROVE OnceFrame(q)'
    <3>1. frames[q].step \in Unposted => queue'[frames[q].job] = queue[frames[q].job]
      BY <1>0, <1>work, <2>1 DEF OnceFrame
    <3>2. frames'[q] = frames[q]
      BY <1>0, <1>work
    <3> QED BY <1>0, <1>work, <3>1, <3>2 DEF OnceFrame, Fresh
  <2>4. OnceFrames'
    BY <1>work, <2>3 DEF OnceFrames, Handlers
  <2>5. Apart'
    BY <1>0, <1>work DEF OnceInv, Apart
  <2> QED BY <2>2, <2>4, <2>5 DEF OnceInv
<1>1. ASSUME NEW j \in JobIds, WorkerTake(j) PROVE OnceInv'
  <2> DEFINE f == [Idle EXCEPT !.step = "dispatch.load", !.job = j,
                               !.workflow = jobs[j].workflowId]
  <2>1. f.step = "dispatch.load" /\ f.job = j /\ f.workflow = jobs[j].workflowId
    BY DEF Idle
  <2> HIDE DEF f
  <2>2. /\ queue[j].state = "waiting" /\ queue' = [queue EXCEPT ![j] = Taken(queue[j])]
        /\ UNCHANGED <<jobs, created, live, posts>>
        /\ frames'[Worker] = f /\ \A q \in Handlers : q # Worker => frames'[q] = frames[q]
    BY <1>0, <1>1, BecomeOnly DEF WorkerTake, n8n, f
  <2>3. Fresh(j) /\ Taken(queue[j]).state = "active" /\ queue'[j] = Taken(queue[j])
    BY <1>0, <2>2 DEF OnceInv, OnceEntries, Taken, Entry
  <2>4. OnceFrame(Worker)'
    BY <2>1, <2>2, <2>3 DEF OnceFrame, Fresh, Unposted
  <2> QED BY <1>work, <2>2, <2>3, <2>4
<1>2. CASE WorkerAck \/ WorkerNack
  <2> DEFINE j == frames[Worker].job
  <2>1. PICK entry : /\ queue' = [queue EXCEPT ![j] = entry]
                     /\ entry.state = "waiting" => frames[Worker].step = "worker.nack"
    <3>1. CASE WorkerAck
      <4>1. queue' = [queue EXCEPT ![j] = Completed(queue[j])]
        BY <3>1 DEF WorkerAck
      <4>2. j \in JobIds /\ Completed(queue[j]).state = "done"
        BY <1>0, <3>1 DEF WorkerAck, OnceFrame, Completed, Entry
      <4> QED BY <4>1, <4>2
    <3>2. CASE WorkerNack
      <4>1. queue' = [queue EXCEPT ![j] = Rejected(queue[j])]
        BY <3>2 DEF WorkerNack
      <4> QED BY <3>2, <4>1 DEF WorkerNack
    <3> QED BY <1>2, <3>1, <3>2
  <2>2. /\ UNCHANGED <<jobs, created, live, posts>> /\ frames[Worker].step # "idle"
        /\ frames'[Worker] = Idle /\ \A q \in Handlers : q # Worker => frames'[q] = frames[q]
    BY <1>0, <1>2, BecomeOnly DEF WorkerAck, WorkerNack, n8n
  <2>3. j \in JobIds /\ queue[j].state # "none" /\ (entry.state = "waiting" => Fresh(j))
    BY <1>0, <2>1, <2>2 DEF OnceFrame
  <2>4. OnceFrame(Worker)'
    BY <2>2 DEF OnceFrame, Unposted, Idle
  <2> HIDE DEF j
  <2> QED BY <1>work, <2>1, <2>2, <2>3, <2>4
<1>3. CASE Crash
  <2>1. ~QueueEnabled
    BY <1>3, BoundsAssumption DEF Crash, NeverRedelivers, TypeInv, TypeOK
  <2>2. /\ \A q \in Handlers : frames'[q].step = "idle"
        /\ UNCHANGED <<jobs, live, posts>>
    BY <1>3 DEF Crash, Idle, n8n
  <2>3. \A j \in JobIds : queue'[j] = queue[j]
    BY <1>3, <2>1 DEF Crash, OnceInv, OnceEntries
  <2>4. OnceEntries'
    BY <2>2, <2>3 DEF OnceInv, OnceEntries, Fresh
  <2>5. OnceFrames' /\ Apart'
    BY <2>2 DEF OnceFrames, OnceFrame, Apart, Unposted, Handlers
  <2> QED BY <2>4, <2>5 DEF OnceInv
<1>4. ASSUME NEW w \in Workflows, CreateDraft(w) \/ Remove(w) PROVE OnceInv'
  <2>1. /\ UNCHANGED <<frames, posts, queue>> /\ live' \subseteq live
        /\ KeepsJobs
    BY <1>0, <1>4, InsertKeepsJobs DEF CreateDraft, Remove, n8n, JobStatuses
  <2> QED BY <2>1, OnceKept DEF OnceInv, OnceFrames, Apart
<1> QED
  BY <1>1, <1>2, <1>3, <1>4

LEMMA OnceStep ==
  ASSUME NeverRedelivers
  PROVE  TypeInv /\ LinkInv /\ OnceInv /\ [Next]_vars => OnceInv'
<1> SUFFICES ASSUME TypeInv, LinkInv, OnceInv, [Next]_vars PROVE OnceInv'
  OBVIOUS
<1>1. ASSUME NEW p \in Requests, Arrival(p) \/ RequestStep(p) \/ RunEnqueueFails(p)
      PROVE  OnceInv'
  BY <1>1, RequestStepOnce
<1>2. CASE WorkerStep
  BY <1>2, DispatchStepOnce, OtherStepOnce DEF WorkerStep, Handlers
<1>3. CASE \/ \E j \in JobIds : WorkerTake(j)
           \/ \E w \in Workflows : CreateDraft(w) \/ Remove(w)
           \/ Crash
  BY <1>3, OtherStepOnce
<1>4. CASE UNCHANGED vars
  <2>1. UNCHANGED <<frames, posts, queue, live, jobs, created>> /\ KeepsJobs
    BY <1>4 DEF vars, store, n8n, KeepsJobs, TypeInv, TypeOK
  <2> QED BY <2>1, OnceKept DEF OnceInv, OnceFrames, Apart
<1> QED
  BY <1>1, <1>2, <1>3, <1>4 DEF Next

LEMMA OnceInvariant == ASSUME NeverRedelivers PROVE Spec => []OnceInv
  BY TypeInvariant, LinkInvariant, OnceInit, OnceStep, PTL DEF Spec

------------------------------------------------------------------------------
(* Counts are earned *)

(* A handler in frame f may still count a success of workflow w. *)
CountsLater(f, w) ==
    /\ f.workflow = w
    /\ \/ f.step \in {"report.count", "trigger.await"}
       \/ f.step \in {"report.latest", "report.save"} /\ f.outcome = "completed"

LateSteps == {"report.count", "trigger.await", "report.latest", "report.save"}

MayCount(w) == {p \in Handlers : CountsLater(frames[p], w)}

Earnings(w) == Cardinality(JobsOf(w) \cap succeeded) + direct[w] + directReports[w]

Earned(w) == workflows[w].triggers + Cardinality(MayCount(w)) <= Earnings(w)

SuccessesReported == \A j \in succeeded : reports[j] > 0

EarnedInv == SuccessesReported /\ \A w \in Workflows : Earned(w)

LEMMA EarningsAreFinite ==
  ASSUME IsFiniteSet(Requests), NEW w
  PROVE  /\ IsFiniteSet(JobsOf(w) \cap succeeded) /\ IsFiniteSet((JobsOf(w) \cap succeeded)')
         /\ IsFiniteSet(MayCount(w)) /\ IsFiniteSet(MayCount(w)')
         /\ Cardinality(JobsOf(w) \cap succeeded) \in Nat
         /\ Cardinality((JobsOf(w) \cap succeeded)') \in Nat
         /\ Cardinality(MayCount(w)) \in Nat /\ Cardinality(MayCount(w)') \in Nat
<1>1. IsFiniteSet(JobIds) /\ IsFiniteSet(Handlers)
  <2>1. 1 \in Int /\ MaxJobs \in Int
    BY BoundsAssumption
  <2> QED BY <2>1, FS_Interval, FS_AddElement DEF JobIds, Handlers
<1>2. /\ JobsOf(w) \cap succeeded \in SUBSET JobIds
      /\ (JobsOf(w) \cap succeeded)' \in SUBSET JobIds
      /\ MayCount(w) \in SUBSET Handlers /\ MayCount(w)' \in SUBSET Handlers
  BY DEF JobsOf, MayCount
<1>3. /\ IsFiniteSet(JobsOf(w) \cap succeeded) /\ IsFiniteSet((JobsOf(w) \cap succeeded)')
      /\ IsFiniteSet(MayCount(w)) /\ IsFiniteSet(MayCount(w)')
  BY <1>1, <1>2, FS_Subset
<1> QED
  BY <1>3, FS_CardinalityType

(* The successes known of a workflow are never fewer. *)
LEMMA EarningsKept ==
  ASSUME IsFiniteSet(Requests), TypeInv, TypeInv', LinkInv, KeepsJobs, NEW w \in Workflows,
         succeeded \subseteq succeeded',
         direct'[w] = direct[w], directReports'[w] = directReports[w]
  PROVE  Earnings(w)' >= Earnings(w) /\ Earnings(w) \in Nat /\ Earnings(w)' \in Nat
<1>1. JobsOf(w) \cap succeeded \subseteq (JobsOf(w) \cap succeeded)'
  BY NamedJobsExist DEF JobsOf, KeepsJobs
<1>2. Cardinality((JobsOf(w) \cap succeeded)') >= Cardinality(JobsOf(w) \cap succeeded)
  BY <1>1, EarningsAreFinite, FS_Subset
<1>3. /\ direct[w] \in Nat /\ directReports[w] \in Nat
      /\ Cardinality(JobsOf(w) \cap succeeded) \in Nat
      /\ Cardinality((JobsOf(w) \cap succeeded)') \in Nat
  BY EarningsAreFinite DEF TypeInv, TypeOK
<1> QED BY <1>2, <1>3 DEF Earnings

(* A step that neither counts nor earns, and leaves no more handlers about to count. *)
LEMMA EarnedKept ==
  ASSUME IsFiniteSet(Requests), TypeInv, TypeInv', LinkInv, KeepsJobs,
         NEW w \in Workflows, Earned(w),
         succeeded \subseteq succeeded',
         direct'[w] = direct[w], directReports'[w] = directReports[w],
         workflows'[w].triggers = workflows[w].triggers,
         MayCount(w)' \subseteq MayCount(w)
  PROVE  Earned(w)'
<1>1. Cardinality(MayCount(w)') <= Cardinality(MayCount(w))
  BY EarningsAreFinite, FS_Subset
<1>2. /\ workflows[w].triggers \in Nat
      /\ Cardinality(MayCount(w)) \in Nat /\ Cardinality(MayCount(w)') \in Nat
  BY EarningsAreFinite DEF TypeInv, TypeOK, WorkflowDoc
<1>3. Earnings(w)' >= Earnings(w) /\ Earnings(w) \in Nat /\ Earnings(w)' \in Nat
  BY EarningsKept
<1> QED BY <1>1, <1>2, <1>3 DEF Earned

LEMMA EarnedQuiet ==
  ASSUME IsFiniteSet(Requests), TypeInv, TypeInv', LinkInv, KeepsJobs,
         NEW w \in Workflows, Earned(w),
         succeeded \subseteq succeeded',
         direct'[w] = direct[w], directReports'[w] = directReports[w],
         workflows'[w].triggers = workflows[w].triggers,
         NEW p \in Handlers, NEW f, Become(p, f), CountsLater(f, w) => CountsLater(frames[p], w)
  PROVE  Earned(w)'
<1>1. MayCount(w)' \subseteq MayCount(w)
  BY BecomeOnly DEF MayCount
<1> QED BY <1>1, EarnedKept

(* A step that tells of one more success may leave one more handler about to count. *)
LEMMA EarnedGains ==
  ASSUME IsFiniteSet(Requests), TypeInv, TypeInv', NEW w \in Workflows, Earned(w),
         workflows'[w].triggers = workflows[w].triggers,
         NEW p \in Handlers, NEW f, Become(p, f),
         Earnings(w) \in Nat, Earnings(w)' = Earnings(w) + 1
  PROVE  Earned(w)'
<1>1. MayCount(w)' \in SUBSET (MayCount(w) \cup {p})
  BY BecomeOnly DEF MayCount
<1>2. /\ IsFiniteSet(MayCount(w) \cup {p})
      /\ Cardinality(MayCount(w) \cup {p}) <= Cardinality(MayCount(w)) + 1
  <2>1. /\ IsFiniteSet(MayCount(w) \cup {p})
        /\ Cardinality(MayCount(w) \cup {p}) = IF p \in MayCount(w) THEN Cardinality(MayCount(w))
                                              ELSE Cardinality(MayCount(w)) + 1
    BY EarningsAreFinite, FS_AddElement
  <2>2. Cardinality(MayCount(w)) \in Nat
    BY EarningsAreFinite
  <2> QED BY <2>1, <2>2
<1>3. Cardinality(MayCount(w)') <= Cardinality(MayCount(w) \cup {p})
  BY <1>1, <1>2, FS_Subset
<1>4. /\ workflows[w].triggers \in Nat /\ Cardinality(MayCount(w) \cup {p}) \in Nat
      /\ Cardinality(MayCount(w)) \in Nat /\ Cardinality(MayCount(w)') \in Nat
  BY <1>2, EarningsAreFinite, FS_CardinalityType DEF TypeInv, TypeOK, WorkflowDoc
<1> QED BY <1>2, <1>3, <1>4 DEF Earned

(* The increment spends what its handler was about to count. *)
LEMMA EarnedSpends ==
  ASSUME IsFiniteSet(Requests), TypeInv, TypeInv', LinkInv, KeepsJobs,
         NEW w \in Workflows, Earned(w),
         succeeded \subseteq succeeded',
         direct'[w] = direct[w], directReports'[w] = directReports[w],
         workflows'[w].triggers <= workflows[w].triggers + 1,
         NEW p \in MayCount(w), NEW f, Become(p, f), ~CountsLater(f, w)
  PROVE  Earned(w)'
<1>1. MayCount(w)' = MayCount(w) \ {p}
  BY BecomeOnly DEF MayCount
<1>2. Cardinality(MayCount(w)') = Cardinality(MayCount(w)) - 1
  BY <1>1, EarningsAreFinite, FS_RemoveElement
<1>3. /\ workflows[w].triggers \in Nat /\ workflows'[w].triggers \in Nat
      /\ Cardinality(MayCount(w)) \in Nat
  BY EarningsAreFinite DEF TypeInv, TypeOK, WorkflowDoc
<1>4. Earnings(w)' >= Earnings(w) /\ Earnings(w) \in Nat /\ Earnings(w)' \in Nat
  BY EarningsKept
<1> QED BY <1>2, <1>3, <1>4 DEF Earned

(* The steps of dispatch are never about to count. *)
LEMMA DispatchEarnsNothing ==
  ASSUME TypeInv, NEW p \in Handlers, DispatchStep(p)
  PROVE  /\ KeepsJobs /\ UNCHANGED <<reports, succeeded, direct, directReports>>
         /\ \A w \in Workflows : workflows'[w].triggers = workflows[w].triggers
         /\ \E f : Become(p, f) /\ f.step \notin LateSteps
<1> USE DEF At
<1> DEFINE Fine(f) == f.step \notin LateSteps
<1>0. /\ Fine(Idle) /\ frames[p] \in Frame
      /\ \A o, n : Fine(Finishing(frames[p], o, n))
  BY DEF Idle, Finishing, LateSteps, TypeInv, TypeOK
<1>same. UNCHANGED <<jobs, created>> => KeepsJobs
  BY DEF KeepsJobs, TypeInv, TypeOK
<1>ends. Throw(p) \/ DispatchReturns(p) => \E f : Become(p, f) /\ Fine(f)
  <2>1. \A s \in {"worker.nack", "worker.ack", "run.reload"} :
           Fine([Idle EXCEPT !.step = s, !.job = frames[p].job, !.workflow = frames[p].workflow])
    BY DEF Idle, LateSteps
  <2>2. Throw(p) \/ DispatchReturns(p) =>
           \/ Become(p, Idle)
           \/ \E s \in {"worker.nack", "worker.ack", "run.reload"} :
                 Become(p, [Idle EXCEPT !.step = s, !.job = frames[p].job,
                                        !.workflow = frames[p].workflow])
    BY DEF Throw, DispatchReturns
  <2> HIDE DEF Fine
  <2> QED BY <1>0, <2>1, <2>2
<1>1. CASE CredentialMissing(p) \/ WorkflowGone(p) \/ AnswerOk(p) \/ FinishReread(p)
  <2>1. /\ Throw(p) \/ DispatchReturns(p)
        /\ UNCHANGED <<workflows, jobs, created, reports, succeeded, direct, directReports>>
    BY <1>1 DEF CredentialMissing, WorkflowGone, AnswerOk, FinishReread, store, n8n
  <2> QED BY <1>same, <1>ends, <2>1
<1>2. CASE DispatchLoad(p) \/ PostAccepted(p) \/ PostRefused(p) \/ AnswerLost(p) \/ FinishLoad(p)
  <2> DEFINE a == [frames[p] EXCEPT !.step = "dispatch.start", !.jobDoc = jobs[frames[p].job]]
             b == [frames[p] EXCEPT !.step = "dispatch.await"]
             c == [frames[p] EXCEPT !.step = "dispatch.fail"]
             d == [frames[p] EXCEPT !.step = "finish.save",
                                    !.workflowDoc = workflows[frames[p].workflow]]
  <2>1. Fine(a) /\ Fine(b) /\ Fine(c) /\ Fine(d)
    BY <1>0 DEF Frame, LateSteps
  <2>2. /\ \E f \in {a, b, c, d} : Become(p, f)
        /\ UNCHANGED <<workflows, jobs, created, reports, succeeded, direct, directReports>>
    BY <1>2 DEF DispatchLoad, PostAccepted, PostRefused, AnswerLost, FinishLoad, Goto, store, n8n
  <2> HIDE DEF a, b, c, d, Fine
  <2>3. \E f : Become(p, f) /\ Fine(f)
    BY <2>1, <2>2
  <2> QED BY <1>same, <2>2, <2>3 DEF Fine
<1>3. CASE DispatchStart(p) \/ DispatchFail(p)
  <2> DEFINE a == [frames[p] EXCEPT !.step = "dispatch.post",
                                    !.jobDoc = [frames[p].jobDoc EXCEPT !.status = "processing"]]
             b == Finishing(frames[p], "failed", TRUE)
  <2>1. Fine(a) /\ Fine(b)
    BY <1>0 DEF Frame, LateSteps
  <2>2. /\ \E f \in {a, b} : Become(p, f)
        /\ UNCHANGED <<workflows, created, reports, succeeded, direct, directReports>>
        /\ \E doc, loaded : jobs' = [jobs EXCEPT ![frames[p].job] =
                                        SaveJob(doc, loaded, jobs[frames[p].job])]
    BY <1>3 DEF DispatchStart, DispatchFail, n8n
  <2> HIDE DEF a, b, Fine
  <2>3. (\E f : Become(p, f) /\ Fine(f)) /\ KeepsJobs
    BY <2>1, <2>2, SaveKeepsJobs
  <2> QED BY <2>2, <2>3 DEF Fine
<1>4. CASE FinishSave(p)
  <2> DEFINE a == [frames[p] EXCEPT !.step = "finish.reread", !.workflowDoc = NullWorkflowDoc]
  <2>1. Fine(a)
    BY <1>0 DEF Frame, LateSteps
  <2>2. /\ \E f \in {a, Idle} : Become(p, f)
        /\ UNCHANGED <<jobs, created, reports, succeeded, direct, directReports>>
    BY <1>4 DEF FinishSave, n8n
  <2> HIDE DEF a, Fine
  <2>3. \E f : Become(p, f) /\ Fine(f)
    BY <1>0, <2>1, <2>2
  <2> QED BY <1>4, <1>same, <2>2, <2>3, SavesKeepTriggers DEF Fine
<1> QED
  BY <1>1, <1>2, <1>3, <1>4 DEF DispatchStep

(* Nor are those of a run or an edit. *)
LEMMA RequestEarnsNothing ==
  ASSUME TypeInv, LinkInv, NEW p \in Requests,
         \/ \E w \in Workflows : Run(p, w) \/ SetStatus(p, w)
         \/ RunMark(p) \/ RunReread(p) \/ RunCreate(p) \/ RunEnqueue(p) \/ RunReload(p)
         \/ RunEnqueueFails(p) \/ StatusSave(p)
  PROVE  /\ KeepsJobs /\ UNCHANGED <<reports, succeeded, direct, directReports>>
         /\ \A w \in Workflows : workflows'[w].triggers = workflows[w].triggers
         /\ \E f : Become(p, f) /\ f.step \notin LateSteps
<1> USE DEF At
<1> DEFINE Fine(f) == f.step \notin LateSteps
<1>0. /\ Fine(Idle) /\ frames[p] \in Frame /\ p \in Handlers
      /\ \A o, n : Fine(Finishing(frames[p], o, n))
  BY DEF Idle, Finishing, LateSteps, TypeInv, TypeOK, Handlers
<1>same. UNCHANGED <<jobs, created>> => KeepsJobs
  BY DEF KeepsJobs, TypeInv, TypeOK
<1>1. ASSUME NEW w \in Workflows, Run(p, w) \/ SetStatus(p, w)
      PROVE  /\ UNCHANGED <<workflows, jobs, created, reports, succeeded, direct, directReports>>
             /\ \E f : Become(p, f) /\ Fine(f)
  <2> DEFINE a == [Idle EXCEPT !.step = "run.mark", !.workflow = w, !.workflowDoc = workflows[w]]
             b == [Idle EXCEPT !.step = "status.save", !.workflow = w, !.workflowDoc = workflows[w]]
  <2>1. Fine(a) /\ Fine(b)
    BY DEF Idle, LateSteps
  <2>2. /\ \E f \in {a, b} : Become(p, f)
        /\ UNCHANGED <<workflows, jobs, created, reports, succeeded, direct, directReports>>
    BY <1>1 DEF Run, SetStatus, store, n8n
  <2> HIDE DEF a, b, Fine
  <2> QED BY <2>1, <2>2
<1>2. CASE RunMark(p) \/ StatusSave(p)
  <2> DEFINE a == [Idle EXCEPT !.step = "run.reread", !.workflow = frames[p].workflow]
  <2>1. Fine(a)
    BY DEF Idle, LateSteps
  <2>2. /\ \E f \in {a, Idle} : Become(p, f)
        /\ UNCHANGED <<jobs, created, reports, succeeded, direct, directReports>>
    BY <1>2 DEF RunMark, StatusSave, n8n
  <2> HIDE DEF a, Fine
  <2>3. \E f : Become(p, f) /\ Fine(f)
    BY <1>0, <2>1, <2>2
  <2> QED BY <1>0, <1>2, <1>same, <2>2, <2>3, SavesKeepTriggers DEF Fine
<1>3. CASE RunReread(p) \/ RunEnqueue(p) \/ RunReload(p) \/ RunEnqueueFails(p)
  <2> DEFINE a == [frames[p] EXCEPT !.step = "run.create"]
             b == Finishing(frames[p], "failed", FALSE)
  <2>1. Fine(a) /\ Fine(b)
    BY <1>0 DEF Frame, LateSteps
  <2>2. /\ \E f \in {a, b, Idle} : Become(p, f)
        /\ UNCHANGED <<workflows, jobs, created, reports, succeeded, direct, directReports>>
    BY <1>3 DEF RunReread, RunEnqueue, RunReload, RunEnqueueFails, Goto, store, n8n
  <2> HIDE DEF a, b, Fine
  <2>3. \E f : Become(p, f) /\ Fine(f)
    BY <1>0, <2>1, <2>2
  <2> QED BY <1>same, <2>2, <2>3 DEF Fine
<1>4. CASE RunCreate(p)
  <2> DEFINE a == [Idle EXCEPT !.step = IF QueueEnabled THEN "run.enqueue" ELSE "dispatch.load",
                               !.workflow = frames[p].workflow, !.job = created + 1]
  <2>1. Fine(a)
    BY DEF Idle, LateSteps
  <2>2. /\ Become(p, a) /\ InsertJob(frames[p].workflow, "queued")
        /\ UNCHANGED <<workflows, reports, succeeded, direct, directReports>>
        /\ frames[p].step = "run.create"
    BY <1>4 DEF RunCreate, n8n
  <2>3. frames[p].workflow \in Workflows
    BY <1>0, <2>2 DEF LinkInv, FramesLinked, Linked
  <2> HIDE DEF a, Fine
  <2>4. (\E f : Become(p, f) /\ Fine(f)) /\ KeepsJobs
    BY <2>1, <2>2, <2>3, InsertKeepsJobs DEF JobStatuses
  <2> QED BY <2>2, <2>4 DEF Fine
<1> HIDE DEF Fine
<1>5. CASE \E w \in Workflows : Run(p, w) \/ SetStatus(p, w)
  <2>1. /\ UNCHANGED <<workflows, jobs, created, reports, succeeded, direct, directReports>>
        /\ \E f : Become(p, f) /\ Fine(f)
    BY <1>1, <1>5
  <2> QED BY <1>same, <2>1 DEF Fine
<1> QED
  BY <1>2, <1>3, <1>4, <1>5

(* A report that is still on its way to the counter stays with its workflow. *)
LEMMA ReportsHandOn ==
  ASSUME TypeInv, LinkInv, NEW p \in Requests, ReportLatest(p) \/ ReportSave(p)
  PROVE  /\ KeepsJobs /\ UNCHANGED <<workflows, reports, succeeded, direct, directReports>>
         /\ \E f : Become(p, f) /\ \A w : CountsLater(f, w) => CountsLater(frames[p], w)
<1> USE DEF At
<1> DEFINE v == frames[p].workflow
           o == frames[p].outcome
           Fine(f) == \A w : CountsLater(f, w) => CountsLater(frames[p], w)
<1>0. /\ Fine(Idle) /\ frames[p] \in Frame
      /\ \A out, n : Fine(Finishing(frames[p], out, n))
  BY DEF Idle, Finishing, CountsLater, TypeInv, TypeOK, Handlers
<1>1. CASE ReportLatest(p)
  <2> DEFINE c == [frames[p] EXCEPT !.step = "report.count"]
             d == Finishing(frames[p], "failed", FALSE)
  <2>1. /\ frames[p].step = "report.latest"
        /\ UNCHANGED <<workflows, jobs, created, reports, succeeded, direct, directReports>>
    BY <1>1 DEF ReportLatest, store, n8n
  <2>2. ASSUME NEW j \in JobsOf(v) PROVE Fine(Found(j, o))
    BY <1>0, <2>1 DEF Found, Idle, CountsLater, JobsOf
  <2>3. o = "completed" => Fine(c)
    BY <1>0, <2>1 DEF Frame, CountsLater
  <2>4. \/ \E j \in JobsOf(v) : Become(p, Found(j, o))
        \/ o = "completed" /\ Become(p, c)
        \/ \E f \in {Idle, d} : Become(p, f)
    BY <1>1 DEF ReportLatest
  <2> HIDE DEF c, Fine
  <2>5. \E f : Become(p, f) /\ Fine(f)
    BY <1>0, <2>2, <2>3, <2>4
  <2>6. KeepsJobs
    BY <2>1 DEF KeepsJobs, TypeInv, TypeOK
  <2> QED BY <2>1, <2>5, <2>6 DEF Fine
<1>2. CASE ReportSave(p)
  <2> DEFINE c == [Idle EXCEPT !.step = "report.count", !.job = frames[p].job,
                               !.workflow = v, !.outcome = o]
             d == Finishing(frames[p], o, FALSE)
  <2>1. /\ frames[p].step = "report.save"
        /\ UNCHANGED <<workflows, created, reports, succeeded, direct, directReports>>
        /\ \E doc, loaded : jobs' = [jobs EXCEPT ![frames[p].job] =
                                        SaveJob(doc, loaded, jobs[frames[p].job])]
    BY <1>2 DEF ReportSave, n8n
  <2>2. o = "completed" => Fine(c)
    BY <2>1 DEF Idle, CountsLater
  <2>3. (o = "completed" /\ Become(p, c)) \/ Become(p, d)
    BY <1>2 DEF ReportSave
  <2> HIDE DEF c, Fine
  <2>4. \E f : Become(p, f) /\ Fine(f)
    BY <1>0, <2>2, <2>3
  <2>5. KeepsJobs
    BY <2>1, SaveKeepsJobs
  <2> QED BY <2>1, <2>4, <2>5 DEF Fine
<1> QED
  BY <1>1, <1>2

LEMMA IncrementOnce ==
  ASSUME TypeInv, NEW v \in Workflows, Increment(v)
  PROVE  workflows'[v].triggers <= workflows[v].triggers + 1
<1>1. workflows[v].triggers \in Nat
  BY DEF TypeInv, TypeOK, WorkflowDoc
<1>2. CASE v \in live
  BY <1>1, <1>2, IncrementRaises
<1>3. CASE v \notin live
  BY <1>1, <1>3 DEF Increment
<1> QED BY <1>2, <1>3

LEMMA CountEarned ==
  ASSUME IsFiniteSet(Requests), TypeInv, TypeInv', LinkInv, NEW w \in Workflows, Earned(w),
         NEW p \in Requests, ReportCount(p) \/ TriggerAnswered(p)
  PROVE  Earned(w)'
<1> USE DEF At
<1> DEFINE v == frames[p].workflow
<1>1. /\ p \in Handlers /\ frames[p].step \in {"report.count", "trigger.await"} /\ v \in Workflows
      /\ UNCHANGED <<jobs, created, succeeded, direct, directReports>>
      /\ Increment(v) \/ UNCHANGED workflows
  BY DEF ReportCount, TriggerAnswered, n8n, Handlers, LinkInv, FramesLinked, Linked
<1>2. KeepsJobs
  BY <1>1 DEF KeepsJobs, TypeInv, TypeOK
<1>3. PICK f : Become(p, f) /\ ~CountsLater(f, w)
  <2>1. ~CountsLater(Idle, w) /\ ~CountsLater(Finishing(frames[p], "completed", FALSE), w)
    BY DEF CountsLater, Idle, Finishing
  <2> QED BY <2>1 DEF ReportCount, TriggerAnswered
<1>4. workflows[w].triggers \in Nat
  BY DEF TypeInv, TypeOK, WorkflowDoc
<1>5. CASE w = v
  <2>1. p \in MayCount(w)
    BY <1>1, <1>5 DEF MayCount, CountsLater
  <2>2. workflows'[w].triggers <= workflows[w].triggers + 1
    BY <1>1, <1>4, <1>5, IncrementOnce
  <2> QED BY <1>1, <1>2, <1>3, <2>1, <2>2, EarnedSpends
<1>6. CASE w # v
  <2>1. workflows'[w].triggers = workflows[w].triggers
    BY <1>1, <1>6, IncrementRaises
  <2> QED BY <1>1, <1>2, <1>3, <2>1, EarnedQuiet
<1> QED BY <1>5, <1>6

LEMMA TriggerEarned ==
  ASSUME IsFiniteSet(Requests), TypeInv, TypeInv', LinkInv, NEW w \in Workflows, Earned(w),
         NEW p \in Requests, NEW v \in Workflows, Trigger(p, v)
  PROVE  Earned(w)'
<1> DEFINE f == [Idle EXCEPT !.step = "trigger.await", !.workflow = v]
<1>1. f.workflow = v
  BY DEF Idle
<1>2. /\ UNCHANGED <<workflows, jobs, created, succeeded, directReports>> /\ p \in Handlers
      /\ direct' = [direct EXCEPT ![v] = @ + 1] /\ direct \in [Workflows -> Nat]
      /\ Become(p, f)
  BY DEF Trigger, store, Handlers, TypeInv, TypeOK
<1> HIDE DEF f
<1>3. KeepsJobs
  BY <1>2 DEF KeepsJobs, TypeInv, TypeOK
<1>4. CASE w = v
  <2>1. JobsOf(w)' = JobsOf(w) /\ directReports[w] \in Nat /\ direct[w] \in Nat
        /\ direct'[w] = direct[w] + 1
    BY <1>2, <1>4 DEF JobsOf, TypeInv, TypeOK
  <2>2. Cardinality(JobsOf(w) \cap succeeded) \in Nat
    BY EarningsAreFinite
  <2>3. Earnings(w) \in Nat /\ Earnings(w)' = Earnings(w) + 1
    BY <1>2, <2>1, <2>2 DEF Earnings
  <2> QED BY <1>2, <2>3, EarnedGains
<1>5. CASE w # v
  <2>1. direct'[w] = direct[w] /\ ~CountsLater(f, w)
    BY <1>1, <1>2, <1>5 DEF CountsLater
  <2> QED BY <1>2, <1>3, <2>1, EarnedQuiet
<1> QED BY <1>4, <1>5

(* A report is about the workflow it names. *)
About(f, v, o) == \A w : CountsLater(f, w) => w = v /\ o = "completed"

LEMMA FoundAbout ==
  ASSUME NEW v, NEW o, NEW j, jobs[j].workflowId = v
  PROVE  About(Found(j, o), v, o)
  BY DEF About, Found, Idle, CountsLater

LEMMA FindActiveAbout ==
  ASSUME NEW p, NEW v, NEW o, FindActive(p, v, o)
  PROVE  \E f : Become(p, f) /\ About(f, v, o)
<1> DEFINE g == [Idle EXCEPT !.step = "report.latest", !.workflow = v, !.outcome = o]
<1>1. About(g, v, o)
  BY DEF About, Idle, CountsLater
<1>2. Become(p, g) \/ \E j : jobs[j].workflowId = v /\ Become(p, Found(j, o))
  BY DEF FindActive, ActiveJobs
<1> HIDE DEF g
<1> QED BY <1>1, <1>2, FoundAbout

LEMMA ReportEarned ==
  ASSUME IsFiniteSet(Requests), ReportsPerExecution <= 1, TypeInv, TypeInv', LinkInv, OnceInv,
         SuccessesReported, NEW w \in Workflows, Earned(w),
         NEW p \in Requests, NEW j \in JobIds, NEW o \in Outcomes, Report(p, j, o)
  PROVE  Earned(w)'
<1>0. PICK v : v = jobs[j].workflowId
  OBVIOUS
<1>1. PICK f : Become(p, f) /\ About(f, v, o)
  <2>1. FindActive(p, v, o) \/ Become(p, Found(j, o))
    BY <1>0 DEF Report
  <2>2. CASE FindActive(p, v, o)
    BY <2>2, FindActiveAbout
  <2>3. CASE Become(p, Found(j, o))
    BY <1>0, <2>3, FoundAbout
  <2> QED BY <2>1, <2>2, <2>3
<1>2. /\ UNCHANGED <<workflows, jobs, created, direct, directReports>> /\ p \in Handlers
      /\ succeeded' = IF o = "completed" THEN succeeded \cup {j} ELSE succeeded
      /\ reports[j] < posts[j] * ReportsPerExecution
  BY DEF Report, store, Handlers
<1>3. KeepsJobs
  BY <1>2 DEF KeepsJobs, TypeInv, TypeOK
<1>4. CASE w = v /\ o = "completed"
  <2>1. j \notin succeeded
    <3>1. posts[j] \in {0, 1} /\ reports[j] \in Nat /\ ReportsPerExecution \in {0, 1}
      <4>1. posts[j] \in Nat /\ posts[j] <= 1 /\ reports[j] \in Nat
        BY DEF OnceInv, OnceEntries, TypeInv, TypeOK
      <4> QED BY <4>1, BoundsAssumption
    <3>2. posts[j] * ReportsPerExecution <= 1
      BY <3>1
    <3> QED BY <1>2, <3>1, <3>2 DEF SuccessesReported
  <2>2. (JobsOf(w) \cap succeeded)' = (JobsOf(w) \cap succeeded) \cup {j}
        /\ j \notin JobsOf(w) \cap succeeded
    BY <1>0, <1>2, <1>4, <2>1 DEF JobsOf
  <2>3. Cardinality((JobsOf(w) \cap succeeded)') = Cardinality(JobsOf(w) \cap succeeded) + 1
    BY <2>2, EarningsAreFinite, FS_AddElement
  <2>4. Cardinality(JobsOf(w) \cap succeeded) \in Nat
    BY EarningsAreFinite
  <2>5. direct[w] \in Nat /\ directReports[w] \in Nat
    BY DEF TypeInv, TypeOK
  <2>6. Earnings(w) \in Nat /\ Earnings(w)' = Earnings(w) + 1
    BY <1>2, <2>3, <2>4, <2>5 DEF Earnings
  <2> QED BY <1>1, <1>2, <2>6, EarnedGains
<1>5. CASE ~(w = v /\ o = "completed")
  <2>1. ~CountsLater(f, w) /\ succeeded \subseteq succeeded'
    BY <1>1, <1>2, <1>5 DEF About
  <2> QED BY <1>1, <1>2, <1>3, <2>1, EarnedQuiet
<1> QED BY <1>4, <1>5

LEMMA ReportDirectEarned ==
  ASSUME IsFiniteSet(Requests), TypeInv, TypeInv', LinkInv, NEW w \in Workflows, Earned(w),
         NEW p \in Requests, NEW v \in Workflows, NEW o \in Outcomes, ReportDirect(p, v, o)
  PROVE  Earned(w)'
<1>1. PICK f : Become(p, f) /\ About(f, v, o)
  <2>1. FindActive(p, v, o)
    BY DEF ReportDirect
  <2> QED BY <2>1, FindActiveAbout
<1>2. /\ UNCHANGED <<workflows, jobs, created, succeeded, direct>> /\ p \in Handlers
      /\ directReports' = [directReports EXCEPT ![v] = @ + 1]
      /\ directReports \in [Workflows -> Nat]
  BY DEF ReportDirect, store, Handlers, TypeInv, TypeOK
<1>3. KeepsJobs
  BY <1>2 DEF KeepsJobs, TypeInv, TypeOK
<1>4. CASE w = v
  <2>1. JobsOf(w)' = JobsOf(w) /\ directReports[w] \in Nat /\ direct[w] \in Nat
        /\ directReports'[w] = directReports[w] + 1
    BY <1>2, <1>4 DEF JobsOf, TypeInv, TypeOK
  <2>2. Cardinality(JobsOf(w) \cap succeeded) \in Nat
    BY EarningsAreFinite
  <2>3. Earnings(w) \in Nat /\ Earnings(w)' = Earnings(w) + 1
    BY <1>2, <2>1, <2>2 DEF Earnings
  <2> QED BY <1>1, <1>2, <2>3, EarnedGains
<1>5. CASE w # v
  <2>1. directReports'[w] = directReports[w] /\ ~CountsLater(f, w)
    BY <1>1, <1>2, <1>5 DEF About
  <2> QED BY <1>1, <1>2, <1>3, <2>1, EarnedQuiet
<1> QED BY <1>4, <1>5

LEMMA SuccessesStep ==
  ASSUME TypeInv, LinkInv, SuccessesReported, [Next]_vars
  PROVE  SuccessesReported'
<1>same. UNCHANGED <<reports, succeeded>> => SuccessesReported'
  BY DEF SuccessesReported
<1>1. ASSUME NEW p \in Requests, NEW j \in JobIds, NEW o \in Outcomes, Report(p, j, o)
      PROVE  SuccessesReported'
  <2>1. /\ reports' = [reports EXCEPT ![j] = @ + 1] /\ reports \in [JobIds -> Nat]
        /\ succeeded' \subseteq succeeded \cup {j} /\ succeeded \subseteq JobIds
    BY <1>1 DEF Report, TypeInv, TypeOK
  <2> QED BY <2>1 DEF SuccessesReported
<1>2. ASSUME NEW p \in Handlers, DispatchStep(p) PROVE SuccessesReported'
  BY <1>2, <1>same, DispatchEarnsNothing
<1>3. ASSUME NEW p \in Requests, ReportLatest(p) \/ ReportSave(p) PROVE SuccessesReported'
  BY <1>3, <1>same, ReportsHandOn
<1>4. ASSUME NEW p \in Requests, RequestStep(p) \/ RunEnqueueFails(p) PROVE SuccessesReported'
  <2>1. CASE ReportCount(p) \/ TriggerAnswered(p)
    BY <1>same, <2>1 DEF ReportCount, TriggerAnswered, n8n
  <2>2. CASE \/ RunMark(p) \/ RunReread(p) \/ RunCreate(p) \/ RunEnqueue(p) \/ RunReload(p)
             \/ RunEnqueueFails(p) \/ StatusSave(p)
    BY <1>same, <2>2, RequestEarnsNothing
  <2> QED BY <1>2, <1>3, <1>4, <2>1, <2>2 DEF RequestStep, Handlers
<1>5. ASSUME NEW p \in Requests, Arrival(p) PROVE SuccessesReported'
  <2>1. ASSUME NEW w \in Workflows, Run(p, w) \/ SetStatus(p, w) \/ Trigger(p, w)
        PROVE  SuccessesReported'
    BY <1>same, <2>1 DEF Run, SetStatus, Trigger, n8n
  <2>2. ASSUME NEW w \in Workflows, NEW o \in Outcomes, ReportDirect(p, w, o)
        PROVE  SuccessesReported'
    BY <1>same, <2>2 DEF ReportDirect
  <2> QED BY <1>1, <1>5, <2>1, <2>2 DEF Arrival
<1>6. CASE WorkerAck \/ WorkerNack \/ (\E j \in JobIds : WorkerTake(j)) \/ Crash \/ UNCHANGED vars
  BY <1>6, <1>same DEF WorkerAck, WorkerNack, WorkerTake, Crash, vars, n8n
<1>7. CASE \E w \in Workflows : CreateDraft(w) \/ Remove(w)
  BY <1>7, <1>same DEF CreateDraft, Remove, n8n
<1> QED
  BY <1>2, <1>4, <1>5, <1>6, <1>7 DEF Next, WorkerStep, Handlers

LEMMA EarnedStep ==
  ASSUME IsFiniteSet(Requests), ReportsPerExecution <= 1
  PROVE  TypeInv /\ TypeInv' /\ LinkInv /\ OnceInv /\ EarnedInv /\ [Next]_vars => EarnedInv'
<1> SUFFICES ASSUME TypeInv, TypeInv', LinkInv, OnceInv, EarnedInv, [Next]_vars
             PROVE  EarnedInv'
  OBVIOUS
<1>0. SuccessesReported' /\ SuccessesReported
  BY SuccessesStep DEF EarnedInv
<1> SUFFICES ASSUME NEW w \in Workflows PROVE Earned(w)'
  BY <1>0 DEF EarnedInv
<1>w. Earned(w)
  BY DEF EarnedInv
<1>same. UNCHANGED <<jobs, created>> => KeepsJobs
  BY DEF KeepsJobs, TypeInv, TypeOK
<1>quiet. ASSUME NEW p \in Handlers, KeepsJobs, UNCHANGED <<succeeded, direct, directReports>>,
                 \A v \in Workflows : workflows'[v].triggers = workflows[v].triggers,
                 \E f : Become(p, f) /\ f.step \notin LateSteps
          PROVE  Earned(w)'
  <2>1. PICK f : Become(p, f) /\ f.step \notin LateSteps
    BY <1>quiet
  <2>2. ~CountsLater(f, w)
    BY <2>1 DEF CountsLater, LateSteps
  <2> QED BY <1>w, <1>quiet, <2>1, <2>2, EarnedQuiet
<1>1. ASSUME NEW p \in Handlers, DispatchStep(p) PROVE Earned(w)'
  BY <1>1, <1>quiet, DispatchEarnsNothing
<1>2. ASSUME NEW p \in Requests, Arrival(p) PROVE Earned(w)'
  <2>1. CASE \E v \in Workflows : Run(p, v) \/ SetStatus(p, v)
    BY <1>quiet, <2>1, RequestEarnsNothing DEF Handlers
  <2>2. ASSUME NEW v \in Workflows, Trigger(p, v) PROVE Earned(w)'
    BY <1>w, <2>2, TriggerEarned
  <2>3. ASSUME NEW j \in JobIds, NEW o \in Outcomes, Report(p, j, o) PROVE Earned(w)'
    BY <1>0, <1>w, <2>3, ReportEarned
  <2>4. ASSUME NEW v \in Workflows, NEW o \in Outcomes, ReportDirect(p, v, o) PROVE Earned(w)'
    BY <1>w, <2>4, ReportDirectEarned
  <2> QED BY <1>2, <2>1, <2>2, <2>3, <2>4 DEF Arrival
<1>3. ASSUME NEW p \in Requests, RequestStep(p) \/ RunEnqueueFails(p) PROVE Earned(w)'
  <2>0. p \in Handlers
    BY DEF Handlers
  <2>1. CASE ReportCount(p) \/ TriggerAnswered(p)
    BY <1>w, <2>1, CountEarned
  <2>2. CASE ReportLatest(p) \/ ReportSave(p)
    <3>1. PICK f : Become(p, f) /\ (CountsLater(f, w) => CountsLater(frames[p], w))
      BY <2>2, ReportsHandOn
    <3>2. KeepsJobs /\ UNCHANGED <<workflows, succeeded, direct, directReports>>
      BY <2>2, ReportsHandOn
    <3> QED BY <1>w, <2>0, <3>1, <3>2, EarnedQuiet
  <2>3. CASE \/ RunMark(p) \/ RunReread(p) \/ RunCreate(p) \/ RunEnqueue(p) \/ RunReload(p)
             \/ RunEnqueueFails(p) \/ StatusSave(p)
    BY <1>quiet, <2>0, <2>3, RequestEarnsNothing
  <2> QED BY <1>1, <1>3, <2>0, <2>1, <2>2, <2>3 DEF RequestStep
<1>4. CASE WorkerAck \/ WorkerNack \/ \E j \in JobIds : WorkerTake(j)
  <2>1. UNCHANGED <<workflows, jobs, created, succeeded, direct, directReports>>
    BY <1>4 DEF WorkerAck, WorkerNack, WorkerTake, n8n
  <2>2. \E f : Become(Worker, f) /\ f.step \notin LateSteps
    <3> DEFINE g(j) == [Idle EXCEPT !.step = "dispatch.load", !.job = j,
                                    !.workflow = jobs[j].workflowId]
    <3>1. Idle.step \notin LateSteps /\ \A j : g(j).step \notin LateSteps
      BY DEF Idle, LateSteps
    <3>2. Become(Worker, Idle) \/ \E j : Become(Worker, g(j))
      BY <1>4 DEF WorkerAck, WorkerNack, WorkerTake
    <3> HIDE DEF g
    <3> QED BY <3>1, <3>2
  <2> QED BY <1>quiet, <1>same, <2>1, <2>2 DEF Handlers
<1>5. ASSUME KeepsJobs, UNCHANGED <<workflows, frames, n8n>> PROVE Earned(w)'
  <2>1. MayCount(w)' = MayCount(w)
    BY <1>5 DEF MayCount
  <2> QED BY <1>5, <1>w, <2>1, EarnedKept DEF n8n
<1>6. ASSUME NEW v \in Workflows, CreateDraft(v) \/ Remove(v) PROVE Earned(w)'
  <2>1. KeepsJobs
    BY <1>6, <1>same, InsertKeepsJobs DEF CreateDraft, Remove, JobStatuses
  <2> QED BY <1>5, <1>6, <2>1 DEF CreateDraft, Remove
<1>7. CASE Crash
  <2>1. MayCount(w)' = {}
    BY <1>7 DEF Crash, MayCount, CountsLater, Idle
  <2>2. KeepsJobs /\ UNCHANGED <<workflows, succeeded, direct, directReports>>
    BY <1>7, <1>same DEF Crash, n8n
  <2> QED BY <1>w, <2>1, <2>2, EarnedKept
<1>8. CASE UNCHANGED vars
  BY <1>5, <1>8, <1>same DEF vars, store
<1> QED
  BY <1>1, <1>2, <1>3, <1>4, <1>6, <1>7, <1>8 DEF Next, WorkerStep, Handlers

LEMMA EarnedInit == ASSUME Init PROVE EarnedInv
<1>1. SuccessesReported
  BY DEF Init, SuccessesReported
<1>2. ASSUME NEW w \in Workflows PROVE Earned(w)
  <2>1. JobsOf(w) \cap succeeded = {} /\ MayCount(w) = {}
    BY DEF Init, MayCount, CountsLater, Idle
  <2>2. workflows[w].triggers = 0 /\ direct[w] = 0 /\ directReports[w] = 0
    BY DEF Init
  <2> QED BY <2>1, <2>2, FS_EmptySet DEF Earned, Earnings
<1> QED BY <1>1, <1>2 DEF EarnedInv

(* No direct trigger is reported twice. *)
DirectInv == \A w \in Workflows : directReports[w] <= direct[w]

LEMMA DirectStep ==
  ASSUME ReportsPerExecution <= 1
  PROVE  TypeInv /\ LinkInv /\ DirectInv /\ [Next]_vars => DirectInv'
<1> SUFFICES ASSUME TypeInv, LinkInv, DirectInv, [Next]_vars PROVE DirectInv'
  OBVIOUS
<1>0. direct \in [Workflows -> Nat] /\ directReports \in [Workflows -> Nat]
  BY DEF TypeInv, TypeOK
<1>same. UNCHANGED <<direct, directReports>> => DirectInv'
  BY DEF DirectInv
<1>1. ASSUME NEW p \in Requests, NEW v \in Workflows, Trigger(p, v) PROVE DirectInv'
  <2>1. direct' = [direct EXCEPT ![v] = direct[v] + 1] /\ UNCHANGED directReports
    BY <1>1 DEF Trigger
  <2> QED BY <1>0, <2>1 DEF DirectInv
<1>2. ASSUME NEW p \in Requests, NEW v \in Workflows, NEW o \in Outcomes, ReportDirect(p, v, o)
      PROVE  DirectInv'
  <2>1. /\ directReports' = [directReports EXCEPT ![v] = directReports[v] + 1]
        /\ UNCHANGED direct /\ directReports[v] < direct[v] * ReportsPerExecution
    BY <1>2 DEF ReportDirect
  <2>2. direct[v] \in Nat /\ directReports[v] \in Nat /\ ReportsPerExecution \in {0, 1}
    BY <1>0, BoundsAssumption
  <2>3. direct[v] * ReportsPerExecution <= direct[v]
    BY <2>2
  <2>4. directReports[v] + 1 <= direct[v]
    BY <2>1, <2>2, <2>3
  <2> QED BY <1>0, <2>1, <2>4 DEF DirectInv
<1>3. ASSUME NEW p \in Handlers, DispatchStep(p) PROVE DirectInv'
  BY <1>3, <1>same, DispatchEarnsNothing
<1>4. ASSUME NEW p \in Requests, RequestStep(p) \/ RunEnqueueFails(p) PROVE DirectInv'
  <2>1. CASE ReportCount(p) \/ TriggerAnswered(p)
    <3>1. UNCHANGED <<direct, directReports>>
      BY <2>1 DEF ReportCount, TriggerAnswered, n8n
    <3> QED BY <1>same, <3>1
  <2>2. CASE \/ RunMark(p) \/ RunReread(p) \/ RunCreate(p) \/ RunEnqueue(p) \/ RunReload(p)
             \/ RunEnqueueFails(p) \/ StatusSave(p)
    <3>1. UNCHANGED <<direct, directReports>>
      BY <2>2, RequestEarnsNothing
    <3> QED BY <1>same, <3>1
  <2>3. CASE ReportLatest(p) \/ ReportSave(p)
    BY <1>same, <2>3 DEF ReportLatest, ReportSave, n8n
  <2> QED BY <1>3, <1>4, <2>1, <2>2, <2>3 DEF RequestStep, Handlers
<1>5. ASSUME NEW p \in Requests, Arrival(p) PROVE DirectInv'
  <2>1. ASSUME NEW w \in Workflows, Run(p, w) \/ SetStatus(p, w) PROVE DirectInv'
    BY <1>same, <2>1 DEF Run, SetStatus, n8n
  <2>2. ASSUME NEW j \in JobIds, NEW o \in Outcomes, Report(p, j, o) PROVE DirectInv'
    BY <1>same, <2>2 DEF Report
  <2> QED BY <1>1, <1>2, <1>5, <2>1, <2>2 DEF Arrival
<1>6. CASE WorkerAck \/ WorkerNack \/ (\E j \in JobIds : WorkerTake(j)) \/ Crash \/ UNCHANGED vars
  BY <1>6, <1>same DEF WorkerAck, WorkerNack, WorkerTake, Crash, vars, n8n
<1>7. CASE \E w \in Workflows : CreateDraft(w) \/ Remove(w)
  BY <1>7, <1>same DEF CreateDraft, Remove, n8n
<1> QED
  BY <1>3, <1>4, <1>5, <1>6, <1>7 DEF Next, WorkerStep, Handlers

(* When n8n reports every execution at most once and no crash makes the queue
   dispatch a job again, a workflow's counter exceeds its successful jobs by at most
   two for every direct trigger, whether a report names its job or only its workflow
   and however reports, triggers and removals overlap: a job is posted once
   (OnceInv), so each report tells of another success, and every increment on its
   way spends one (EarnedInv).  A direct trigger may earn twice, by its answer and
   by its report: the code counts both.  The slots for requests are finite. *)
THEOREM CountsAreEarned ==
  ASSUME IsFiniteSet(Requests), ReportsPerExecution <= 1, NeverRedelivers
  PROVE  Spec => []TriggersAreEarned
<1>1. Init => EarnedInv /\ DirectInv
  BY EarnedInit DEF Init, DirectInv
<1>2. TypeInv /\ EarnedInv /\ DirectInv => TriggersAreEarned
  <2> SUFFICES ASSUME TypeInv, EarnedInv, DirectInv, NEW w \in live
               PROVE  workflows[w].triggers + Cardinality(Counting(w))
                         <= Cardinality(JobsOf(w) \cap succeeded) + 2 * direct[w]
    BY DEF TriggersAreEarned
  <2>1. /\ w \in Workflows /\ Earned(w) /\ workflows[w].triggers \in Nat
        /\ directReports[w] <= direct[w] /\ direct[w] \in Nat /\ directReports[w] \in Nat
    BY DEF EarnedInv, DirectInv, TypeInv, TypeOK, WorkflowDoc
  <2>2. Counting(w) \subseteq MayCount(w)
    BY DEF Counting, MayCount, CountsLater, At
  <2>3. Cardinality(Counting(w)) <= Cardinality(MayCount(w))
    BY <2>2, EarningsAreFinite, FS_Subset
  <2>4. Cardinality(Counting(w)) \in Nat /\ Cardinality(MayCount(w)) \in Nat
    BY CountsAreFinite, EarningsAreFinite, FS_CardinalityType
  <2>5. Cardinality(JobsOf(w) \cap succeeded) \in Nat
    BY EarningsAreFinite
  <2> QED BY <2>1, <2>3, <2>4, <2>5 DEF Earned, Earnings
<1> QED
  BY <1>1, <1>2, TypeInvariant, LinkInvariant, OnceInvariant, EarnedStep, DirectStep, PTL DEF Spec
=============================================================================
