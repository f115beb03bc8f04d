-------------------------- MODULE JobEventsProofs --------------------------
(* The proofs about the events of jobs, for every value of the constants.  Both
   properties are about the status a handler emits, the one of its own copy of the
   job; CurrentInv says of which copies it is still the status the job has. *)
EXTENDS JobEvents, JobRunsRunningProofs

------------------------------------------------------------------------------
(* Every behaviour with events is one of JobRuns *)

LEMMA EventsStepIsStep == [NextEvents]_<<vars, push>> => [Next]_vars
  BY DEF NextEvents, RunsStep, Emit, EditLoad, EditSave, EditThrows, vars

LEMMA EventsAreRuns == EventsSpec => [](TypeInv /\ LinkInv)
<1>1. InitEvents => Init
  BY DEF InitEvents
<1>2. EventsSpec => Spec
  BY <1>1, EventsStepIsStep, PTL DEF EventsSpec, Spec
<1> QED
  BY <1>2, TypeInvariant, LinkInvariant, PTL

------------------------------------------------------------------------------
(* What the steps of JobRuns do to jobs and to the copies of them *)

(* The steps at which a handler holds a copy of its job. *)
CopySteps == {"dispatch.start", "dispatch.post", "dispatch.await", "dispatch.fail", "report.save"}

(* Handler p keeps all jobs as they are.  A copy it holds afterwards is the job it has
   just read, or the copy it held before. *)
Stays(p) ==
    /\ UNCHANGED jobs
    /\ \/ EventAfter(p) = NoEvent
       \/ /\ frames[p].step = "dispatch.await"
          /\ EventAfter(p) = [job |-> frames[p].job, status |-> frames[p].jobDoc.status]
    /\ frames'[p].step \in CopySteps =>
          \/ /\ frames'[p].job \in JobIds
             /\ frames'[p].jobDoc.status = jobs[frames'[p].job].status
          \/ /\ frames[p].step \in CopySteps
             /\ frames'[p].job = frames[p].job /\ frames'[p].jobDoc = frames[p].jobDoc

(* Handler p saves its copy with status s and emits it. *)
Saves(p, s) ==
    /\ frames[p].step \in CopySteps /\ frames'[p].step # frames[p].step
    /\ \A j \in JobIds : j # frames[p].job => jobs'[j] = jobs[j]
    /\ jobs'[frames[p].job].status =
          Written(s, frames[p].jobDoc.status, jobs[frames[p].job].status)
    /\ EventAfter(p) = [job |-> frames[p].job, status |-> s]
    /\ frames'[p].step \in CopySteps =>
          frames'[p].job = frames[p].job /\ frames'[p].jobDoc.status = s

(* Handler p inserts a queued job and emits it. *)
Creates(p) ==
    /\ frames'[p].step # frames[p].step /\ frames'[p].step \notin CopySteps
    /\ \E w \in Workflows : InsertJob(w, "queued")
    /\ EventAfter(p) = [job |-> created', status |-> "queued"]

SavedStatuses == {"processing", "completed", "failed"}

Moves(p) ==
    /\ \A q \in Handlers : q # p => frames'[q] = frames[q]
    /\ Stays(p) \/ Creates(p) \/ \E s \in SavedStatuses : Saves(p, s)

SilentSteps == Steps \ {"dispatch.start", "dispatch.await", "dispatch.fail", "report.save",
                        "run.create"}

LEMMA EventCases ==
  ASSUME NEW p
  PROVE  /\ frames[p].step \in SilentSteps => EventAfter(p) = NoEvent
         /\ frames[p].step = "dispatch.start" /\ frames'[p].step = "dispatch.post" =>
               EventAfter(p) = [job |-> frames[p].job, status |-> "processing"]
         /\ frames[p].step = "dispatch.await" =>
               \/ EventAfter(p) = NoEvent
               \/ EventAfter(p) = [job |-> frames[p].job, status |-> frames[p].jobDoc.status]
         /\ frames[p].step = "dispatch.fail" /\ frames'[p].step # "dispatch.fail" =>
               EventAfter(p) = [job |-> frames[p].job, status |-> "failed"]
         /\ frames[p].step = "report.save" /\ frames'[p].step # "report.save" =>
               EventAfter(p) = [job |-> frames[p].job, status |-> frames[p].outcome]
         /\ frames[p].step = "run.create" /\ frames'[p].step # "run.create" =>
               EventAfter(p) = [job |-> created', status |-> "queued"]
  BY DEF EventAfter, EventIf, SilentSteps

(* A handler that keeps the jobs, emits nothing and ends without a copy. *)
LEMMA QuietMove ==
  ASSUME TypeInv, NEW p \in Handlers, UNCHANGED jobs, NEW f, Become(p, f),
         f.step \notin CopySteps, frames[p].step \in SilentSteps \cup {"dispatch.await"}
  PROVE  Moves(p)
<1>1. frames'[p] = f /\ \A q \in Handlers : q # p => frames'[q] = frames[q]
  BY BecomeOnly
<1>2. \/ EventAfter(p) = NoEvent
      \/ /\ frames[p].step = "dispatch.await"
         /\ EventAfter(p) = [job |-> frames[p].job, status |-> frames[p].jobDoc.status]
  BY EventCases
<1> QED
  BY <1>1, <1>2 DEF Moves, Stays

LEMMA EndMoves ==
  ASSUME TypeInv, NEW p \in Handlers, UNCHANGED jobs, Throw(p) \/ DispatchReturns(p),
         frames[p].step \in SilentSteps \cup {"dispatch.await"}
  PROVE  Moves(p)
<1> DEFINE f(step) == [Idle EXCEPT !.step = step, !.job = frames[p].job,
                                   !.workflow = frames[p].workflow]
<1>1. \A step \in {"worker.nack", "worker.ack", "run.reload"} : f(step).step \notin CopySteps
  BY DEF Idle, CopySteps
<1>2. Idle.step \notin CopySteps
  BY DEF Idle, CopySteps
<1>3. \/ Become(p, Idle) \/ Become(p, f("worker.nack"))
      \/ Become(p, f("worker.ack")) \/ Become(p, f("run.reload"))
  BY DEF Throw, DispatchReturns
<1> HIDE DEF f
<1> QED
  BY <1>1, <1>2, <1>3, QuietMove

LEMMA DispatchStepMoves ==
  ASSUME TypeInv, LinkInv, NEW p \in Handlers, DispatchStep(p)
  PROVE  Moves(p)
<1> USE DEF At
<1>0. /\ frames[p] \in Frame /\ jobs \in [JobIds -> JobDoc]
      /\ frames[p].step \in JobSteps => frames[p].job \in JobIds
  BY DEF TypeInv, TypeOK, FramesNameJobs
<1>1. CASE DispatchLoad(p)
  <2> DEFINE f == [frames[p] EXCEPT !.step = "dispatch.start", !.jobDoc = jobs[frames[p].job]]
  <2>1. /\ f.job = frames[p].job /\ f.jobDoc = jobs[frames[p].job]
        /\ Become(p, f) /\ UNCHANGED jobs
    BY <1>0, <1>1 DEF DispatchLoad, Frame, store
  <2>2. frames[p].job \in JobIds /\ frames[p].step \in SilentSteps
    BY <1>0, <1>1 DEF DispatchLoad, JobSteps, SilentSteps, Steps
  <2> HIDE DEF f
  <2>3. frames'[p] = f /\ \A q \in Handlers : q # p => frames'[q] = frames[q]
    BY <2>1, BecomeOnly
  <2> QED BY <2>1, <2>2, <2>3, EventCases DEF Moves, Stays
<1>2. CASE CredentialMissing(p) \/ WorkflowGone(p) \/ AnswerOk(p) \/ FinishReread(p)
  <2>1. UNCHANGED jobs /\ frames[p].step \in SilentSteps \cup {"dispatch.await"}
    BY <1>2 DEF CredentialMissing, WorkflowGone, AnswerOk, FinishReread, NeedsWorkflow, store,
       SilentSteps, Steps
  <2> QED
    BY <1>2, <2>1, EndMoves DEF CredentialMissing, WorkflowGone, AnswerOk, FinishReread
<1>3. CASE DispatchStart(p)
  <2> DEFINE loaded == frames[p].jobDoc
             doc == [loaded EXCEPT !.status = "processing"]
             f == [frames[p] EXCEPT !.step = "dispatch.post", !.jobDoc = doc]
  <2>1. /\ f.step = "dispatch.post" /\ f.job = frames[p].job /\ f.jobDoc.status = "processing"
        /\ doc.status = "processing"
    BY <1>0 DEF Frame, JobDoc
  <2>2. /\ jobs' = [jobs EXCEPT ![frames[p].job] = SaveJob(doc, loaded, jobs[frames[p].job])]
        /\ Become(p, f) /\ frames[p].step = "dispatch.start" /\ frames[p].job \in JobIds
    BY <1>0, <1>3 DEF DispatchStart, JobSteps
  <2> HIDE DEF f, doc
  <2>3. frames'[p] = f /\ \A q \in Handlers : q # p => frames'[q] = frames[q]
    BY <2>2, BecomeOnly
  <2>4. Saves(p, "processing")
    <3>1. /\ \A j \in JobIds : j # frames[p].job => jobs'[j] = jobs[j]
          /\ jobs'[frames[p].job].status =
                Written("processing", loaded.status, jobs[frames[p].job].status)
      BY <1>0, <2>1, <2>2 DEF SaveJob
    <3>2. EventAfter(p) = [job |-> frames[p].job, status |-> "processing"]
      BY <2>1, <2>2, <2>3, EventCases
    <3> QED BY <2>1, <2>2, <2>3, <3>1, <3>2 DEF Saves, CopySteps
  <2> QED BY <2>3, <2>4 DEF Moves, SavedStatuses
<1>4. CASE PostAccepted(p) \/ PostRefused(p) \/ AnswerLost(p)
  <2>1. PICK step \in {"dispatch.await", "dispatch.fail"} : Goto(p, step)
    BY <1>4 DEF PostAccepted, PostRefused, AnswerLost
  <2>2. UNCHANGED jobs /\ frames[p].step \in {"dispatch.post", "dispatch.await"}
    BY <1>4 DEF PostAccepted, PostRefused, AnswerLost, store
  <2>3. /\ frames'[p].job = frames[p].job /\ frames'[p].jobDoc = frames[p].jobDoc
        /\ \A q \in Handlers : q # p => frames'[q] = frames[q]
    BY <1>0, <2>1, BecomeOnly DEF Goto, Frame
  <2>4. \/ EventAfter(p) = NoEvent
        \/ /\ frames[p].step = "dispatch.await"
           /\ EventAfter(p) = [job |-> frames[p].job, status |-> frames[p].jobDoc.status]
    BY <2>2, EventCases DEF SilentSteps, Steps
  <2> QED BY <2>2, <2>3, <2>4 DEF Moves, Stays, CopySteps
<1>5. CASE DispatchFail(p)
  <2> DEFINE loaded == frames[p].jobDoc
             doc(text) == [loaded EXCEPT !.status = "failed", !.errorMessage = text]
             f == Finishing(frames[p], "failed", TRUE)
  <2>1. f.step = "finish.load" /\ \A text : doc(text).status = "failed"
    BY <1>0 DEF Finishing, Idle, Frame, JobDoc
  <2>2. PICK text : jobs' = [jobs EXCEPT ![frames[p].job] =
                                SaveJob(doc(text), loaded, jobs[frames[p].job])]
    BY <1>5 DEF DispatchFail
  <2>3. Become(p, f) /\ frames[p].step = "dispatch.fail" /\ frames[p].job \in JobIds
    BY <1>0, <1>5 DEF DispatchFail, JobSteps
  <2> HIDE DEF f, doc
  <2>4. frames'[p] = f /\ \A q \in Handlers : q # p => frames'[q] = frames[q]
    BY <2>3, BecomeOnly
  <2>5. Saves(p, "failed")
    <3>1. /\ \A j \in JobIds : j # frames[p].job => jobs'[j] = jobs[j]
          /\ jobs'[frames[p].job].status =
                Written("failed", loaded.status, jobs[frames[p].job].status)
      BY <1>0, <2>1, <2>2, <2>3 DEF SaveJob
    <3>2. EventAfter(p) = [job |-> frames[p].job, status |-> "failed"]
      BY <2>1, <2>3, <2>4, EventCases
    <3> QED BY <2>1, <2>3, <2>4, <3>1, <3>2 DEF Saves, CopySteps
  <2> QED BY <2>4, <2>5 DEF Moves, SavedStatuses
<1>6. CASE FinishLoad(p) \/ FinishSave(p)
  <2>1. PICK f : Become(p, f) /\ f.step \notin CopySteps
    <3>1. CASE FinishLoad(p)
      <4> DEFINE f == [frames[p] EXCEPT !.step = "finish.save",
                                        !.workflowDoc = workflows[frames[p].workflow]]
      <4>1. f.step \notin CopySteps /\ Become(p, f)
        BY <1>0, <3>1 DEF FinishLoad, Frame, CopySteps
      <4> QED BY <4>1
    <3>2. CASE FinishSave(p)
      <4> DEFINE f == [frames[p] EXCEPT !.step = "finish.reread", !.workflowDoc = NullWorkflowDoc]
      <4>1. f.step \notin CopySteps /\ Idle.step \notin CopySteps
        BY <1>0 DEF Frame, CopySteps, Idle
      <4>2. Become(p, f) \/ Become(p, Idle)
        BY <3>2 DEF FinishSave
      <4> QED BY <4>1, <4>2
    <3> QED BY <1>6, <3>1, <3>2
  <2>2. UNCHANGED jobs /\ frames[p].step \in SilentSteps
    BY <1>6 DEF FinishLoad, FinishSave, store, SilentSteps, Steps
  <2> QED BY <2>1, <2>2, QuietMove
<1> QED
  BY <1>1, <1>2, <1>3, <1>4, <1>5, <1>6 DEF DispatchStep

(* A handler that looks for the job of a report. *)
LEMMA FoundMoves ==
  ASSUME TypeInv, NEW p \in Handlers, UNCHANGED jobs, frames[p].step \in SilentSteps,
         NEW j \in JobIds, NEW o, Become(p, Found(j, o))
  PROVE  Moves(p)
<1>1. CASE o = "completed" /\ jobs[j].status = "completed"
  BY <1>1, QuietMove DEF Found, Idle, CopySteps
<1>2. CASE ~(o = "completed" /\ jobs[j].status = "completed")
  <2>1. Found(j, o).job = j /\ Found(j, o).jobDoc = jobs[j]
    BY <1>2 DEF Found, Idle
  <2>2. frames'[p] = Found(j, o) /\ \A q \in Handlers : q # p => frames'[q] = frames[q]
    BY BecomeOnly
  <2>3. EventAfter(p) = NoEvent
    BY EventCases
  <2> QED BY <2>1, <2>2, <2>3 DEF Moves, Stays
<1> QED
  BY <1>1, <1>2

LEMMA RequestStepMoves ==
  ASSUME TypeInv, LinkInv, NEW p \in Requests, Arrival(p) \/ RequestStep(p)
  PROVE  Moves(p)
<1> USE DEF At
<1>0. /\ p \in Handlers /\ frames[p] \in Frame /\ jobs \in [JobIds -> JobDoc]
      /\ frames[p].step \in JobSteps => frames[p].job \in JobIds
  BY DEF Handlers, TypeInv, TypeOK, FramesNameJobs
<1>ends. \A o, n : Finishing(frames[p], o, n).step \notin CopySteps
  BY DEF Finishing, Idle, CopySteps
<1>idle. Idle.step \notin CopySteps /\ Idle.step \in SilentSteps
  BY DEF Idle, CopySteps, SilentSteps, Steps
<1>active. ASSUME NEW w, NEW o, FindActive(p, w, o), UNCHANGED jobs,
                  frames[p].step \in SilentSteps
           PROVE  Moves(p)
  <2> DEFINE f == [Idle EXCEPT !.step = "report.latest", !.workflow = w, !.outcome = o]
  <2>1. f.step \notin CopySteps
    BY DEF Idle, CopySteps
  <2>2. ASSUME \E j \in ActiveJobs(w) : Become(p, Found(j, o)) PROVE Moves(p)
    BY <1>0, <1>active, <2>2, FoundMoves DEF ActiveJobs
  <2>3. (\E j \in ActiveJobs(w) : Become(p, Found(j, o))) \/ Become(p, f)
    BY <1>active DEF FindActive
  <2> HIDE DEF f
  <2> QED BY <1>0, <1>active, <2>1, <2>2, <2>3, QuietMove
<1>1. CASE Arrival(p)
  <2>1. ASSUME NEW w \in Workflows, Run(p, w) \/ SetStatus(p, w) \/ Trigger(p, w) PROVE Moves(p)
    <3>1. PICK step \in {"run.mark", "status.save", "trigger.await"},
               doc \in {workflows[w], Idle.workflowDoc} :
              \/ Become(p, [Idle EXCEPT !.step = step, !.workflow = w, !.workflowDoc = doc])
              \/ Become(p, [Idle EXCEPT !.step = step, !.workflow = w])
      BY <2>1 DEF Run, SetStatus, Trigger
    <3>2. /\ [Idle EXCEPT !.step = step, !.workflow = w, !.workflowDoc = doc].step \notin CopySteps
          /\ [Idle EXCEPT !.step = step, !.workflow = w].step \notin CopySteps
      BY DEF Idle, CopySteps
    <3>3. UNCHANGED jobs /\ frames[p].step \in SilentSteps
      BY <1>idle, <2>1 DEF Run, SetStatus, Trigger, Free, store
    <3> QED BY <1>0, <3>1, <3>2, <3>3, QuietMove
  <2>2. ASSUME NEW j \in JobIds, NEW o \in Outcomes, Report(p, j, o) PROVE Moves(p)
    <3>1. UNCHANGED jobs /\ frames[p].step \in SilentSteps
      BY <1>idle, <2>2 DEF Report, Free, store
    <3>2. Become(p, Found(j, o)) \/ FindActive(p, jobs[j].workflowId, o)
      BY <2>2 DEF Report
    <3> QED BY <1>0, <1>active, <3>1, <3>2, FoundMoves
  <2>3. ASSUME NEW w \in Workflows, NEW o \in Outcomes, ReportDirect(p, w, o) PROVE Moves(p)
    <3>1. UNCHANGED jobs /\ frames[p].step \in SilentSteps /\ FindActive(p, w, o)
      BY <1>idle, <2>3 DEF ReportDirect, Free, store
    <3> QED BY <1>active, <3>1
  <2> QED BY <1>1, <2>1, <2>2, <2>3 DEF Arrival
<1>2. CASE DispatchStep(p)
  BY <1>0, <1>2, DispatchStepMoves
<1>3. CASE RunMark(p) \/ RunReread(p)
  <2>1. PICK f : Become(p, f) /\ f.step \notin CopySteps
    <3>1. CASE RunMark(p)
      <4>1. [Idle EXCEPT !.step = "run.reread", !.workflow = frames[p].workflow].step
                \notin CopySteps
        BY DEF Idle, CopySteps
      <4> QED BY <3>1, <4>1 DEF RunMark
    <3>2. CASE RunReread(p)
      <4>1. [frames[p] EXCEPT !.step = "run.create"].step \notin CopySteps
        BY <1>0 DEF Frame, CopySteps
      <4> QED BY <3>2, <4>1 DEF RunReread, Goto
    <3> QED BY <1>3, <3>1, <3>2
  <2>2. UNCHANGED jobs /\ frames[p].step \in SilentSteps
    BY <1>3 DEF RunMark, RunReread, store, SilentSteps, Steps
  <2> QED BY <1>0, <2>1, <2>2, QuietMove
<1>4. CASE RunCreate(p)
  <2> DEFINE f == [Idle EXCEPT !.step = IF QueueEnabled THEN "run.enqueue" ELSE "dispatch.load",
                               !.workflow = frames[p].workflow, !.job = created + 1]
  <2>1. f.step \in {"run.enqueue", "dispatch.load"} /\ Become(p, f)
    BY <1>4 DEF RunCreate, Idle
  <2> HIDE DEF f
  <2>2. frames'[p] = f /\ \A q \in Handlers : q # p => frames'[q] = frames[q]
    BY <1>0, <2>1, BecomeOnly
  <2>3. frames[p].workflow \in Workflows /\ InsertJob(frames[p].workflow, "queued")
        /\ frames[p].step = "run.create"
    BY <1>0, <1>4 DEF RunCreate, LinkInv, FramesLinked, Linked
  <2>4. frames'[p].step # frames[p].step /\ frames'[p].step \notin CopySteps
    BY <2>1, <2>2, <2>3 DEF CopySteps
  <2>5. EventAfter(p) = [job |-> created', status |-> "queued"]
    BY <2>3, <2>4, EventCases
  <2> QED BY <2>2, <2>3, <2>4, <2>5 DEF Moves, Creates
<1>5. CASE RunEnqueue(p) \/ RunReload(p) \/ StatusSave(p) \/ TriggerAnswered(p) \/ ReportCount(p)
  <2>1. \/ Become(p, Idle) \/ Become(p, Finishing(frames[p], "failed", FALSE))
        \/ Become(p, Finishing(frames[p], "completed", FALSE))
    BY <1>5 DEF RunEnqueue, RunReload, StatusSave, TriggerAnswered, ReportCount
  <2>2. UNCHANGED jobs /\ frames[p].step \in SilentSteps
    BY <1>5 DEF RunEnqueue, RunReload, StatusSave, TriggerAnswered, ReportCount, store,
       SilentSteps, Steps
  <2> QED BY <1>0, <1>ends, <1>idle, <2>1, <2>2, QuietMove
<1>6. CASE ReportLatest(p)
  <2>1. UNCHANGED jobs /\ frames[p].step \in SilentSteps
    BY <1>6 DEF ReportLatest, store, SilentSteps, Steps
  <2>2. \/ \E j \in JobIds : Become(p, Found(j, frames[p].outcome))
        \/ Become(p, Idle) \/ Become(p, [frames[p] EXCEPT !.step = "report.count"])
        \/ Become(p, Finishing(frames[p], "failed", FALSE))
    BY <1>6 DEF ReportLatest, JobsOf
  <2>3. [frames[p] EXCEPT !.step = "report.count"].step \notin CopySteps
    BY <1>0 DEF Frame, CopySteps
  <2> QED BY <1>0, <1>ends, <1>idle, <2>1, <2>2, <2>3, FoundMoves, QuietMove
<1>7. CASE ReportSave(p)
  <2> DEFINE loaded == frames[p].jobDoc
             outcome == frames[p].outcome
             doc(text) == [loaded EXCEPT !.status = outcome, !.errorMessage = text]
             f == [Idle EXCEPT !.step = "report.count", !.job = frames[p].job,
                               !.workflow = frames[p].workflow, !.outcome = outcome]
  <2>1. \A text : doc(text).status = outcome
    BY <1>0 DEF Frame, JobDoc
  <2>2. PICK text : jobs' = [jobs EXCEPT ![frames[p].job] =
                                SaveJob(doc(text), loaded, jobs[frames[p].job])]
    BY <1>7 DEF ReportSave
  <2>3. /\ f.step \in {"report.count", "finish.load"}
        /\ Finishing(frames[p], outcome, FALSE).step \in {"report.count", "finish.load"}
    BY DEF Idle, Finishing
  <2>4. Become(p, f) \/ Become(p, Finishing(frames[p], outcome, FALSE))
    BY <1>7 DEF ReportSave
  <2>5. frames[p].step = "report.save" /\ frames[p].job \in JobIds /\ outcome \in SavedStatuses
    BY <1>0, <1>7 DEF ReportSave, JobSteps, Frame, Outcomes, SavedStatuses
  <2> HIDE DEF f, doc
  <2>6. /\ frames'[p].step \in {"report.count", "finish.load"}
        /\ \A q \in Handlers : q # p => frames'[q] = frames[q]
    BY <1>0, <2>3, <2>4, BecomeOnly
  <2>7. Saves(p, outcome)
    <3>1. /\ \A j \in JobIds : j # frames[p].job => jobs'[j] = jobs[j]
          /\ jobs'[frames[p].job].status =
                Written(outcome, loaded.status, jobs[frames[p].job].status)
      BY <1>0, <2>1, <2>2, <2>5 DEF SaveJob
    <3>2. EventAfter(p) = [job |-> frames[p].job, status |-> outcome]
      BY <2>5, <2>6, EventCases
    <3> QED BY <2>5, <2>6, <3>1, <3>2 DEF Saves, CopySteps
  <2> QED BY <2>5, <2>6, <2>7 DEF Moves
<1> QED
  BY <1>1, <1>2, <1>3, <1>4, <1>5, <1>6, <1>7 DEF RequestStep

(* A step of JobRuns in which nothing fails moves one handler, or none. *)
LEMMA RunsMoves ==
  ASSUME TypeInv, LinkInv, RunsStep
  PROVE  \/ \E p \in Handlers : Moves(p)
         \/ UNCHANGED frames /\ \E w \in Workflows : CreateDraft(w)
         \/ UNCHANGED <<frames, jobs>>
<1> USE DEF At
<1>0. /\ Worker \in Handlers /\ Requests \subseteq Handlers
      /\ Next /\ UNCHANGED faults /\ faults \in Nat
  BY DEF Handlers, RunsStep, TypeInv, TypeOK
<1>1. ASSUME NEW p \in Requests, Arrival(p) \/ RequestStep(p) PROVE Moves(p)
  BY <1>1, RequestStepMoves
<1>2. ~Crash /\ \A p \in Requests : ~RunEnqueueFails(p)
  BY <1>0 DEF Crash, RunEnqueueFails
<1>3. CASE DispatchStep(Worker)
  BY <1>0, <1>3, DispatchStepMoves
<1>4. CASE WorkerAck \/ WorkerNack \/ \E j \in JobIds : WorkerTake(j)
  <2>1. UNCHANGED jobs /\ frames[Worker].step \in SilentSteps
    <3>1. Idle.step \in SilentSteps
      BY DEF Idle, SilentSteps, Steps
    <3>2. CASE WorkerAck \/ WorkerNack
      BY <3>2 DEF WorkerAck, WorkerNack, SilentSteps, Steps
    <3>3. CASE \E j \in JobIds : WorkerTake(j)
      BY <3>1, <3>3 DEF WorkerTake, Free
    <3> QED BY <1>4, <3>2, <3>3
  <2>2. PICK f : Become(Worker, f) /\ f.step \notin CopySteps
    <3>1. Idle.step \notin CopySteps
      BY DEF Idle, CopySteps
    <3>2. ASSUME NEW j
          PROVE  [Idle EXCEPT !.step = "dispatch.load", !.job = j,
                              !.workflow = jobs[j].workflowId].step \notin CopySteps
      BY DEF Idle, CopySteps
    <3> QED BY <1>4, <3>1, <3>2 DEF WorkerAck, WorkerNack, WorkerTake
  <2> QED BY <1>0, <2>1, <2>2, QuietMove
<1>5. ASSUME NEW w \in Workflows, CreateDraft(w) \/ Remove(w)
      PROVE  UNCHANGED frames /\ (CreateDraft(w) \/ UNCHANGED jobs)
  BY <1>5 DEF CreateDraft, Remove
<1> QED
  BY <1>0, <1>1, <1>2, <1>3, <1>4, <1>5 DEF Next, WorkerStep

(* Jobs are never deleted. *)
LEMMA StepKeepsCreated ==
  ASSUME TypeInv, [Next]_vars
  PROVE  created' \in Nat /\ created <= created'
<1>0. created \in Nat
  BY Ids
<1>1. UNCHANGED created \/ created' = created + 1
  <2>1. ASSUME NEW p, DispatchStep(p) PROVE UNCHANGED created
    BY <2>1 DEF DispatchStep, DispatchLoad, CredentialMissing, DispatchStart, PostAccepted,
       PostRefused, AnswerOk, AnswerLost, DispatchFail, FinishLoad, FinishSave, FinishReread,
       WorkflowGone, store
  <2>2. ASSUME NEW p \in Requests, Arrival(p) PROVE UNCHANGED created
    BY <2>2 DEF Arrival, Run, SetStatus, Trigger, Report, ReportDirect, store
  <2>3. ASSUME NEW p \in Requests, RequestStep(p) \/ RunEnqueueFails(p)
        PROVE  UNCHANGED created \/ created' = created + 1
    BY <2>1, <2>3 DEF RequestStep, RunEnqueueFails, RunMark, RunReread, RunCreate, InsertJob,
       RunEnqueue, RunReload, ReportLatest, ReportSave, ReportCount, StatusSave, TriggerAnswered,
       store
  <2>4. CASE WorkerAck \/ WorkerNack \/ \E j \in JobIds : WorkerTake(j)
    BY <2>4 DEF WorkerAck, WorkerNack, WorkerTake
  <2>5. CASE Crash \/ UNCHANGED vars \/ \E w \in Workflows : CreateDraft(w) \/ Remove(w)
    BY <2>5 DEF Crash, CreateDraft, InsertJob, Remove, vars, store
  <2> QED BY <2>1, <2>2, <2>3, <2>4, <2>5 DEF Next, WorkerStep
<1> QED
  BY <1>0, <1>1

------------------------------------------------------------------------------
(* Events and edits name jobs that exist *)

Known == [job : 0..created, status : JobStatuses \cup {"none"}]

EventsTyped ==
    /\ announcing \in [Handlers -> Known]
    /\ editing \in [Requests -> Known]
    /\ shown \in [JobIds -> JobStatuses \cup {"none"}]
    /\ announced \in [JobIds -> SUBSET TerminalStatuses]
    /\ overlapped \subseteq JobIds

LEMMA NoEventKnown == TypeInv => NoEvent \in Known
  BY Ids DEF NoEvent, NoJob, Known

(* What a handler that moves, and nothing else, does to the events. *)
LEMMA MovesEvents ==
  ASSUME TypeInv, LinkInv, EventsTyped, RunsStep, NEW p \in Handlers, Moves(p)
  PROVE  /\ UNCHANGED <<shown, announced, editing>>
         /\ \A q \in Handlers : q # p => announcing'[q] = announcing[q]
         /\ announcing' \in [Handlers -> Known']
         /\ \/ frames'[p] = frames[p] /\ announcing'[p] = announcing[p]
            \/ /\ announcing'[p] = EventAfter(p) /\ announcing[p] = NoEvent
               /\ p \in Requests => editing[p] = NoEvent
<1>0. /\ frames[p] \in Frame /\ jobs \in [JobIds -> JobDoc]
      /\ frames[p].step \in CopySteps => frames[p].job \in JobIds
  BY DEF TypeInv, TypeOK, FramesNameJobs, CopySteps, JobSteps
<1>1. created' \in Nat /\ created \in Nat /\ created <= created'
  BY Ids, StepKeepsCreated DEF RunsStep
<1>2. Known \subseteq Known'
  BY <1>1 DEF Known
<1>3. EventAfter(p) \in Known'
  <2>1. CASE EventAfter(p) = NoEvent
    BY <1>2, <2>1, NoEventKnown
  <2>2. CASE EventAfter(p) = [job |-> frames[p].job, status |-> frames[p].jobDoc.status]
    <3>1. frames[p].job \in 0..created
      BY DEF LinkInv, FramesLinked, Linked
    <3> QED BY <1>0, <1>2, <2>2, <3>1 DEF Frame, JobDoc, Known
  <2>3. ASSUME NEW s \in SavedStatuses, Saves(p, s) PROVE EventAfter(p) \in Known'
    <3>1. frames[p].job \in 0..created
      BY DEF LinkInv, FramesLinked, Linked
    <3> QED BY <1>2, <2>3, <3>1 DEF Saves, SavedStatuses, JobStatuses, Known
  <2>4. CASE Creates(p)
    BY <1>1, <2>4 DEF Creates, JobStatuses, Known
  <2> QED BY <2>1, <2>2, <2>3, <2>4 DEF Moves, Stays
<1>4. /\ announcing' = [q \in Handlers |-> IF frames'[q] = frames[q] THEN announcing[q]
                                           ELSE EventAfter(q)]
      /\ frames'[p] # frames[p] =>
            announcing[p] = NoEvent /\ (p \in Requests => editing[p] = NoEvent)
      /\ UNCHANGED editing
  BY DEF RunsStep
<1>5. \A q \in Handlers : q # p => announcing'[q] = announcing[q]
  BY <1>4 DEF Moves
<1>6. announcing'[p] = IF frames'[p] = frames[p] THEN announcing[p] ELSE EventAfter(p)
  BY <1>4
<1>7. announcing' \in [Handlers -> Known']
  <2>1. \A q \in Handlers : announcing'[q] \in Known'
    BY <1>2, <1>3, <1>5, <1>6 DEF EventsTyped
  <2> QED BY <1>4, <2>1
<1>8. NewDrafts = {}
  <2>1. CASE Stays(p)
    BY <2>1 DEF Stays, NewDrafts
  <2>2. ASSUME NEW s \in SavedStatuses, Saves(p, s) PROVE NewDrafts = {}
    BY <2>2 DEF Saves, SavedStatuses, Written, NewDrafts
  <2>3. CASE Creates(p)
    <3>1. PICK w \in Workflows : InsertJob(w, "queued")
      BY <2>3 DEF Creates
    <3>2. /\ jobs'[created'] = NewJob(w, "queued")
          /\ \A j \in JobIds : j # created' => jobs'[j] = jobs[j]
      <4>1. "queued" \in JobStatuses
        BY DEF JobStatuses
      <4> QED BY <3>1, <4>1, InsertKeepsJobs
    <3> QED BY <3>2 DEF NewJob, NewDrafts
  <2> QED BY <2>1, <2>2, <2>3 DEF Moves
<1>9. UNCHANGED <<shown, announced>>
  BY <1>8 DEF RunsStep
<1> QED
  BY <1>4, <1>5, <1>6, <1>7, <1>9

(* A draft is inserted and shown at once. *)
LEMMA DraftEvents ==
  ASSUME TypeInv, LinkInv, EventsTyped, RunsStep, UNCHANGED frames,
         NEW w \in Workflows, CreateDraft(w)
  PROVE  /\ UNCHANGED <<announcing, editing>>
         /\ jobs'[created'].status = "draft" /\ jobs[created'].status = "none"
         /\ created' = created + 1 /\ created' \in JobIds
         /\ \A j \in JobIds : j # created' => jobs'[j] = jobs[j]
         /\ Push(created', "draft")
<1>1. /\ created' = created + 1 /\ created' \in JobIds
      /\ jobs'[created'] = NewJob(w, "draft")
      /\ \A j \in JobIds : j # created' => jobs'[j] = jobs[j]
  <2>1. "draft" \in JobStatuses /\ InsertJob(w, "draft")
    BY DEF JobStatuses, CreateDraft
  <2> QED BY <2>1, InsertKeepsJobs
<1>2. jobs'[created'].status = "draft"
  BY <1>1 DEF NewJob
<1>3. jobs[created'].status = "none"
  BY <1>1, Ids DEF LinkInv, JobsInOrder, NoJobDoc
<1>4. NewDrafts = {created'}
  BY <1>1, <1>2, <1>3 DEF NewDrafts
<1>5. Push(created', "draft")
  BY <1>4 DEF RunsStep
<1>6. UNCHANGED <<announcing, editing>>
  BY DEF RunsStep, EventsTyped
<1> QED
  BY <1>1, <1>2, <1>3, <1>5, <1>6

LEMMA PushTyped ==
  ASSUME EventsTyped, NEW j \in JobIds, NEW s \in JobStatuses \cup {"none"}, Push(j, s)
  PROVE  /\ shown' \in [JobIds -> JobStatuses \cup {"none"}]
         /\ announced' \in [JobIds -> SUBSET TerminalStatuses]
         /\ shown'[j] = s /\ announced'[j] = announced[j] \cup ({s} \cap TerminalStatuses)
         /\ \A i \in JobIds : /\ i # j => shown'[i] = shown[i] /\ announced'[i] = announced[i]
                             /\ announced[i] \subseteq announced'[i]
  BY DEF EventsTyped, Push

LEMMA EventsTypedInit == InitEvents /\ TypeInv => EventsTyped
<1> SUFFICES ASSUME InitEvents, TypeInv PROVE EventsTyped
  OBVIOUS
<1> QED
  BY NoEventKnown DEF InitEvents, EventsTyped

(* Edits load jobs that exist. *)
LEMMA LoadedKnown ==
  ASSUME TypeInv, LinkInv, NEW j \in JobIds, jobs[j].status # "none"
  PROVE  [job |-> j, status |-> jobs[j].status] \in Known
<1>1. j <= created /\ j \in Nat /\ created \in Nat
  BY Ids DEF LinkInv, JobsInOrder, NoJobDoc
<1>2. jobs[j].status \in JobStatuses \cup {"none"}
  BY DEF TypeInv, TypeOK, JobDoc
<1> QED
  BY <1>1, <1>2 DEF Known

LEMMA EventsTypedStep ==
  TypeInv /\ LinkInv /\ EventsTyped /\ [NextEvents]_<<vars, push>> => EventsTyped'
<1> SUFFICES ASSUME TypeInv, LinkInv, EventsTyped, [NextEvents]_<<vars, push>> PROVE EventsTyped'
  OBVIOUS
<1>0. Known \subseteq Known' /\ NoEvent \in Known
  <2>1. created' \in Nat /\ created \in Nat /\ created <= created'
    BY Ids, EventsStepIsStep, StepKeepsCreated
  <2> QED BY <2>1, NoEventKnown DEF Known
<1>1. CASE RunsStep
  <2>1. overlapped' \subseteq JobIds
    BY <1>1 DEF RunsStep, EventsTyped
  <2>2. ASSUME NEW p \in Handlers, Moves(p) PROVE EventsTyped'
    BY <1>0, <1>1, <2>1, <2>2, MovesEvents DEF EventsTyped
  <2>3. ASSUME NEW w \in Workflows, UNCHANGED frames, CreateDraft(w) PROVE EventsTyped'
    <3>1. UNCHANGED <<announcing, editing>> /\ Push(created', "draft") /\ created' \in JobIds
      BY <1>1, <2>3, DraftEvents
    <3>2. "draft" \in JobStatuses \cup {"none"}
      BY DEF JobStatuses
    <3> QED BY <1>0, <2>1, <3>1, <3>2, PushTyped DEF EventsTyped
  <2>4. CASE UNCHANGED <<frames, jobs>>
    <3>1. NewDrafts = {}
      BY <2>4 DEF NewDrafts
    <3>2. UNCHANGED <<announcing, editing, shown, announced>>
      BY <1>1, <2>4, <3>1 DEF RunsStep, EventsTyped
    <3> QED BY <1>0, <2>1, <3>2 DEF EventsTyped
  <2> QED BY <1>1, <2>2, <2>3, <2>4, RunsMoves
<1>2. ASSUME NEW p \in Handlers, Emit(p) PROVE EventsTyped'
  <2>1. announcing' \in [Handlers -> Known] /\ UNCHANGED <<editing, overlapped>>
    BY <1>0, <1>2 DEF Emit, EventsTyped
  <2>2. Push(announcing[p].job, announcing[p].status) /\ announcing[p] \in Known
    BY <1>2 DEF Emit, EventsTyped
  <2>3. /\ shown' \in [JobIds -> JobStatuses \cup {"none"}]
        /\ announced' \in [JobIds -> SUBSET TerminalStatuses]
    BY <2>2 DEF Push, Known, EventsTyped
  <2> QED BY <1>0, <2>1, <2>3 DEF EventsTyped
<1>3. ASSUME NEW p \in Requests, NEW j \in JobIds, EditLoad(p, j) PROVE EventsTyped'
  <2>1. editing' \in [Requests -> Known]
    BY <1>3, LoadedKnown DEF EditLoad, EventsTyped
  <2> QED BY <1>0, <1>3, <2>1 DEF EditLoad, EventsTyped
<1>4. ASSUME NEW p \in Requests, EditSave(p) PROVE EventsTyped'
  <2>1. editing' \in [Requests -> Known] /\ UNCHANGED <<announcing, overlapped>>
    BY <1>0, <1>4 DEF EditSave, EventsTyped
  <2>2. Push(editing[p].job, editing[p].status) /\ editing[p] \in Known
    BY <1>4 DEF EditSave, EventsTyped
  <2>3. /\ shown' \in [JobIds -> JobStatuses \cup {"none"}]
        /\ announced' \in [JobIds -> SUBSET TerminalStatuses]
    BY <2>2 DEF Push, Known, EventsTyped
  <2> QED BY <1>0, <2>1, <2>3 DEF EventsTyped
<1>5. ASSUME NEW p \in Requests, EditThrows(p) PROVE EventsTyped'
  BY <1>0, <1>5 DEF EditThrows, EventsTyped
<1>6. CASE UNCHANGED <<vars, push>>
  BY <1>0, <1>6 DEF push, EventsTyped
<1> QED
  BY <1>1, <1>2, <1>3, <1>4, <1>5, <1>6 DEF NextEvents

------------------------------------------------------------------------------
(* No end passes in silence *)

(* Events wait for a handler that does nothing else before it has emitted them. *)
LEMMA PendingKept ==
  ASSUME TypeInv, LinkInv, EventsTyped, RunsStep, NEW p \in Handlers, Moves(p), NEW j \in JobIds
  PROVE  Pending(j) \subseteq Pending(j)'
<1>1. \A q \in Handlers : announcing[q].job = j => announcing'[q] = announcing[q]
  <2>1. NoEvent.job # j
    BY BoundsAssumption DEF NoEvent, NoJob, JobIds
  <2> QED BY <2>1, MovesEvents
<1> QED
  BY <1>1 DEF Pending

LEMMA AnnouncedStep ==
  TypeInv /\ LinkInv /\ EventsTyped /\ EndIsAnnounced /\ [NextEvents]_<<vars, push>>
      => EndIsAnnounced'
<1> SUFFICES ASSUME TypeInv, LinkInv, EventsTyped, EndIsAnnounced, [NextEvents]_<<vars, push>>,
                    NEW j \in JobIds, jobs'[j].status \in TerminalStatuses
             PROVE  jobs'[j].status \in announced'[j] \cup Pending(j)'
  BY DEF EndIsAnnounced
<1> DEFINE st == jobs'[j].status
<1>0. /\ jobs[j].status \in TerminalStatuses => jobs[j].status \in announced[j] \cup Pending(j)
      /\ announced[j] \subseteq TerminalStatuses
  BY DEF EndIsAnnounced, EventsTyped
<1>1. CASE RunsStep
  <2>1. ASSUME NEW p \in Handlers, Moves(p) PROVE st \in announced'[j] \cup Pending(j)'
    <3>1. UNCHANGED announced /\ Pending(j) \subseteq Pending(j)'
      BY <1>1, <2>1, MovesEvents, PendingKept
    <3>2. CASE Stays(p)
      BY <1>0, <3>1, <3>2 DEF Stays
    <3>3. ASSUME NEW s \in SavedStatuses, Saves(p, s) PROVE st \in announced'[j] \cup Pending(j)'
      <4>1. announcing'[p] = [job |-> frames[p].job, status |-> s]
        BY <1>1, <2>1, <3>3, MovesEvents DEF Saves
      <4>2. CASE frames[p].job = j
        <5>1. s \in Pending(j)'
          BY <4>1, <4>2 DEF Pending
        <5>2. st \in {s, jobs[j].status}
          BY <3>3, <4>2 DEF Saves, Written
        <5> QED BY <1>0, <3>1, <5>1, <5>2
      <4>3. CASE frames[p].job # j
        BY <1>0, <3>1, <3>3, <4>3 DEF Saves
      <4> QED BY <4>2, <4>3
    <3>4. CASE Creates(p)
      <4>1. PICK w \in Workflows : InsertJob(w, "queued")
        BY <3>4 DEF Creates
      <4>2. /\ jobs'[created'] = NewJob(w, "queued")
            /\ \A i \in JobIds : i # created' => jobs'[i] = jobs[i]
        BY <4>1, InsertKeepsJobs DEF JobStatuses
      <4>3. j # created'
        BY <4>2 DEF NewJob, TerminalStatuses
      <4> QED BY <1>0, <3>1, <4>2, <4>3
    <3> QED BY <2>1, <3>2, <3>3, <3>4 DEF Moves
  <2>2. ASSUME NEW w \in Workflows, UNCHANGED frames, CreateDraft(w)
        PROVE  st \in announced'[j] \cup Pending(j)'
    <3>1. /\ UNCHANGED announcing /\ created' \in JobIds /\ Push(created', "draft")
          /\ jobs'[created'].status = "draft"
          /\ \A i \in JobIds : i # created' => jobs'[i] = jobs[i]
      BY <1>1, <2>2, DraftEvents
    <3>2. announced[j] \subseteq announced'[j]
      BY <3>1, PushTyped DEF JobStatuses
    <3>3. j # created'
      BY <3>1 DEF TerminalStatuses
    <3> QED BY <1>0, <3>1, <3>2, <3>3 DEF Pending
  <2>3. CASE UNCHANGED <<frames, jobs>>
    <3>1. NewDrafts = {}
      BY <2>3 DEF NewDrafts
    <3>2. UNCHANGED <<announcing, announced>>
      BY <1>1, <2>3, <3>1 DEF RunsStep, EventsTyped
    <3> QED BY <1>0, <2>3, <3>2 DEF Pending
  <2> QED BY <1>1, <2>1, <2>2, <2>3, RunsMoves
<1>2. ASSUME NEW p \in Handlers, Emit(p) PROVE st \in announced'[j] \cup Pending(j)'
  <2>1. /\ UNCHANGED jobs /\ announced' = [announced EXCEPT ![announcing[p].job] =
                                 @ \cup ({announcing[p].status} \cap TerminalStatuses)]
        /\ \A q \in Handlers : q # p => announcing'[q] = announcing[q]
    BY <1>2 DEF Emit, Push, vars, store, EventsTyped
  <2>2. announced[j] \subseteq announced'[j]
    BY <2>1 DEF EventsTyped
  <2>3. announcing[p].job = j =>
            ({announcing[p].status} \cap TerminalStatuses) \subseteq announced'[j]
    BY <2>1 DEF EventsTyped
  <2>4. CASE st \in announced[j]
    BY <2>2, <2>4
  <2>5. CASE st \in Pending(j)
    <3>1. PICK q \in Handlers : announcing[q].job = j /\ st = announcing[q].status
      BY <2>5 DEF Pending
    <3>2. CASE q = p
      BY <2>3, <3>1, <3>2
    <3>3. CASE q # p
      BY <2>1, <3>1, <3>3 DEF Pending
    <3> QED BY <3>2, <3>3
  <2> QED BY <1>0, <2>1, <2>4, <2>5
<1>3. ASSUME NEW p \in Requests, NEW i \in JobIds, EditLoad(p, i)
      PROVE  st \in announced'[j] \cup Pending(j)'
  BY <1>0, <1>3 DEF EditLoad, vars, store, Pending
<1>4. ASSUME NEW p \in Requests, EditSave(p) PROVE st \in announced'[j] \cup Pending(j)'
  <2>1. announced[j] \subseteq announced'[j]
    BY <1>4 DEF EditSave, Push, EventsTyped
  <2> QED BY <1>0, <1>4, <2>1 DEF EditSave, vars, store, Pending
<1>5. ASSUME NEW p \in Requests, EditThrows(p) PROVE st \in announced'[j] \cup Pending(j)'
  BY <1>0, <1>5 DEF EditThrows, vars, store, Pending
<1>6. CASE UNCHANGED <<vars, push>>
  BY <1>0, <1>6 DEF vars, store, push, Pending
<1> QED
  BY <1>1, <1>2, <1>3, <1>4, <1>5, <1>6 DEF NextEvents

LEMMA EventsInvariant == EventsSpec => [](TypeInv /\ LinkInv /\ EventsTyped)
<1>1. InitEvents => Init
  BY DEF InitEvents
<1>2. InitEvents => EventsTyped
  BY <1>1, TypeInit, EventsTypedInit
<1> QED
  BY <1>2, EventsAreRuns, EventsTypedStep, PTL DEF EventsSpec

(* Whoever saves the end of a job, dispatch or a report, the rooms of the job have
   been told of that end or are about to be, however handlers and edits overlap. *)
THEOREM EndsAreAnnounced == EventsSpec => []EndIsAnnounced
<1>1. InitEvents => EndIsAnnounced
  BY DEF InitEvents, Init, EndIsAnnounced, NoJobDoc, TerminalStatuses
<1> QED
  BY <1>1, EventsInvariant, AnnouncedStep, PTL DEF EventsSpec

------------------------------------------------------------------------------
(* Only overlapping copies make events stale *)

(* Handler p holds a copy of job j, will emit one, or an edit holds one: in each case
   with the status the job has. *)
CurrentAt(p, j) ==
    /\ frames[p].step \in CopySteps /\ frames[p].job = j =>
          frames[p].jobDoc.status = jobs[j].status
    /\ announcing[p].job = j => announcing[p].status = jobs[j].status
    /\ p \in Requests /\ editing[p].job = j => editing[p].status = jobs[j].status

(* What no other handler has saved while it was held is up to date. *)
CurrentInv == \A j \in JobIds \ overlapped : \A p \in Handlers : CurrentAt(p, j)

(* A handler without a copy of job j: whatever becomes of the job. *)
LEMMA NoCopyCurrent ==
  ASSUME NEW p \in Handlers, NEW j \in JobIds, ~HoldsCopy(p, j), frames'[p] = frames[p],
         announcing'[p] = announcing[p], UNCHANGED editing
  PROVE  CurrentAt(p, j)'
  BY DEF CurrentAt, HoldsCopy, CopySteps

(* The new job: nobody holds a copy of it. *)
LEMMA NewJobUnknown ==
  ASSUME TypeInv, LinkInv, EventsTyped, NEW j \in JobIds, j = created + 1, NEW p \in Handlers
  PROVE  ~HoldsCopy(p, j)
<1>1. created \in Nat /\ frames[p].job \in 0..created
  BY Ids DEF LinkInv, FramesLinked, Linked
<1>2. announcing[p].job \in 0..created /\ (p \in Requests => editing[p].job \in 0..created)
  BY DEF EventsTyped, Known
<1> QED
  BY <1>1, <1>2 DEF HoldsCopy

LEMMA MoveCurrent ==
  ASSUME TypeInv, LinkInv, EventsTyped, CurrentInv, RunsStep, NEW p \in Handlers, Moves(p)
  PROVE  CurrentInv'
<1> SUFFICES ASSUME NEW j \in JobIds, j \notin overlapped', NEW q \in Handlers
             PROVE  CurrentAt(q, j)'
  BY DEF CurrentInv
<1>0. /\ j \notin overlapped /\ \A r \in Handlers : CurrentAt(r, j)
      /\ j # NoEvent.job
  BY BoundsAssumption DEF RunsStep, CurrentInv, NoEvent, NoJob, JobIds
<1>ev. /\ UNCHANGED editing
       /\ \A r \in Handlers : r # p => announcing'[r] = announcing[r] /\ frames'[r] = frames[r]
       /\ \/ frames'[p] = frames[p] /\ announcing'[p] = announcing[p]
          \/ /\ announcing'[p] = EventAfter(p) /\ announcing[p] = NoEvent
             /\ p \in Requests => editing[p] = NoEvent
  BY MovesEvents DEF Moves
<1>1. CASE Stays(p)
  <2>1. CASE q # p
    BY <1>0, <1>ev, <1>1, <2>1 DEF Stays, CurrentAt
  <2>2. CASE q = p
    <3>1. frames'[p].step \in CopySteps /\ frames'[p].job = j =>
             frames'[p].jobDoc.status = jobs'[j].status
      BY <1>0, <1>1 DEF Stays, CurrentAt
    <3>2. announcing'[p].job = j => announcing'[p].status = jobs'[j].status
      <4>1. CASE announcing'[p] = announcing[p]
        BY <1>0, <1>1, <4>1 DEF Stays, CurrentAt
      <4>2. CASE announcing'[p] = EventAfter(p)
        <5>1. CASE EventAfter(p) = NoEvent
          BY <1>0, <4>2, <5>1
        <5>2. CASE /\ frames[p].step = "dispatch.await"
                   /\ EventAfter(p) = [job |-> frames[p].job, status |-> frames[p].jobDoc.status]
          BY <1>0, <1>1, <4>2, <5>2 DEF Stays, CurrentAt, CopySteps
        <5> QED BY <1>1, <5>1, <5>2 DEF Stays
      <4> QED BY <1>ev, <4>1, <4>2
    <3>3. p \in Requests /\ editing'[p].job = j => editing'[p].status = jobs'[j].status
      BY <1>0, <1>ev, <1>1 DEF Stays, CurrentAt
    <3> QED BY <2>2, <3>1, <3>2, <3>3 DEF CurrentAt
  <2> QED BY <2>1, <2>2
<1>2. ASSUME NEW s \in SavedStatuses, Saves(p, s) PROVE CurrentAt(q, j)'
  <2>0. announcing'[p] = [job |-> frames[p].job, status |-> s]
        /\ (p \in Requests => editing[p] = NoEvent)
    BY <1>2, <1>ev DEF Saves
  <2>1. CASE frames[p].job # j
    <3>1. jobs'[j] = jobs[j]
      BY <1>2, <2>1 DEF Saves
    <3>2. CASE q # p
      BY <1>0, <1>ev, <3>1, <3>2 DEF CurrentAt
    <3>3. CASE q = p
      BY <1>0, <1>2, <1>ev, <2>0, <2>1, <3>3 DEF CurrentAt, Saves
    <3> QED BY <3>2, <3>3
  <2>2. CASE frames[p].job = j
    <3>1. jobs'[j].status = s
      BY <1>0, <1>2, <2>2 DEF CurrentAt, Saves, Written
    <3>2. CASE q = p
      BY <1>0, <1>2, <1>ev, <2>0, <2>2, <3>1, <3>2 DEF CurrentAt, Saves
    <3>3. CASE q # p
      <4>1. CASE jobs'[j] = jobs[j]
        BY <1>0, <1>ev, <3>3, <4>1 DEF CurrentAt
      <4>2. CASE jobs'[j] # jobs[j]
        <5>1. ~HoldsCopy(q, j)
          BY <1>ev, <3>3, <4>2 DEF RunsStep
        <5> QED BY <1>ev, <3>3, <5>1, NoCopyCurrent
      <4> QED BY <4>1, <4>2
    <3> QED BY <3>2, <3>3
  <2> QED BY <2>1, <2>2
<1>3. CASE Creates(p)
  <2>1. PICK w \in Workflows : InsertJob(w, "queued")
    BY <1>3 DEF Creates
  <2>2. /\ jobs'[created'] = NewJob(w, "queued") /\ created' = created + 1
        /\ \A i \in JobIds : i # created' => jobs'[i] = jobs[i]
    BY <2>1, InsertKeepsJobs DEF JobStatuses
  <2>3. /\ announcing'[p] = [job |-> created', status |-> "queued"]
        /\ frames'[p].step \notin CopySteps
        /\ p \in Requests => editing[p] = NoEvent
    BY <1>3, <1>ev DEF Creates
  <2>4. CASE q = p
    BY <1>0, <1>ev, <2>2, <2>3, <2>4 DEF CurrentAt, NewJob
  <2>5. CASE q # p
    <3>1. CASE j = created'
      BY <1>ev, <2>2, <2>5, <3>1, NewJobUnknown, NoCopyCurrent
    <3>2. CASE j # created'
      BY <1>0, <1>ev, <2>2, <2>5, <3>2 DEF CurrentAt
    <3> QED BY <3>1, <3>2
  <2> QED BY <2>4, <2>5
<1> QED
  BY <1>1, <1>2, <1>3 DEF Moves

LEMMA CurrentStep ==
  TypeInv /\ LinkInv /\ EventsTyped /\ CurrentInv /\ [NextEvents]_<<vars, push>> => CurrentInv'
<1> SUFFICES ASSUME TypeInv, LinkInv, EventsTyped, CurrentInv, [NextEvents]_<<vars, push>>
             PROVE  CurrentInv'
  OBVIOUS
<1>0. \A j \in JobIds : j # NoEvent.job
  BY BoundsAssumption DEF NoEvent, NoJob, JobIds
<1>1. CASE RunsStep
  <2>1. ASSUME NEW w \in Workflows, UNCHANGED frames, CreateDraft(w),
               NEW j \in JobIds, j \notin overlapped', NEW q \in Handlers
        PROVE  CurrentAt(q, j)'
    <3>1. /\ UNCHANGED <<announcing, editing>> /\ created' = created + 1
          /\ \A i \in JobIds : i # created' => jobs'[i] = jobs[i]
      BY <1>1, <2>1, DraftEvents
    <3>2. CurrentAt(q, j)
      BY <1>1, <2>1 DEF RunsStep, CurrentInv
    <3>3. CASE j = created'
      BY <2>1, <3>1, <3>3, NewJobUnknown, NoCopyCurrent
    <3>4. CASE j # created'
      BY <2>1, <3>1, <3>2, <3>4 DEF CurrentAt
    <3> QED BY <3>3, <3>4
  <2>2. ASSUME UNCHANGED <<frames, jobs>>, NEW j \in JobIds, j \notin overlapped',
               NEW q \in Handlers
        PROVE  CurrentAt(q, j)'
    BY <1>1, <2>2 DEF RunsStep, EventsTyped, CurrentInv, CurrentAt
  <2> QED BY <1>1, <2>1, <2>2, RunsMoves, MoveCurrent DEF CurrentInv
<1>2. ASSUME NEW p \in Handlers, Emit(p) PROVE CurrentInv'
  BY <1>0, <1>2 DEF Emit, vars, store, EventsTyped, CurrentInv, CurrentAt
<1>3. ASSUME NEW p \in Requests, NEW i \in JobIds, EditLoad(p, i) PROVE CurrentInv'
  BY <1>3 DEF EditLoad, vars, store, EventsTyped, CurrentInv, CurrentAt
<1>4. ASSUME NEW p \in Requests, EditSave(p) \/ EditThrows(p) PROVE CurrentInv'
  BY <1>0, <1>4 DEF EditSave, EditThrows, vars, store, EventsTyped, CurrentInv, CurrentAt
<1>5. CASE UNCHANGED <<vars, push>>
  BY <1>5 DEF vars, store, push, CurrentInv, CurrentAt
<1> QED
  BY <1>1, <1>2, <1>3, <1>4, <1>5 DEF NextEvents

LEMMA StaleStep ==
  TypeInv /\ LinkInv /\ EventsTyped /\ CurrentInv /\ StaleOnlyWhenOverlapped
      /\ [NextEvents]_<<vars, push>> => StaleOnlyWhenOverlapped'
<1> SUFFICES ASSUME TypeInv, LinkInv, EventsTyped, CurrentInv, StaleOnlyWhenOverlapped,
                    [NextEvents]_<<vars, push>>,
                    NEW j \in JobIds, j \notin overlapped',
                    jobs'[j].status # "none", Pending(j)' = {}
             PROVE  shown'[j] = jobs'[j].status
  BY DEF StaleOnlyWhenOverlapped
<1>0. j \notin overlapped =>
         /\ jobs[j].status # "none" /\ Pending(j) = {} => shown[j] = jobs[j].status
         /\ \A p \in Handlers : CurrentAt(p, j)
  BY DEF StaleOnlyWhenOverlapped, CurrentInv
<1>1. CASE RunsStep
  <2>0. j \notin overlapped
    BY <1>1 DEF RunsStep
  <2>1. ASSUME NEW p \in Handlers, Moves(p) PROVE shown'[j] = jobs'[j].status
    <3>1. UNCHANGED shown /\ Pending(j) = {}
      BY <1>1, <2>1, MovesEvents, PendingKept
    <3>2. announcing'[p].job # j
      BY <2>1 DEF Pending
    <3>3. jobs'[j] = jobs[j]
      <4>1. CASE Stays(p)
        BY <4>1 DEF Stays
      <4>2. ASSUME NEW s \in SavedStatuses, Saves(p, s) PROVE jobs'[j] = jobs[j]
        BY <1>1, <2>1, <3>2, <4>2, MovesEvents DEF Saves
      <4>3. CASE Creates(p)
        <5>1. announcing'[p] = [job |-> created', status |-> "queued"]
          BY <1>1, <2>1, <4>3, MovesEvents DEF Creates
        <5>2. PICK w \in Workflows : InsertJob(w, "queued")
          BY <4>3 DEF Creates
        <5>3. \A i \in JobIds : i # created' => jobs'[i] = jobs[i]
          BY <5>2, InsertKeepsJobs DEF JobStatuses
        <5> QED BY <3>2, <5>1, <5>3
      <4> QED BY <2>1, <4>1, <4>2, <4>3 DEF Moves
    <3> QED BY <1>0, <2>0, <3>1, <3>3
  <2>2. ASSUME NEW w \in Workflows, UNCHANGED frames, CreateDraft(w)
        PROVE  shown'[j] = jobs'[j].status
    <3>1. /\ UNCHANGED announcing /\ created' \in JobIds /\ Push(created', "draft")
          /\ jobs'[created'].status = "draft"
          /\ \A i \in JobIds : i # created' => jobs'[i] = jobs[i]
      BY <1>1, <2>2, DraftEvents
    <3>2. /\ shown'[created'] = "draft"
          /\ j # created' => shown'[j] = shown[j]
      BY <3>1, PushTyped DEF JobStatuses
    <3>3. Pending(j) = {}
      BY <3>1 DEF Pending
    <3> QED BY <1>0, <2>0, <3>1, <3>2, <3>3
  <2>3. CASE UNCHANGED <<frames, jobs>>
    <3>1. NewDrafts = {}
      BY <2>3 DEF NewDrafts
    <3>2. UNCHANGED <<announcing, shown>>
      BY <1>1, <2>3, <3>1 DEF RunsStep, EventsTyped
    <3> QED BY <1>0, <2>0, <2>3, <3>2 DEF Pending
  <2> QED BY <1>1, <2>1, <2>2, <2>3, RunsMoves
<1>2. ASSUME NEW p \in Handlers, Emit(p) PROVE shown'[j] = jobs'[j].status
  <2>1. /\ UNCHANGED <<jobs, overlapped>>
        /\ shown' = [shown EXCEPT ![announcing[p].job] = announcing[p].status]
        /\ \A q \in Handlers : q # p => announcing'[q] = announcing[q]
    BY <1>2 DEF Emit, Push, vars, store, EventsTyped
  <2>2. CASE announcing[p].job = j
    BY <1>0, <2>1, <2>2 DEF EventsTyped, CurrentAt
  <2>3. CASE announcing[p].job # j
    <3>1. Pending(j) = {}
      BY <2>1, <2>3 DEF Pending
    <3> QED BY <1>0, <2>1, <2>3, <3>1 DEF EventsTyped
  <2> QED BY <2>2, <2>3
<1>3. ASSUME NEW p \in Requests, EditSave(p) PROVE shown'[j] = jobs'[j].status
  <2>1. /\ UNCHANGED <<jobs, overlapped, announcing>>
        /\ shown' = [shown EXCEPT ![editing[p].job] = editing[p].status]
    BY <1>3 DEF EditSave, Push, vars, store
  <2>2. Pending(j) = {}
    BY <2>1 DEF Pending
  <2>3. CASE editing[p].job = j
    BY <1>0, <2>1, <2>3 DEF EventsTyped, CurrentAt, Handlers
  <2>4. CASE editing[p].job # j
    BY <1>0, <2>1, <2>2, <2>4 DEF EventsTyped
  <2> QED BY <2>3, <2>4
<1>4. ASSUME NEW p \in Requests, EditThrows(p) \/ \E i \in JobIds : EditLoad(p, i)
      PROVE  shown'[j] = jobs'[j].status
  BY <1>0, <1>4 DEF EditThrows, EditLoad, vars, store, Pending
<1>5. CASE UNCHANGED <<vars, push>>
  BY <1>0, <1>5 DEF vars, store, push, Pending
<1> QED
  BY <1>1, <1>2, <1>3, <1>4, <1>5 DEF NextEvents

(* Once every event about a job is out, its rooms see the status it has, unless one
   handler saved the job while another one held a copy of it: stale copies are the
   only cause of a stale event. *)
THEOREM StaleEventsAreOverlaps == EventsSpec => []StaleOnlyWhenOverlapped
<1>1. InitEvents => CurrentInv /\ StaleOnlyWhenOverlapped
  BY BoundsAssumption DEF InitEvents, Init, CurrentInv, CurrentAt, StaleOnlyWhenOverlapped,
     NoJobDoc, NoEvent, NoJob, JobIds, Idle, CopySteps, Handlers
<1> QED
  BY <1>1, EventsInvariant, CurrentStep, StaleStep, PTL DEF EventsSpec
=============================================================================
