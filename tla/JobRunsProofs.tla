---------------------------- MODULE JobRunsProofs ----------------------------
(* Proofs of the main safety properties of JobRunsProperties, for every set of
   workflows, every number of requests in flight and every setting of the
   switches. *)
EXTENDS JobRunsProperties, TLAPS

------------------------------------------------------------------------------
(* Typing *)

(* The steps of a handler that works on a job. *)
JobSteps == {"run.enqueue", "dispatch.load", "dispatch.start", "dispatch.post",
             "dispatch.await", "dispatch.fail", "report.save"}

FramesNameJobs == \A p \in Handlers : frames[p].step \in JobSteps => frames[p].job \in JobIds

TypeInv == TypeOK /\ FramesNameJobs

(* The null documents and the idle frame have their types. *)
LEMMA NullTypes ==
    /\ NoJobDoc \in JobDoc
    /\ NoEntry \in Entry
    /\ NullWorkflowDoc \in WorkflowDoc
    /\ Idle \in Frame
  BY BoundsAssumption DEF NoJobDoc, JobDoc, NoEntry, Entry, EntryStates, NullWorkflowDoc,
     WorkflowDoc, WorkflowStatuses, Idle, Frame, Steps, Outcomes, NoJob

(* A save writes values of the right type, stale or not. *)
LEMMA SaveTypes ==
    /\ \A d, l, s \in WorkflowDoc : SaveWorkflow(d, l, s) \in WorkflowDoc
    /\ \A d, l, s \in JobDoc : SaveJob(d, l, s) \in JobDoc
    /\ \A d \in WorkflowDoc : MarkAsRunning(d) \in WorkflowDoc
    /\ \A d \in WorkflowDoc : IncrementTriggers(d) \in WorkflowDoc
    /\ \A d \in WorkflowDoc, o \in Outcomes : MarkRunFinished(d, o) \in WorkflowDoc
<1>1. \A d, l, s \in WorkflowDoc : SaveWorkflow(d, l, s) \in WorkflowDoc
  BY DEF SaveWorkflow, Written, WorkflowDoc
<1>2. \A d, l, s \in JobDoc : SaveJob(d, l, s) \in JobDoc
  BY DEF SaveJob, Written, JobDoc
<1>3. \A d \in WorkflowDoc : MarkAsRunning(d) \in WorkflowDoc
  BY DEF MarkAsRunning, WorkflowDoc, WorkflowStatuses
<1>4. \A d \in WorkflowDoc : IncrementTriggers(d) \in WorkflowDoc
  BY DEF IncrementTriggers, WorkflowDoc
<1>5. \A d \in WorkflowDoc, o \in Outcomes : MarkRunFinished(d, o) \in WorkflowDoc
  BY DEF MarkRunFinished, StatusToRestore, WorkflowDoc, WorkflowStatuses
<1> QED
  BY <1>1, <1>2, <1>3, <1>4, <1>5

(* Every operation of the queue yields an entry. *)
LEMMA EntryTypes ==
    /\ Added \in Entry
    /\ \A e \in Entry : Taken(e) \in Entry /\ Completed(e) \in Entry
    /\ \A e \in Entry : Rejected(e) \in Entry /\ Stalled(e) \in Entry
<1>1. Added \in Entry
  BY DEF Added, Entry, EntryStates, NoEntry
<1>2. \A e \in Entry : Taken(e) \in Entry /\ Completed(e) \in Entry
  BY DEF Taken, Completed, Entry, EntryStates
<1>3. ASSUME NEW e \in Entry PROVE Rejected(e) \in Entry
  <2>1. e.attempts + 1 \in Nat
    BY DEF Entry
  <2>2. CASE e.attempts + 1 < MaxAttempts
    BY <2>1, <2>2 DEF Rejected, Entry, EntryStates
  <2>3. CASE ~(e.attempts + 1 < MaxAttempts)
    BY <2>1, <2>3 DEF Rejected, Entry, EntryStates
  <2> QED BY <2>2, <2>3
<1>4. ASSUME NEW e \in Entry PROVE Stalled(e) \in Entry
  <2>1. e.stalls + 1 \in Nat
    BY DEF Entry
  <2>2. CASE e.stalls < MaxStalls
    BY <2>1, <2>2 DEF Stalled, Entry, EntryStates
  <2>3. CASE ~(e.stalls < MaxStalls)
    BY <2>1, <2>3 DEF Stalled, Entry, EntryStates
  <2> QED BY <2>2, <2>3
<1> QED
  BY <1>1, <1>2, <1>3, <1>4

LEMMA TypeInit == Init => TypeInv
<1> SUFFICES ASSUME Init PROVE TypeInv
  OBVIOUS
<1>1. workflows \in [Workflows -> WorkflowDoc]
  <2>1. \A s \in UserStatuses :
            [status |-> s, statusBeforeRun |-> Null, triggers |-> 0] \in WorkflowDoc
    BY InputsAssumption DEF WorkflowDoc
  <2> QED BY <2>1 DEF Init
<1>2. jobs \in [JobIds -> JobDoc] /\ queue \in [JobIds -> Entry] /\ frames \in [Handlers -> Frame]
  BY NullTypes DEF Init
<1>3. /\ posts \in [JobIds -> Nat] /\ reports \in [JobIds -> Nat]
      /\ direct \in [Workflows -> Nat] /\ directReports \in [Workflows -> Nat]
      /\ live \subseteq Workflows /\ succeeded \subseteq JobIds
      /\ interrupted \subseteq Workflows \cup {NoWorkflow} /\ abandoned \subseteq 0..MaxJobs
      /\ faults \in Nat /\ created \in 0..MaxJobs
  BY BoundsAssumption DEF Init
<1>4. FramesNameJobs
  BY DEF Init, FramesNameJobs, Idle, JobSteps
<1> QED
  BY <1>1, <1>2, <1>3, <1>4 DEF TypeInv, TypeOK

(* The frames of a typed state, by themselves. *)
FrameTyping == frames \in [Handlers -> Frame] /\ FramesNameJobs

(* A handler that becomes a well-typed frame leaves all frames well-typed. *)
LEMMA BecomeTypes ==
  ASSUME TypeInv, NEW p \in Handlers, NEW f \in Frame,
         f.step \in JobSteps => f.job \in JobIds, Become(p, f)
  PROVE  FrameTyping'
  BY DEF TypeInv, TypeOK, FrameTyping, FramesNameJobs, Become

LEMMA GotoTypes ==
  ASSUME TypeInv, NEW p \in Handlers, NEW step \in Steps,
         step \in JobSteps => frames[p].job \in JobIds, Goto(p, step)
  PROVE  FrameTyping'
<1>1. [frames[p] EXCEPT !.step = step] \in Frame
  BY DEF TypeInv, TypeOK, Frame
<1>2. [frames[p] EXCEPT !.step = step].step = step
      /\ [frames[p] EXCEPT !.step = step].job = frames[p].job
  BY DEF TypeInv, TypeOK, Frame
<1> QED
  BY <1>1, <1>2, BecomeTypes DEF Goto

(* An exception, and the return of dispatch, end in well-typed frames. *)
LEMMA EndTypes ==
  ASSUME TypeInv, NEW p \in Handlers, Throw(p) \/ DispatchReturns(p)
  PROVE  FrameTyping'
<1>1. frames[p].workflow \in Workflows \cup {NoWorkflow} /\ frames[p].job \in 0..MaxJobs
  BY DEF TypeInv, TypeOK, Frame
<1>2. \A step \in {"worker.nack", "worker.ack", "run.reload"} :
          [Idle EXCEPT !.step = step, !.job = frames[p].job, !.workflow = frames[p].workflow]
              \in Frame
  BY <1>1, NullTypes DEF Frame, Steps, Idle
<1>3. \A step \in {"worker.nack", "worker.ack", "run.reload"} :
          [Idle EXCEPT !.step = step, !.job = frames[p].job,
                       !.workflow = frames[p].workflow].step \notin JobSteps
  BY DEF Idle, JobSteps
<1>4. Idle \in Frame /\ Idle.step \notin JobSteps
  BY NullTypes DEF Idle, JobSteps
<1>5. CASE Throw(p)
  <2>1. CASE p = Worker
    BY <1>2, <1>3, <1>5, <2>1, BecomeTypes, Zenon DEF Throw
  <2>2. CASE p # Worker
    BY <1>4, <1>5, <2>2, BecomeTypes DEF Throw
  <2> QED BY <2>1, <2>2
<1>6. CASE DispatchReturns(p)
  <2>1. CASE p = Worker
    BY <1>2, <1>3, <1>6, <2>1, BecomeTypes, Zenon DEF DispatchReturns
  <2>2. CASE p # Worker
    BY <1>2, <1>3, <1>6, <2>2, BecomeTypes, Zenon DEF DispatchReturns
  <2> QED BY <2>1, <2>2
<1> QED
  BY <1>5, <1>6

(* So does markRunFinished when it is called. *)
LEMMA FinishingTypes ==
  ASSUME NEW f \in Frame, NEW o \in Outcomes, NEW n \in BOOLEAN
  PROVE  Finishing(f, o, n) \in Frame /\ Finishing(f, o, n).step = "finish.load"
  BY NullTypes DEF Finishing, Idle, Frame, Steps, Outcomes

(* And the handler of a report that has found its job. *)
LEMMA FoundTypes ==
  ASSUME TypeInv, NEW j \in JobIds, NEW o \in Outcomes
  PROVE  /\ Found(j, o) \in Frame
         /\ Found(j, o).step \in JobSteps => Found(j, o).job \in JobIds
<1>1. jobs[j] \in JobDoc /\ jobs[j].workflowId \in Workflows \cup {NoWorkflow} /\ j \in 0..MaxJobs
  BY DEF TypeInv, TypeOK, JobDoc, JobIds
<1>2. CASE o = "completed" /\ jobs[j].status = "completed"
  BY <1>2, NullTypes DEF Found, Idle, JobSteps
<1>3. CASE ~(o = "completed" /\ jobs[j].status = "completed")
  BY <1>1, <1>3, NullTypes DEF Found, Idle, Frame, Steps, JobSteps
<1> QED
  BY <1>2, <1>3

(* A step that only moves frames leaves the rest typed as it was. *)
LEMMA FrameStepTypes ==
  ASSUME TypeInv, FrameTyping', UNCHANGED <<store, n8n, ghosts>>
  PROVE  TypeInv'
  BY DEF TypeInv, TypeOK, FrameTyping, FramesNameJobs, store, n8n, ghosts

(* So does a step that also writes the collections with documents of their type. *)
LEMMA StoreStepTypes ==
  ASSUME TypeInv, FrameTyping', UNCHANGED <<live, n8n, ghosts>>,
         workflows' \in [Workflows -> WorkflowDoc], jobs' \in [JobIds -> JobDoc],
         created' \in 0..MaxJobs, queue' \in [JobIds -> Entry]
  PROVE  TypeInv'
  BY DEF TypeInv, TypeOK, FrameTyping, FramesNameJobs, n8n, ghosts

LEMMA DispatchStepTypes ==
  ASSUME TypeInv, NEW p \in Handlers, DispatchStep(p)
  PROVE  TypeInv'
<1> USE DEF At
<1>0. /\ frames[p] \in Frame
      /\ frames[p].step \in JobSteps => frames[p].job \in JobIds
      /\ workflows \in [Workflows -> WorkflowDoc] /\ live \subseteq Workflows
      /\ jobs \in [JobIds -> JobDoc] /\ created \in 0..MaxJobs /\ queue \in [JobIds -> Entry]
  BY DEF TypeInv, TypeOK, FramesNameJobs
<1>1. CASE DispatchLoad(p)
  <2> DEFINE f == [frames[p] EXCEPT !.step = "dispatch.start", !.jobDoc = jobs[frames[p].job]]
  <2>1. frames[p].job \in JobIds
    BY <1>0, <1>1 DEF DispatchLoad, JobSteps
  <2>2. f \in Frame /\ f.job \in JobIds
    BY <1>0, <2>1 DEF Frame, Steps
  <2>3. FrameTyping'
    BY <1>1, <2>2, BecomeTypes DEF DispatchLoad
  <2> QED BY <1>1, <2>3, FrameStepTypes DEF DispatchLoad
<1>2. CASE WorkflowGone(p) \/ AnswerOk(p) \/ FinishReread(p)
  BY <1>2, EndTypes, FrameStepTypes DEF WorkflowGone, AnswerOk, FinishReread
<1>9. CASE CredentialMissing(p)
  <2>1. FrameTyping'
    BY <1>9, EndTypes DEF CredentialMissing
  <2>2. abandoned \subseteq 0..MaxJobs /\ frames[p].job \in 0..MaxJobs
    BY <1>0 DEF TypeInv, TypeOK, Frame
  <2>3. abandoned' \subseteq 0..MaxJobs
    BY <1>9, <2>2 DEF CredentialMissing
  <2> QED
    BY <1>9, <2>1, <2>3
    DEF CredentialMissing, TypeInv, TypeOK, FrameTyping, FramesNameJobs, store, n8n
<1>3. CASE DispatchStart(p)
  <2> DEFINE loaded == frames[p].jobDoc
             doc == [loaded EXCEPT !.status = "processing"]
             f == [frames[p] EXCEPT !.step = "dispatch.post", !.jobDoc = doc]
  <2>1. frames[p].job \in JobIds
    BY <1>0, <1>3 DEF DispatchStart, JobSteps
  <2>2. loaded \in JobDoc /\ doc \in JobDoc
    BY <1>0 DEF Frame, JobDoc, JobStatuses
  <2>3. f \in Frame /\ f.job \in JobIds
    BY <1>0, <2>1, <2>2 DEF Frame, Steps
  <2>4. FrameTyping'
    BY <1>3, <2>3, BecomeTypes DEF DispatchStart
  <2>5. jobs' \in [JobIds -> JobDoc]
    BY <1>0, <1>3, <2>1, <2>2, SaveTypes DEF DispatchStart
  <2> QED BY <1>0, <1>3, <2>4, <2>5, StoreStepTypes DEF DispatchStart
<1>4. CASE PostAccepted(p)
  <2>1. FrameTyping'
    BY <1>0, <1>4, GotoTypes DEF PostAccepted, JobSteps, Steps
  <2>2. posts' \in [JobIds -> Nat]
    <3>1. posts \in [JobIds -> Nat] /\ \A j \in JobIds : posts[j] + 1 \in Nat
      BY DEF TypeInv, TypeOK
    <3>2. posts' = [posts EXCEPT ![frames[p].job] = posts[frames[p].job] + 1]
      BY <1>4 DEF PostAccepted
    <3> QED BY <3>1, <3>2
  <2> QED
    BY <1>4, <2>1, <2>2
    DEF PostAccepted, TypeInv, TypeOK, FrameTyping, FramesNameJobs, store, ghosts
<1>5. CASE PostRefused(p) \/ AnswerLost(p)
  <2>1. FrameTyping'
    BY <1>0, <1>5, GotoTypes DEF PostRefused, AnswerLost, JobSteps, Steps
  <2> QED BY <1>5, <2>1, FrameStepTypes DEF PostRefused, AnswerLost
<1>6. CASE DispatchFail(p)
  <2> DEFINE loaded == frames[p].jobDoc
  <2>1. loaded \in JobDoc
    BY <1>0 DEF Frame
  <2>2. \A text \in Errors :
            [loaded EXCEPT !.status = "failed", !.errorMessage = text] \in JobDoc
    BY <2>1 DEF JobDoc, JobStatuses
  <2>3. jobs' \in [JobIds -> JobDoc]
    <3>1. frames[p].job \in JobIds
      BY <1>0, <1>6 DEF DispatchFail, JobSteps
    <3>2. PICK text \in Errors :
              jobs' = [jobs EXCEPT ![frames[p].job] =
                  SaveJob([loaded EXCEPT !.status = "failed", !.errorMessage = text],
                          loaded, jobs[frames[p].job])]
      BY <1>6 DEF DispatchFail
    <3> QED BY <1>0, <2>1, <2>2, <3>1, <3>2, SaveTypes
  <2>4. FrameTyping'
    BY <1>0, <1>6, FinishingTypes, BecomeTypes DEF DispatchFail, Outcomes, JobSteps
  <2> QED BY <1>0, <1>6, <2>3, <2>4, StoreStepTypes DEF DispatchFail
<1>7. CASE FinishLoad(p)
  <2> DEFINE w == frames[p].workflow
             f == [frames[p] EXCEPT !.step = "finish.save", !.workflowDoc = workflows[w]]
  <2>1. w \in Workflows
    BY <1>0, <1>7 DEF FinishLoad
  <2>2. f \in Frame /\ f.step \notin JobSteps
    BY <1>0, <2>1 DEF Frame, Steps, JobSteps
  <2>3. FrameTyping'
    BY <1>7, <2>2, BecomeTypes DEF FinishLoad
  <2> QED BY <1>7, <2>3, FrameStepTypes DEF FinishLoad
<1>8. CASE FinishSave(p)
  <2> DEFINE w == frames[p].workflow
             loaded == frames[p].workflowDoc
             f == [frames[p] EXCEPT !.step = "finish.reread", !.workflowDoc = NullWorkflowDoc]
  <2>1. w \in Workflows /\ loaded \in WorkflowDoc /\ frames[p].outcome \in Outcomes
    BY <1>0, <1>8 DEF FinishSave, Frame
  <2>2. workflows' \in [Workflows -> WorkflowDoc]
    BY <1>0, <1>8, <2>1, SaveTypes DEF FinishSave, SaveDoc
  <2>3. f \in Frame /\ f.step \notin JobSteps
    BY <1>0, NullTypes DEF Frame, Steps, JobSteps
  <2>4. Idle \in Frame /\ Idle.step \notin JobSteps
    BY NullTypes DEF Idle, JobSteps
  <2>5. FrameTyping'
    <3>1. CASE frames[p].nested
      BY <1>8, <2>3, <3>1, BecomeTypes DEF FinishSave
    <3>2. CASE ~frames[p].nested
      BY <1>8, <2>4, <3>2, BecomeTypes DEF FinishSave
    <3> QED BY <3>1, <3>2
  <2> QED BY <1>0, <1>8, <2>2, <2>5, StoreStepTypes DEF FinishSave
<1> QED
  BY <1>1, <1>2, <1>3, <1>4, <1>5, <1>6, <1>7, <1>8, <1>9 DEF DispatchStep

(* A new job document, inserted under the next id. *)
LEMMA InsertTypes ==
  ASSUME TypeInv, NEW w \in Workflows \cup {NoWorkflow}, NEW status \in JobStatuses,
         InsertJob(w, status)
  PROVE  jobs' \in [JobIds -> JobDoc] /\ created' \in 0..MaxJobs /\ created' \in JobIds
<1>1. NewJob(w, status) \in JobDoc
  BY DEF NewJob, JobDoc
<1> QED
  BY <1>1, BoundsAssumption DEF InsertJob, TypeInv, TypeOK, JobIds

(* $inc on a workflow that may be gone. *)
LEMMA IncrementWellTyped ==
  ASSUME TypeInv, NEW w, Increment(w)
  PROVE  workflows' \in [Workflows -> WorkflowDoc]
<1>1. workflows \in [Workflows -> WorkflowDoc] /\ live \subseteq Workflows
  BY DEF TypeInv, TypeOK
<1>2. CASE w \in live
  BY <1>1, <1>2, SaveTypes DEF Increment
<1>3. CASE w \notin live
  BY <1>1, <1>3 DEF Increment
<1> QED
  BY <1>2, <1>3

LEMMA RequestStepTypes ==
  ASSUME TypeInv, NEW p \in Requests, RequestStep(p) \/ RunEnqueueFails(p)
  PROVE  TypeInv'
<1> USE DEF At
<1>0. /\ p \in Handlers /\ frames[p] \in Frame
      /\ frames[p].step \in JobSteps => frames[p].job \in JobIds
      /\ frames[p].workflow \in Workflows \cup {NoWorkflow} /\ frames[p].job \in 0..MaxJobs
      /\ frames[p].outcome \in Outcomes
      /\ frames[p].workflowDoc \in WorkflowDoc /\ frames[p].jobDoc \in JobDoc
      /\ workflows \in [Workflows -> WorkflowDoc] /\ live \subseteq Workflows
      /\ jobs \in [JobIds -> JobDoc] /\ created \in 0..MaxJobs /\ queue \in [JobIds -> Entry]
  BY DEF TypeInv, TypeOK, FramesNameJobs, Handlers, Frame
<1>idle. Idle \in Frame /\ Idle.step \notin JobSteps
  BY NullTypes DEF Idle, JobSteps
<1>1. CASE DispatchStep(p)
  BY <1>0, <1>1, DispatchStepTypes
<1>2. CASE RunMark(p)
  <2> DEFINE w == frames[p].workflow
             f == [Idle EXCEPT !.step = "run.reread", !.workflow = w]
  <2>1. f \in Frame /\ f.step \notin JobSteps
    BY <1>0, NullTypes DEF Idle, Frame, Steps, JobSteps
  <2>2. FrameTyping'
    BY <1>0, <1>2, <2>1, BecomeTypes DEF RunMark
  <2>3. workflows' \in [Workflows -> WorkflowDoc]
    BY <1>0, <1>2, SaveTypes DEF RunMark, SaveDoc
  <2> QED BY <1>0, <1>2, <2>2, <2>3, StoreStepTypes DEF RunMark
<1>3. CASE RunReread(p)
  <2>1. FrameTyping'
    BY <1>0, <1>3, GotoTypes DEF RunReread, JobSteps, Steps
  <2> QED BY <1>3, <2>1, FrameStepTypes DEF RunReread
<1>4. CASE RunCreate(p)
  <2> DEFINE w == frames[p].workflow
             f(step) == [Idle EXCEPT !.step = step, !.workflow = w, !.job = created + 1]
  <2>1. /\ jobs' \in [JobIds -> JobDoc] /\ created' \in 0..MaxJobs
        /\ created + 1 \in JobIds /\ created + 1 \in 0..MaxJobs
    BY <1>0, <1>4, InsertTypes DEF RunCreate, JobStatuses, InsertJob
  <2>2. \A step \in Steps : f(step) \in Frame /\ f(step).job \in JobIds
    BY <1>0, <2>1, NullTypes DEF Idle, Frame
  <2>3. FrameTyping'
    <3>1. CASE QueueEnabled
      BY <1>0, <1>4, <2>2, <3>1, BecomeTypes DEF RunCreate, Steps
    <3>2. CASE ~QueueEnabled
      BY <1>0, <1>4, <2>2, <3>2, BecomeTypes DEF RunCreate, Steps
    <3> QED BY <3>1, <3>2
  <2> QED BY <1>0, <1>4, <2>1, <2>3, StoreStepTypes DEF RunCreate
<1>5. CASE RunEnqueue(p)
  <2>1. FrameTyping'
    BY <1>0, <1>idle, <1>5, BecomeTypes DEF RunEnqueue
  <2>2. queue' \in [JobIds -> Entry]
    BY <1>0, <1>5, EntryTypes DEF RunEnqueue
  <2> QED BY <1>0, <1>5, <2>1, <2>2, StoreStepTypes DEF RunEnqueue
<1>6. CASE RunEnqueueFails(p)
  <2>1. FrameTyping'
    BY <1>0, <1>idle, <1>6, BecomeTypes DEF RunEnqueueFails
  <2>2. abandoned' \subseteq 0..MaxJobs
    <3>1. abandoned \subseteq 0..MaxJobs
      BY DEF TypeInv, TypeOK
    <3>2. abandoned' = abandoned \cup {frames[p].job}
      BY <1>6 DEF RunEnqueueFails
    <3> QED BY <1>0, <3>1, <3>2
  <2>3. faults' \in Nat
    <3>1. faults \in Nat
      BY DEF TypeInv, TypeOK
    <3> QED BY <1>6, <3>1 DEF RunEnqueueFails
  <2> QED
    BY <1>6, <2>1, <2>2, <2>3
    DEF RunEnqueueFails, TypeInv, TypeOK, FrameTyping, FramesNameJobs, store, n8n
<1>7. CASE RunReload(p)
  <2> DEFINE f == Finishing(frames[p], "failed", FALSE)
  <2>1. f \in Frame /\ f.step \notin JobSteps
    BY <1>0, FinishingTypes DEF Outcomes, JobSteps
  <2>2. FrameTyping'
    <3>1. CASE jobs[frames[p].job].status = "failed"
      BY <1>0, <1>7, <2>1, <3>1, BecomeTypes DEF RunReload
    <3>2. CASE jobs[frames[p].job].status # "failed"
      BY <1>0, <1>idle, <1>7, <3>2, BecomeTypes DEF RunReload
    <3> QED BY <3>1, <3>2
  <2> QED BY <1>7, <2>2, FrameStepTypes DEF RunReload
<1>8. CASE ReportLatest(p)
  <2> DEFINE w == frames[p].workflow
             outcome == frames[p].outcome
             counting == [frames[p] EXCEPT !.step = "report.count"]
             finishing == Finishing(frames[p], "failed", FALSE)
  <2>1. ASSUME \E j \in JobsOf(w) : Become(p, Found(j, outcome)) PROVE FrameTyping'
    BY <1>0, <2>1, FoundTypes, BecomeTypes DEF JobsOf
  <2>2. /\ counting \in Frame /\ counting.step \notin JobSteps
        /\ finishing \in Frame /\ finishing.step \notin JobSteps
    BY <1>0, FinishingTypes DEF Frame, Steps, JobSteps, Outcomes
  <2>3. ASSUME Become(p, Idle) \/ Become(p, counting) \/ Become(p, finishing)
        PROVE  FrameTyping'
    BY <1>0, <1>idle, <2>2, <2>3, BecomeTypes
  <2>4. \/ \E j \in JobsOf(w) : Become(p, Found(j, outcome))
        \/ Become(p, Idle) \/ Become(p, counting) \/ Become(p, finishing)
    <3>1. CASE w \notin live
      BY <1>8, <3>1 DEF ReportLatest
    <3>2. CASE w \in live /\ outcome = "completed"
      BY <1>8, <3>2 DEF ReportLatest
    <3>3. CASE w \in live /\ outcome # "completed"
      BY <1>8, <3>3 DEF ReportLatest
    <3> QED BY <3>1, <3>2, <3>3
  <2> QED BY <1>8, <2>1, <2>3, <2>4, FrameStepTypes DEF ReportLatest
<1>9. CASE ReportSave(p)
  <2> DEFINE j == frames[p].job
             loaded == frames[p].jobDoc
             outcome == frames[p].outcome
             doc(text) == [loaded EXCEPT !.status = outcome, !.errorMessage = text]
             counting == [Idle EXCEPT !.step = "report.count", !.job = j,
                                      !.workflow = frames[p].workflow, !.outcome = outcome]
             finishing == Finishing(frames[p], outcome, FALSE)
  <2>1. j \in JobIds
    BY <1>0, <1>9 DEF ReportSave, JobSteps
  <2>2. \A text \in Errors \cup {Null} : doc(text) \in JobDoc
    BY <1>0 DEF JobDoc, JobStatuses, Outcomes
  <2>3. PICK text \in Errors \cup {Null} :
            jobs' = [jobs EXCEPT ![j] = SaveJob(doc(text), loaded, jobs[j])]
    BY <1>9 DEF ReportSave
  <2>4. jobs' \in [JobIds -> JobDoc]
    BY <1>0, <2>1, <2>2, <2>3, SaveTypes
  <2>5. /\ counting \in Frame /\ counting.step \notin JobSteps
        /\ finishing \in Frame /\ finishing.step \notin JobSteps
    BY <1>0, FinishingTypes, NullTypes DEF Idle, Frame, Steps, JobSteps
  <2>6. FrameTyping'
    <3>1. CASE outcome = "completed"
      BY <1>0, <1>9, <2>5, <3>1, BecomeTypes DEF ReportSave
    <3>2. CASE outcome # "completed"
      BY <1>0, <1>9, <2>5, <3>2, BecomeTypes DEF ReportSave
    <3> QED BY <3>1, <3>2
  <2> QED BY <1>0, <1>9, <2>4, <2>6, StoreStepTypes DEF ReportSave
<1>10. CASE ReportCount(p)
  <2>1. FrameTyping'
    BY <1>0, <1>10, FinishingTypes, BecomeTypes DEF ReportCount, Outcomes, JobSteps
  <2>2. workflows' \in [Workflows -> WorkflowDoc]
    BY <1>10, IncrementWellTyped DEF ReportCount
  <2> QED BY <1>0, <1>10, <2>1, <2>2, StoreStepTypes DEF ReportCount
<1>11. CASE StatusSave(p)
  <2> DEFINE w == frames[p].workflow
             loaded == frames[p].workflowDoc
  <2>1. \A s \in UserStatuses : [loaded EXCEPT !.status = s] \in WorkflowDoc
    BY <1>0, InputsAssumption DEF WorkflowDoc
  <2>2. workflows' \in [Workflows -> WorkflowDoc]
    BY <1>0, <1>11, <2>1, SaveTypes DEF StatusSave, SaveDoc
  <2>3. FrameTyping'
    BY <1>0, <1>idle, <1>11, BecomeTypes DEF StatusSave
  <2> QED BY <1>0, <1>11, <2>2, <2>3, StoreStepTypes DEF StatusSave
<1>12. CASE TriggerAnswered(p)
  <2>1. workflows' \in [Workflows -> WorkflowDoc]
    BY <1>0, <1>12, IncrementWellTyped DEF TriggerAnswered
  <2>2. FrameTyping'
    BY <1>0, <1>idle, <1>12, BecomeTypes DEF TriggerAnswered
  <2> QED BY <1>0, <1>12, <2>1, <2>2, StoreStepTypes DEF TriggerAnswered
<1> QED
  BY <1>1, <1>2, <1>3, <1>4, <1>5, <1>6, <1>7, <1>8, <1>9, <1>10, <1>11, <1>12
  DEF RequestStep

LEMMA ArrivalTypes ==
  ASSUME TypeInv, NEW p \in Requests, Arrival(p)
  PROVE  TypeInv'
<1>0. /\ p \in Handlers
      /\ workflows \in [Workflows -> WorkflowDoc] /\ live \subseteq Workflows
      /\ jobs \in [JobIds -> JobDoc]
      /\ reports \in [JobIds -> Nat] /\ \A j \in JobIds : reports[j] + 1 \in Nat
      /\ direct \in [Workflows -> Nat] /\ \A w \in Workflows : direct[w] + 1 \in Nat
      /\ directReports \in [Workflows -> Nat]
      /\ \A w \in Workflows : directReports[w] + 1 \in Nat
  BY DEF TypeInv, TypeOK, Handlers
<1>loaded. \A w \in Workflows, step \in {"run.mark", "status.save"} :
        LET f == [Idle EXCEPT !.step = step, !.workflow = w, !.workflowDoc = workflows[w]]
        IN  f \in Frame /\ f.step \notin JobSteps
  BY <1>0, NullTypes DEF Idle, Frame, Steps, JobSteps
<1>found. ASSUME NEW w \in Workflows \cup {NoWorkflow}, NEW outcome \in Outcomes,
                 FindActive(p, w, outcome)
          PROVE  FrameTyping'
  <2> DEFINE f == [Idle EXCEPT !.step = "report.latest", !.workflow = w, !.outcome = outcome]
  <2>1. f \in Frame /\ f.step \notin JobSteps
    BY NullTypes DEF Idle, Frame, Steps, JobSteps
  <2>2. ASSUME \E j \in ActiveJobs(w) : Become(p, Found(j, outcome)) PROVE FrameTyping'
    BY <1>0, <2>2, FoundTypes, BecomeTypes DEF ActiveJobs
  <2>3. ASSUME Become(p, f) PROVE FrameTyping'
    BY <1>0, <2>1, <2>3, BecomeTypes
  <2> QED BY <1>found, <2>2, <2>3 DEF FindActive
<1>1. ASSUME NEW w \in Workflows, Run(p, w) PROVE TypeInv'
  <2>1. FrameTyping'
    BY <1>0, <1>loaded, <1>1, BecomeTypes DEF Run
  <2> QED BY <1>1, <2>1, FrameStepTypes DEF Run
<1>2. ASSUME NEW w \in Workflows, SetStatus(p, w) PROVE TypeInv'
  <2>1. FrameTyping'
    BY <1>0, <1>loaded, <1>2, BecomeTypes DEF SetStatus
  <2> QED BY <1>2, <2>1, FrameStepTypes DEF SetStatus
<1>3. ASSUME NEW w \in Workflows, Trigger(p, w) PROVE TypeInv'
  <2> DEFINE f == [Idle EXCEPT !.step = "trigger.await", !.workflow = w]
  <2>1. f \in Frame /\ f.step \notin JobSteps
    BY NullTypes DEF Idle, Frame, Steps, JobSteps
  <2>2. FrameTyping'
    BY <1>0, <1>3, <2>1, BecomeTypes DEF Trigger
  <2>3. direct' \in [Workflows -> Nat]
    BY <1>0, <1>3 DEF Trigger
  <2> QED
    BY <1>3, <2>2, <2>3
    DEF Trigger, TypeInv, TypeOK, FrameTyping, FramesNameJobs, store, ghosts
<1>4. ASSUME NEW j \in JobIds, NEW outcome \in Outcomes, Report(p, j, outcome) PROVE TypeInv'
  <2>1. jobs[j].workflowId \in Workflows \cup {NoWorkflow}
    BY <1>0 DEF JobDoc
  <2>2. FrameTyping'
    <3>1. ASSUME Become(p, Found(j, outcome)) PROVE FrameTyping'
      BY <1>0, <3>1, FoundTypes, BecomeTypes
    <3> QED BY <1>found, <1>4, <2>1, <3>1 DEF Report
  <2>3. reports' \in [JobIds -> Nat]
    BY <1>0, <1>4 DEF Report
  <2>4. succeeded' \subseteq JobIds
    BY <1>4 DEF Report, TypeInv, TypeOK
  <2> QED
    BY <1>4, <2>2, <2>3, <2>4
    DEF Report, TypeInv, TypeOK, FrameTyping, FramesNameJobs, store, ghosts
<1>5. ASSUME NEW w \in Workflows, NEW outcome \in Outcomes, ReportDirect(p, w, outcome)
      PROVE  TypeInv'
  <2>1. FrameTyping'
    BY <1>found, <1>5 DEF ReportDirect
  <2>2. directReports' \in [Workflows -> Nat]
    BY <1>0, <1>5 DEF ReportDirect
  <2> QED
    BY <1>5, <2>1, <2>2
    DEF ReportDirect, TypeInv, TypeOK, FrameTyping, FramesNameJobs, store, ghosts
<1> QED
  BY <1>1, <1>2, <1>3, <1>4, <1>5 DEF Arrival

LEMMA OtherStepTypes ==
  ASSUME TypeInv,
         \/ \E j \in JobIds : WorkerTake(j)
         \/ WorkerAck \/ WorkerNack \/ Crash
         \/ \E w \in Workflows : CreateDraft(w) \/ Remove(w)
  PROVE  TypeInv'
<1>0. /\ Worker \in Handlers
      /\ jobs \in [JobIds -> JobDoc] /\ queue \in [JobIds -> Entry] /\ created \in 0..MaxJobs
      /\ workflows \in [Workflows -> WorkflowDoc]
      /\ frames \in [Handlers -> Frame]
      /\ Idle \in Frame /\ Idle.step \notin JobSteps
  BY NullTypes DEF TypeInv, TypeOK, Handlers, Idle, JobSteps
<1>1. ASSUME NEW j \in JobIds, WorkerTake(j) PROVE TypeInv'
  <2> DEFINE f == [Idle EXCEPT !.step = "dispatch.load", !.job = j,
                               !.workflow = jobs[j].workflowId]
  <2>1. f \in Frame /\ f.job \in JobIds
    <3>1. j \in 0..MaxJobs /\ jobs[j].workflowId \in Workflows \cup {NoWorkflow}
      BY <1>0, BoundsAssumption DEF JobIds, JobDoc
    <3> QED BY <3>1, NullTypes DEF Idle, Frame, Steps
  <2>2. FrameTyping'
    BY <1>0, <1>1, <2>1, BecomeTypes DEF WorkerTake
  <2>3. queue' \in [JobIds -> Entry]
    BY <1>0, <1>1, EntryTypes DEF WorkerTake
  <2> QED BY <1>0, <1>1, <2>2, <2>3, StoreStepTypes DEF WorkerTake
<1>2. CASE WorkerAck \/ WorkerNack
  <2>1. FrameTyping'
    BY <1>0, <1>2, BecomeTypes DEF WorkerAck, WorkerNack
  <2>2. queue' \in [JobIds -> Entry]
    BY <1>0, <1>2, EntryTypes DEF WorkerAck, WorkerNack
  <2> QED BY <1>0, <1>2, <2>1, <2>2, StoreStepTypes DEF WorkerAck, WorkerNack
<1>3. CASE Crash
  <2>1. FrameTyping'
    BY <1>0, <1>3 DEF Crash, FrameTyping, FramesNameJobs
  <2>2. queue' \in [JobIds -> Entry]
    BY <1>0, <1>3, EntryTypes DEF Crash
  <2>3. interrupted' \subseteq Workflows \cup {NoWorkflow} /\ abandoned' \subseteq 0..MaxJobs
    <3>1. \A p \in Handlers : frames[p].workflow \in Workflows \cup {NoWorkflow}
                              /\ frames[p].job \in 0..MaxJobs
      BY <1>0 DEF Frame
    <3>2. interrupted \subseteq Workflows \cup {NoWorkflow} /\ abandoned \subseteq 0..MaxJobs
      BY DEF TypeInv, TypeOK
    <3>3. interrupted' \subseteq Workflows \cup {NoWorkflow}
      BY <1>3, <3>1, <3>2 DEF Crash
    <3>4. abandoned' \subseteq 0..MaxJobs
      BY <1>3, <3>1, <3>2 DEF Crash, Handlers
    <3> QED BY <3>3, <3>4
  <2>4. faults' \in Nat
    <3>1. faults \in Nat
      BY DEF TypeInv, TypeOK
    <3> QED BY <1>3, <3>1 DEF Crash
  <2> QED
    BY <1>3, <2>1, <2>2, <2>3, <2>4
    DEF Crash, TypeInv, TypeOK, FrameTyping, FramesNameJobs, n8n
<1>4. ASSUME NEW w \in Workflows, CreateDraft(w) PROVE TypeInv'
  <2>1. jobs' \in [JobIds -> JobDoc] /\ created' \in 0..MaxJobs
    BY <1>4, InsertTypes DEF CreateDraft, JobStatuses
  <2>2. FrameTyping'
    BY <1>4 DEF CreateDraft, TypeInv, TypeOK, FrameTyping, FramesNameJobs
  <2> QED BY <1>0, <1>4, <2>1, <2>2, StoreStepTypes DEF CreateDraft
<1>5. ASSUME NEW w \in Workflows, Remove(w) PROVE TypeInv'
  BY <1>5 DEF Remove, TypeInv, TypeOK, FramesNameJobs, n8n, ghosts
<1> QED
  BY <1>1, <1>2, <1>3, <1>4, <1>5

LEMMA TypeStep == TypeInv /\ [Next]_vars => TypeInv'
<1> SUFFICES ASSUME TypeInv, [Next]_vars PROVE TypeInv'
  OBVIOUS
<1>1. ASSUME NEW p \in Requests, Arrival(p) \/ RequestStep(p) \/ RunEnqueueFails(p)
      PROVE  TypeInv'
  BY <1>1, ArrivalTypes, RequestStepTypes
<1>2. CASE WorkerStep
  BY <1>2, DispatchStepTypes, OtherStepTypes DEF WorkerStep, Handlers
<1>3. CASE \/ \E j \in JobIds : WorkerTake(j)
           \/ \E w \in Workflows : CreateDraft(w) \/ Remove(w)
           \/ Crash
  BY <1>3, OtherStepTypes
<1>4. CASE UNCHANGED vars
  BY <1>4 DEF vars, store, n8n, ghosts, TypeInv, TypeOK, FramesNameJobs
<1> QED
  BY <1>1, <1>2, <1>3, <1>4 DEF Next

LEMMA TypeInvariant == Spec => []TypeInv
  BY TypeInit, TypeStep, PTL DEF Spec

(* All documents, queue entries and handler frames keep their types, for any
   number of workflows, requests and jobs. *)
THEOREM TypeCorrect == Spec => []TypeOK
<1>1. TypeInv => TypeOK
  BY DEF TypeInv
<1> QED
  BY <1>1, TypeInvariant, PTL
=============================================================================
