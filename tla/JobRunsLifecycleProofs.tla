----------------------- MODULE JobRunsLifecycleProofs -----------------------
(* The proof that JobRuns implements RunLifecycle: whatever handlers overlap,
   whatever the queue retries and wherever the process dies, a job is executed
   once per delivery and ends as its lifecycle says.  Reports must name their
   job (NamedReports): one that names only its workflow may end a job that was
   never executed.  On the same invariant rest what follows from it: a queued job
   is never forgotten, and a failed one says why. *)
EXTENDS JobRunsRunningProofs

------------------------------------------------------------------------------
(* The inductive invariant *)

NamedReports == "workflow" \notin ReportForms /\ MaxDirect = 0

Begun == {"queued", "processing", "completed", "failed"}
Started == {"processing", "completed", "failed"}

(* Job j may be started: nothing has executed its present delivery, and it has
   not ended before it. *)
Ready(j) ==
    /\ posts[j] <= queue[j].stalls
    /\ jobs[j].status \in TerminalStatuses => queue[j].stalls > 0

Gone(j) == jobs[j].workflowId \notin live

(* What holds of the document, the entry and the executions of one job. *)
JobLife(j) ==
    /\ posts[j] <= queue[j].stalls + 1
    /\ posts[j] > 0 => jobs[j].status \in Started
    /\ j \in succeeded => posts[j] > 0
    /\ jobs[j].status = "completed" => j \in succeeded
    /\ queue[j].state # "none" => jobs[j].status \in Begun
    /\ queue[j].state = "none" => queue[j].stalls = 0
    /\ queue[j].state = "done" => jobs[j].status \in Started
    /\ queue[j].state \in {"waiting", "active"} => queue[j].stalls <= MaxStalls
    /\ queue[j].state = "waiting" => Ready(j) \/ Gone(j)

(* The steps in which a request is responsible for the only dispatch of a job. *)
CarrySteps == {"run.enqueue", "dispatch.load", "dispatch.start", "dispatch.post",
               "dispatch.await", "dispatch.fail"}
FinishSteps == {"finish.load", "finish.save", "finish.reread"}
WorkerSteps == (CarrySteps \ {"run.enqueue"}) \cup FinishSteps \cup {"worker.ack", "worker.nack"}

(* What holds of frame f in slot p. *)
FrameLife(p, f) ==
    /\ f.step # "report.latest"
    /\ f.step = "dispatch.load" \/ (p = Worker /\ f.step = "worker.nack")
           => Ready(f.job) \/ Gone(f.job)
    /\ f.step \in {"run.enqueue", "dispatch.start", "dispatch.post"} => Ready(f.job)
    /\ f.step \in CarrySteps => jobs[f.job].status \in Begun
    /\ f.step = "dispatch.start" /\ f.jobDoc.status = "processing"
           => jobs[f.job].status \in Started
    /\ f.step \in {"dispatch.post", "dispatch.await", "dispatch.fail"}
           => f.jobDoc.status = "processing" /\ jobs[f.job].status \in Started
    /\ f.step = "report.save" =>
           posts[f.job] > 0 /\ (f.outcome = "completed" => f.job \in succeeded)
    /\ p \in Requests /\ f.step \in CarrySteps => queue[f.job].state = "none"
    /\ p = Worker /\ f.step # "idle" =>
           /\ f.step \in WorkerSteps
           /\ f.job \in JobIds
           /\ queue[f.job].state = "active"
           /\ f.workflow = jobs[f.job].workflowId
           /\ f.step \in FinishSteps \cup {"worker.ack"} => jobs[f.job].status \in Started
           /\ f.step \in FinishSteps => f.nested

(* No two requests carry one job, and an active entry is the worker's. *)
Carries(p, j) == frames[p].job = j /\ frames[p].step \in CarrySteps
OneCarrier == \A p, q \in Requests, j \in JobIds : Carries(p, j) /\ Carries(q, j) => p = q
WorkerHolds ==
    \A j \in JobIds : queue[j].state = "active" => ~At(Worker, "idle") /\ frames[Worker].job = j

NoDirect == \A w \in Workflows : direct[w] = 0

LifeInv ==
    /\ \A j \in JobIds : JobLife(j)
    /\ \A p \in Handlers : FrameLife(p, frames[p])
    /\ OneCarrier
    /\ WorkerHolds
    /\ NoDirect
------------------------------------------------------------------------------
(* What steps keep *)

(* Whatever happens, a job that exists stays where it got to. *)
Onward(j) ==
    j <= created =>
        /\ jobs'[j].workflowId = jobs[j].workflowId
        /\ jobs[j].status \in Begun => jobs'[j].status \in Begun
        /\ jobs[j].status \in Started => jobs'[j].status \in Started
        /\ posts[j] > 0 => posts'[j] > 0
        /\ j \in succeeded => j \in succeeded'
        /\ Gone(j) => Gone(j)'

(* The handler in slot q relies on its job being ready and on its entry. *)
Relies(q) == frames[q].step \in CarrySteps \/ (q = Worker /\ frames[q].step # "idle")

KeepsEntry(j) ==
    /\ queue'[j].state = queue[j].state
    /\ Ready(j) => Ready(j)'

LEMMA LifeTypes ==
  ASSUME TypeInv
  PROVE  /\ jobs \in [JobIds -> JobDoc] /\ queue \in [JobIds -> Entry]
         /\ posts \in [JobIds -> Nat] /\ succeeded \subseteq JobIds
         /\ \A j \in JobIds : posts[j] \in Nat /\ queue[j].stalls \in Nat
         /\ \A j \in JobIds : j \in Nat
         /\ frames \in [Handlers -> Frame] /\ Handlers = Requests \cup {Worker}
         /\ \A q \in Handlers : frames[q].step \in CarrySteps \cup {"report.save"}
                => frames[q].job \in JobIds
<1>1. TypeOK /\ FramesNameJobs
  BY DEF TypeInv
<1>2. \A j \in JobIds : posts[j] \in Nat /\ queue[j].stalls \in Nat
  BY <1>1 DEF TypeOK, Entry
<1>3. \A j \in JobIds : j \in Nat
  BY BoundsAssumption DEF JobIds
<1>4. \A q \in Handlers : frames[q].step \in CarrySteps \cup {"report.save"}
         => frames[q].job \in JobIds
  BY <1>1 DEF FramesNameJobs, JobSteps, CarrySteps
<1> QED
  BY <1>1, <1>2, <1>3, <1>4 DEF TypeOK, Handlers

(* A handler that does not move keeps its part of the invariant. *)
LEMMA FrameKept ==
  ASSUME TypeInv, LinkInv, LifeInv, NEW q \in Handlers, frames'[q] = frames[q],
         \A j \in JobIds : Onward(j),
         Relies(q) => KeepsEntry(frames[q].job)
  PROVE  FrameLife(q, frames[q])'
<1>1. FrameLife(q, frames[q]) /\ frames[q].job <= created
  BY Ids DEF LifeInv, LinkInv, FramesLinked, Linked
<1>2. frames[q].step \in CarrySteps \cup {"report.save"} => frames[q].job \in JobIds
  BY LifeTypes
<1>3. CASE q = Worker /\ frames[q].step # "idle"
  <2>1. frames[q].job \in JobIds
    BY <1>1, <1>3 DEF FrameLife
  <2>2. Onward(frames[q].job) /\ KeepsEntry(frames[q].job)
    BY <1>3, <2>1 DEF Relies
  <2> QED
    BY <1>1, <1>3, <2>1, <2>2 DEF FrameLife, Onward, KeepsEntry
<1>4. CASE ~(q = Worker /\ frames[q].step # "idle") /\ frames[q].step \in CarrySteps
  <2>1. Onward(frames[q].job) /\ KeepsEntry(frames[q].job)
    BY <1>2, <1>4 DEF Relies
  <2> QED
    BY <1>1, <1>4, <2>1, SlotsAssumption DEF FrameLife, Onward, KeepsEntry, CarrySteps
<1>5. CASE ~(q = Worker /\ frames[q].step # "idle") /\ frames[q].step \notin CarrySteps
  <2>1. frames[q].step = "report.save" => Onward(frames[q].job)
    BY <1>2
  <2> QED
    BY <1>1, <1>5, <2>1, SlotsAssumption DEF FrameLife, Onward, CarrySteps
<1> QED
  BY <1>3, <1>4, <1>5

(* A job is in the hands of one handler. *)
LEMMA Alone ==
  ASSUME TypeInv, LinkInv, LifeInv, NEW p \in Handlers, NEW q \in Handlers, p # q,
         frames[p].step \in CarrySteps, Relies(q)
  PROVE  frames[p].job # frames[q].job
<1>1. FrameLife(p, frames[p]) /\ FrameLife(q, frames[q]) /\ frames[p].job \in JobIds
  BY LifeTypes DEF LifeInv
<1>2. CASE p \in Requests /\ q \in Requests
  BY <1>1, <1>2, SlotsAssumption DEF Relies, LifeInv, OneCarrier, Carries
<1>3. CASE p = Worker \/ q = Worker
  <2>1. \A r \in {p, q} : r = Worker => queue[frames[r].job].state = "active"
    BY <1>1 DEF FrameLife, Relies, CarrySteps
  <2>2. \A r \in {p, q} : r # Worker => queue[frames[r].job].state = "none"
    BY <1>1 DEF FrameLife, Relies, Handlers
  <2> QED BY <1>3, <2>1, <2>2
<1> QED
  BY <1>2, <1>3 DEF Handlers

(* Only handler p moves; what it holds of jobs it held before. *)
Moves(p) == \A q \in Handlers : q # p => frames'[q] = frames[q]

(* A step of one handler keeps the invariant if its new frame and the jobs do,
   and if it leaves the jobs others rely on as they are. *)
LEMMA MoveKeepsLife ==
  ASSUME TypeInv, LinkInv, LifeInv, NEW p \in Handlers, Moves(p), UNCHANGED direct,
         FrameLife(p, frames[p])',
         \A j \in JobIds : JobLife(j)' /\ Onward(j),
         \A q \in Handlers : q # p /\ Relies(q) => KeepsEntry(frames[q].job),
         \A j \in JobIds, q \in Requests : p \in Requests /\ q # p /\ Carries(p, j)'
             => ~Carries(q, j),
         WorkerHolds'
  PROVE  LifeInv'
<1>1. ASSUME NEW q \in Handlers PROVE FrameLife(q, frames[q])'
  <2>1. CASE q = p
    BY <2>1
  <2>2. CASE q # p
    BY <2>2, FrameKept DEF Moves
  <2> QED BY <2>1, <2>2
<1>2. OneCarrier'
  <2> SUFFICES ASSUME NEW q \in Requests, NEW r \in Requests, NEW j \in JobIds,
                      Carries(q, j)', Carries(r, j)', q # r
               PROVE  FALSE
    BY DEF OneCarrier
  <2>1. \A s \in Requests : s \in Handlers /\ (s # p /\ Carries(s, j)' => Carries(s, j))
    BY DEF Moves, Carries, Handlers
  <2>2. q # p /\ r # p => q = r
    BY <2>1 DEF LifeInv, OneCarrier
  <2>3. q = p \/ r = p
    BY <2>2
  <2> QED BY <2>1, <2>3
<1>3. NoDirect'
  BY DEF LifeInv, NoDirect
<1> QED
  BY <1>1, <1>2, <1>3 DEF LifeInv

(* Nothing but frames changes. *)
Quiet == UNCHANGED <<jobs, queue, posts, succeeded, direct, live>>

LEMMA QuietJobs ==
  ASSUME LifeInv, Quiet
  PROVE  \A j \in JobIds : JobLife(j)' /\ Onward(j) /\ KeepsEntry(j)
<1> SUFFICES ASSUME NEW j \in JobIds PROVE JobLife(j)' /\ Onward(j) /\ KeepsEntry(j)
  OBVIOUS
<1>1. JobLife(j)
  BY DEF LifeInv
<1> QED
  BY <1>1 DEF Quiet, JobLife, Onward, KeepsEntry, Ready, Gone

(* The handler goes on to a frame that carries no more than before. *)
LEMMA QuietMoveKeepsLife ==
  ASSUME TypeInv, LinkInv, LifeInv, NEW p \in Handlers, Moves(p), Quiet,
         FrameLife(p, frames[p])',
         frames'[p].step \in CarrySteps =>
             frames[p].step \in CarrySteps /\ frames'[p].job = frames[p].job,
         p = Worker => frames'[p].step # "idle" /\ frames[p].step # "idle"
                       /\ frames'[p].job = frames[p].job
  PROVE  LifeInv'
<1>1. \A j \in JobIds : JobLife(j)' /\ Onward(j) /\ KeepsEntry(j)
  BY QuietJobs
<1>2. \A q \in Handlers : Relies(q) => KeepsEntry(frames[q].job)
  <2> SUFFICES ASSUME NEW q \in Handlers, Relies(q) PROVE frames[q].job \in JobIds
    BY <1>1
  <2>1. CASE frames[q].step \in CarrySteps
    BY <2>1, LifeTypes
  <2>2. CASE q = Worker /\ frames[q].step # "idle"
    BY <2>2 DEF LifeInv, FrameLife
  <2> QED BY <2>1, <2>2 DEF Relies
<1>3. \A j \in JobIds, q \in Requests : p \in Requests /\ q # p /\ Carries(p, j)'
          => ~Carries(q, j)
  BY DEF Carries, LifeInv, OneCarrier
<1>4. WorkerHolds'
  <2>1. Worker \in Handlers
    BY DEF Handlers
  <2> QED BY <2>1 DEF Moves, Quiet, LifeInv, WorkerHolds, At
<1>5. UNCHANGED direct
  BY DEF Quiet
<1> QED
  BY <1>1, <1>2, <1>3, <1>4, <1>5, MoveKeepsLife

(* A request goes on to a frame nothing is said about. *)
LEMMA PlainMoveKeepsLife ==
  ASSUME TypeInv, LinkInv, LifeInv, NEW p \in Requests, Moves(p), Quiet,
         frames'[p].step \notin CarrySteps \cup {"report.latest", "report.save"}
  PROVE  LifeInv'
<1>1. p \in Handlers /\ p # Worker
  BY SlotsAssumption DEF Handlers
<1>2. FrameLife(p, frames[p])'
  BY <1>1 DEF FrameLife, CarrySteps
<1> QED
  BY <1>1, <1>2, QuietMoveKeepsLife

(* The handler that carries a job changes its document or has it executed. *)
LEMMA CarrierKeepsLife ==
  ASSUME TypeInv, LinkInv, LifeInv, NEW p \in Handlers, Moves(p),
         UNCHANGED <<queue, succeeded, direct, live>>,
         frames[p].step \in CarrySteps, frames'[p].job = frames[p].job,
         p = Worker => frames'[p].step # "idle",
         \A j \in JobIds : j # frames[p].job => jobs'[j] = jobs[j] /\ posts'[j] = posts[j],
         JobLife(frames[p].job)', Onward(frames[p].job), FrameLife(p, frames[p])'
  PROVE  LifeInv'
<1>1. ASSUME NEW j \in JobIds, j # frames[p].job PROVE JobLife(j)' /\ Onward(j) /\ KeepsEntry(j)
  <2>1. JobLife(j) /\ jobs'[j] = jobs[j] /\ posts'[j] = posts[j]
    BY <1>1 DEF LifeInv
  <2> QED
    BY <2>1 DEF JobLife, Onward, KeepsEntry, Ready, Gone
<1>2. \A q \in Handlers : q # p /\ Relies(q) => KeepsEntry(frames[q].job)
  <2> SUFFICES ASSUME NEW q \in Handlers, q # p, Relies(q) PROVE KeepsEntry(frames[q].job)
    OBVIOUS
  <2>1. frames[q].job # frames[p].job
    BY Alone
  <2>2. frames[q].job \in JobIds
    <3>1. CASE frames[q].step \in CarrySteps
      BY <3>1, LifeTypes
    <3>2. CASE q = Worker /\ frames[q].step # "idle"
      BY <3>2 DEF LifeInv, FrameLife
    <3> QED BY <3>1, <3>2 DEF Relies
  <2> QED BY <1>1, <2>1, <2>2
<1>3. \A j \in JobIds, q \in Requests : p \in Requests /\ q # p /\ Carries(p, j)'
          => ~Carries(q, j)
  BY DEF Carries, LifeInv, OneCarrier
<1>4. WorkerHolds'
  BY DEF Handlers, Moves, LifeInv, WorkerHolds, At
<1>5. \A j \in JobIds : JobLife(j)' /\ Onward(j)
  BY <1>1
<1> QED
  BY <1>2, <1>3, <1>4, <1>5, MoveKeepsLife

(* What the frames that end a call hold. *)
LEMMA EndFrames ==
  ASSUME NEW p \in Handlers
  PROVE  /\ \A step \in {"worker.nack", "worker.ack", "run.reload"} :
                LET f == [Idle EXCEPT !.step = step, !.job = frames[p].job,
                                      !.workflow = frames[p].workflow]
                IN  /\ f.step = step /\ f.job = frames[p].job
                    /\ f.workflow = frames[p].workflow
         /\ \A o, n : LET f == Finishing(frames[p], o, n)
                      IN  /\ f.step = "finish.load" /\ f.job = frames[p].job
                          /\ f.workflow = frames[p].workflow
         /\ Idle.step = "idle"
  BY DEF Idle, Finishing

(* An exception: the worker still has a job it may try again, or one whose
   workflow is gone. *)
LEMMA ThrowKeepsLife ==
  ASSUME TypeInv, LinkInv, LifeInv, NEW p \in Handlers, frames[p].step # "idle", Throw(p), Quiet,
         p = Worker => Ready(frames[p].job) \/ Gone(frames[p].job)
  PROVE  LifeInv'
<1>1. Moves(p)
  BY EndOnly DEF Moves
<1>2. CASE p = Worker
  <2> DEFINE f == [Idle EXCEPT !.step = "worker.nack", !.job = frames[p].job,
                               !.workflow = frames[p].workflow]
  <2>1. frames'[p] = f
    BY <1>2, BecomeOnly DEF Throw
  <2>2. /\ frames'[p].step = "worker.nack" /\ frames'[p].job = frames[p].job
        /\ frames'[p].workflow = frames[p].workflow
    BY <2>1, EndFrames
  <2>3. FrameLife(p, frames[p])
    BY DEF LifeInv
  <2>4. FrameLife(p, frames[p])'
    BY <1>2, <2>2, <2>3, SlotsAssumption
    DEF FrameLife, Quiet, Ready, Gone, CarrySteps, FinishSteps, WorkerSteps
  <2> QED
    BY <1>1, <1>2, <2>2, <2>4, QuietMoveKeepsLife DEF CarrySteps
<1>3. CASE p # Worker
  <2>1. frames'[p].step = "idle" /\ p \in Requests
    BY <1>3, BecomeOnly, EndFrames DEF Throw, Handlers
  <2> QED
    BY <1>1, <2>1, PlainMoveKeepsLife DEF CarrySteps
<1> QED
  BY <1>2, <1>3

(* The return of dispatch: the job has been started. *)
LEMMA ReturnKeepsLife ==
  ASSUME TypeInv, LinkInv, LifeInv, NEW p \in Handlers, frames[p].step # "idle", DispatchReturns(p),
         Quiet, p = Worker => jobs[frames[p].job].status \in Started
  PROVE  LifeInv'
<1>1. Moves(p)
  BY EndOnly DEF Moves
<1> DEFINE f(step) == [Idle EXCEPT !.step = step, !.job = frames[p].job,
                                   !.workflow = frames[p].workflow]
<1>2. CASE p = Worker
  <2>1. frames'[p] = f("worker.ack")
    BY <1>2, BecomeOnly DEF DispatchReturns
  <2>2. /\ frames'[p].step = "worker.ack" /\ frames'[p].job = frames[p].job
        /\ frames'[p].workflow = frames[p].workflow
    BY <2>1, EndFrames
  <2>3. FrameLife(p, frames[p])
    BY DEF LifeInv
  <2>4. FrameLife(p, frames[p])'
    BY <1>2, <2>2, <2>3, SlotsAssumption
    DEF FrameLife, Quiet, CarrySteps, FinishSteps, WorkerSteps
  <2> QED
    BY <1>1, <1>2, <2>2, <2>4, QuietMoveKeepsLife DEF CarrySteps
<1>3. CASE p # Worker
  <2>1. frames'[p] = f("run.reload") /\ p \in Requests
    BY <1>3, BecomeOnly DEF DispatchReturns, Handlers
  <2>2. frames'[p].step = "run.reload"
    BY <2>1, EndFrames
  <2> QED
    BY <1>1, <2>1, <2>2, PlainMoveKeepsLife DEF CarrySteps
<1> QED
  BY <1>2, <1>3

LEMMA DispatchStepLife ==
  ASSUME TypeInv, LinkInv, LifeInv, NEW p \in Handlers, DispatchStep(p)
  PROVE  LifeInv'
<1> USE DEF At
<1>0. /\ frames[p] \in Frame
      /\ FrameLife(p, frames[p])
      /\ frames[p].step \in CarrySteps => frames[p].job \in JobIds /\ JobLife(frames[p].job)
      /\ Linked(frames[p], jobs, created)
      /\ p # Worker => p \in Requests
  BY LifeTypes DEF LifeInv, Handlers, LinkInv, FramesLinked
<1>1. CASE DispatchLoad(p)
  <2> DEFINE j == frames[p].job
             f == [frames[p] EXCEPT !.step = "dispatch.start", !.jobDoc = jobs[j]]
  <2>1. /\ f.step = "dispatch.start" /\ f.job = j /\ f.workflow = frames[p].workflow
        /\ f.jobDoc = jobs[j]
    BY <1>0 DEF Frame
  <2>2. frames'[p] = f /\ Moves(p) /\ Quiet /\ frames[p].step = "dispatch.load"
    BY <1>1, BecomeOnly DEF DispatchLoad, Moves, Quiet, store, n8n
  <2>3. /\ frames'[p].step = "dispatch.start" /\ frames'[p].job = j
        /\ frames'[p].workflow = frames[p].workflow /\ frames'[p].jobDoc = jobs[j]
    BY <2>1, <2>2
  <2> HIDE DEF f
  <2>4. Ready(j)
    <3>1. frames[p].workflow \in live /\ frames[p].workflow = jobs[j].workflowId
      BY <1>0, <1>1 DEF DispatchLoad, Linked, JobSteps
    <3> QED BY <1>0, <2>2, <3>1 DEF FrameLife, Gone
  <2>5. FrameLife(p, frames[p])'
    BY <1>0, <2>2, <2>3, <2>4, SlotsAssumption
    DEF FrameLife, Quiet, Ready, Gone, CarrySteps, FinishSteps, WorkerSteps, Started
  <2> QED
    BY <2>2, <2>3, <2>5, QuietMoveKeepsLife DEF CarrySteps
<1>2. CASE CredentialMissing(p) \/ WorkflowGone(p)
  <2>1. Quiet /\ Throw(p) /\ frames[p].step # "idle"
    BY <1>2 DEF CredentialMissing, WorkflowGone, Quiet, store, n8n, NeedsWorkflow
  <2>2. p = Worker => Ready(frames[p].job) \/ Gone(frames[p].job)
    <3>1. CASE CredentialMissing(p)
      BY <1>0, <3>1 DEF CredentialMissing, FrameLife
    <3>2. CASE WorkflowGone(p)
      BY <1>0, <2>1, <3>2 DEF WorkflowGone, FrameLife, Gone
    <3> QED BY <1>2, <3>1, <3>2
  <2> QED
    BY <2>1, <2>2, ThrowKeepsLife
<1>3. CASE AnswerOk(p) \/ FinishReread(p)
  <2>1. Quiet /\ DispatchReturns(p) /\ frames[p].step # "idle"
    BY <1>3 DEF AnswerOk, FinishReread, Quiet, store, n8n
  <2>2. p = Worker => jobs[frames[p].job].status \in Started
    BY <1>0, <1>3 DEF AnswerOk, FinishReread, FrameLife, FinishSteps
  <2> QED
    BY <2>1, <2>2, ReturnKeepsLife
<1>4. CASE PostRefused(p) \/ AnswerLost(p)
  <2> DEFINE f == [frames[p] EXCEPT !.step = "dispatch.fail"]
  <2>1. /\ f.step = "dispatch.fail" /\ f.job = frames[p].job
        /\ f.workflow = frames[p].workflow /\ f.jobDoc = frames[p].jobDoc
    BY <1>0 DEF Frame
  <2>2. /\ frames'[p] = f /\ Moves(p) /\ Quiet
        /\ frames[p].step \in {"dispatch.post", "dispatch.await"}
    BY <1>4, BecomeOnly DEF PostRefused, AnswerLost, Goto, Moves, Quiet, store, n8n
  <2>3. /\ frames'[p].step = "dispatch.fail" /\ frames'[p].job = frames[p].job
        /\ frames'[p].workflow = frames[p].workflow /\ frames'[p].jobDoc = frames[p].jobDoc
    BY <2>1, <2>2
  <2> HIDE DEF f
  <2>4. FrameLife(p, frames[p])'
    BY <1>0, <2>2, <2>3, SlotsAssumption
    DEF FrameLife, Quiet, CarrySteps, FinishSteps, WorkerSteps
  <2> QED
    BY <2>2, <2>3, <2>4, QuietMoveKeepsLife DEF CarrySteps
<1>5. CASE DispatchStart(p)
  <2> DEFINE j == frames[p].job
             loaded == frames[p].jobDoc
             doc == [loaded EXCEPT !.status = "processing"]
             f == [frames[p] EXCEPT !.step = "dispatch.post", !.jobDoc = doc]
  <2>1. /\ f.step = "dispatch.post" /\ f.job = j /\ f.workflow = frames[p].workflow
        /\ f.jobDoc = doc /\ doc.status = "processing"
    BY <1>0 DEF Frame, JobDoc
  <2>2. /\ frames'[p] = f /\ Moves(p) /\ frames[p].step = "dispatch.start"
        /\ jobs' = [jobs EXCEPT ![j] = SaveJob(doc, loaded, jobs[j])]
        /\ UNCHANGED <<queue, posts, succeeded, direct, live>>
    BY <1>5, BecomeOnly DEF DispatchStart, Moves, n8n
  <2>3. /\ frames'[p].step = "dispatch.post" /\ frames'[p].job = j
        /\ frames'[p].workflow = frames[p].workflow /\ frames'[p].jobDoc.status = "processing"
    BY <2>1, <2>2
  <2>4. j \in JobIds /\ JobLife(j) /\ Ready(j) /\ jobs[j].status \in Begun
    BY <1>0, <2>2 DEF CarrySteps, FrameLife
  <2>5. /\ \A i \in JobIds : i # j => jobs'[i] = jobs[i]
        /\ jobs'[j].workflowId = jobs[j].workflowId
        /\ jobs'[j].status = IF loaded.status = "processing" THEN jobs[j].status ELSE "processing"
    BY <2>1, <2>2, <2>4, LifeTypes DEF SaveJob, Written
  <2> HIDE DEF f, doc
  <2>6. jobs'[j].status \in Started
    BY <1>0, <2>2, <2>5 DEF FrameLife, Started
  <2>7. Onward(j) /\ JobLife(j)' /\ Ready(j)'
    BY <2>2, <2>3, <2>4, <2>5, <2>6
    DEF Onward, JobLife, Ready, Gone, Begun, Started, TerminalStatuses
  <2>8. FrameLife(p, frames[p])'
    BY <1>0, <2>2, <2>3, <2>5, <2>6, <2>7, SlotsAssumption
    DEF FrameLife, CarrySteps, FinishSteps, WorkerSteps, Begun, Started
  <2> QED
    BY <2>2, <2>3, <2>5, <2>7, <2>8, CarrierKeepsLife DEF CarrySteps
<1>6. CASE PostAccepted(p)
  <2> DEFINE j == frames[p].job
             f == [frames[p] EXCEPT !.step = "dispatch.await"]
  <2>1. /\ f.step = "dispatch.await" /\ f.job = j /\ f.workflow = frames[p].workflow
        /\ f.jobDoc = frames[p].jobDoc
    BY <1>0 DEF Frame
  <2>2. /\ frames'[p] = f /\ Moves(p) /\ frames[p].step = "dispatch.post"
        /\ posts' = [posts EXCEPT ![j] = posts[j] + 1]
        /\ UNCHANGED <<jobs, queue, succeeded, direct, live>>
    BY <1>6, BecomeOnly DEF PostAccepted, Goto, Moves, store
  <2>3. /\ frames'[p].step = "dispatch.await" /\ frames'[p].job = j
        /\ frames'[p].workflow = frames[p].workflow /\ frames'[p].jobDoc = frames[p].jobDoc
    BY <2>1, <2>2
  <2> HIDE DEF f
  <2>4. j \in JobIds /\ JobLife(j) /\ Ready(j) /\ jobs[j].status \in Started
    BY <1>0, <2>2 DEF CarrySteps, FrameLife
  <2>5. posts'[j] = posts[j] + 1 /\ \A i \in JobIds : i # j => posts'[i] = posts[i]
    BY <2>2, <2>4, LifeTypes
  <2>6. queue[j].state # "waiting" /\ posts[j] \in Nat /\ queue[j].stalls \in Nat
    BY <1>0, <2>2, <2>4, LifeTypes DEF FrameLife, CarrySteps
  <2>7. Onward(j) /\ JobLife(j)'
    BY <2>2, <2>3, <2>4, <2>5, <2>6 DEF Onward, JobLife, Ready, Gone
  <2>8. FrameLife(p, frames[p])'
    BY <1>0, <2>2, <2>3, SlotsAssumption
    DEF FrameLife, CarrySteps, FinishSteps, WorkerSteps
  <2> QED
    BY <2>2, <2>3, <2>5, <2>7, <2>8, CarrierKeepsLife DEF CarrySteps
<1>7. CASE DispatchFail(p)
  <2> DEFINE j == frames[p].job
             loaded == frames[p].jobDoc
             f == Finishing(frames[p], "failed", TRUE)
  <2>1. /\ f.step = "finish.load" /\ f.job = j /\ f.workflow = frames[p].workflow
        /\ f.nested = TRUE
    BY DEF Finishing, Idle
  <2> HIDE DEF f
  <2>2. /\ frames'[p] = f /\ Moves(p) /\ frames[p].step = "dispatch.fail"
        /\ UNCHANGED <<queue, posts, succeeded, direct, live>>
    <3>1. Become(p, f) /\ UNCHANGED <<queue, posts, succeeded, direct, live>>
      BY <1>7 DEF DispatchFail, n8n, f
    <3> QED BY <1>7, <3>1, BecomeOnly DEF DispatchFail, Moves
  <2>3. PICK text \in Errors :
            jobs' = [jobs EXCEPT ![j] =
                SaveJob([loaded EXCEPT !.status = "failed", !.errorMessage = text],
                        loaded, jobs[j])]
    BY <1>7 DEF DispatchFail
  <2>4. j \in JobIds /\ JobLife(j) /\ jobs[j].status \in Started /\ loaded.status = "processing"
    BY <1>0, <2>2 DEF CarrySteps, FrameLife
  <2>5. /\ \A i \in JobIds : i # j => jobs'[i] = jobs[i]
        /\ jobs'[j].workflowId = jobs[j].workflowId /\ jobs'[j].status = "failed"
    <3>1. [loaded EXCEPT !.status = "failed", !.errorMessage = text].status = "failed"
      BY <1>0 DEF Frame, JobDoc
    <3> QED BY <2>3, <2>4, <3>1, LifeTypes DEF SaveJob, Written
  <2>6. queue[j].state # "waiting"
    BY <1>0, <2>2 DEF FrameLife, CarrySteps
  <2>7. Onward(j) /\ JobLife(j)'
    BY <2>1, <2>2, <2>4, <2>5, <2>6 DEF Onward, JobLife, Gone, Begun, Started
  <2>8. FrameLife(p, frames[p])'
    BY <1>0, <2>1, <2>2, <2>4, <2>5, SlotsAssumption
    DEF FrameLife, CarrySteps, FinishSteps, WorkerSteps, Started
  <2> QED
    BY <2>1, <2>2, <2>5, <2>7, <2>8, CarrierKeepsLife DEF CarrySteps
<1>8. CASE FinishLoad(p) \/ FinishSave(p)
  <2>1. /\ Moves(p) /\ Quiet
        /\ frames[p].step \in {"finish.load", "finish.save"}
    BY <1>8, BecomeOnly DEF FinishLoad, FinishSave, Moves, Quiet, store, n8n
  <2>2. \/ /\ frames'[p].step \in FinishSteps /\ frames'[p].job = frames[p].job
           /\ frames'[p].workflow = frames[p].workflow
           /\ frames'[p].nested = frames[p].nested
        \/ frames'[p].step = "idle" /\ ~frames[p].nested
    <3> DEFINE f(step, doc) == [frames[p] EXCEPT !.step = step, !.workflowDoc = doc]
    <3>f. ASSUME NEW step, NEW doc
          PROVE  /\ f(step, doc).step = step /\ f(step, doc).job = frames[p].job
                 /\ f(step, doc).workflow = frames[p].workflow
                 /\ f(step, doc).nested = frames[p].nested
      BY <1>0 DEF Frame
    <3>1. CASE FinishLoad(p)
      <4>1. frames'[p] = f("finish.save", workflows[frames[p].workflow])
        BY <3>1, BecomeOnly DEF FinishLoad
      <4> QED BY <3>f, <4>1 DEF FinishSteps
    <3>2. CASE FinishSave(p) /\ frames[p].nested
      <4>1. frames'[p] = f("finish.reread", NullWorkflowDoc)
        BY <3>2, BecomeOnly DEF FinishSave
      <4> QED BY <3>f, <4>1 DEF FinishSteps
    <3>3. CASE FinishSave(p) /\ ~frames[p].nested
      BY <3>3, BecomeOnly, EndFrames DEF FinishSave
    <3> QED BY <1>8, <3>1, <3>2, <3>3
  <2>3. frames'[p].step \notin CarrySteps \cup {"report.latest", "report.save"}
    BY <2>2 DEF FinishSteps, CarrySteps
  <2>4. CASE p = Worker
    <3>1. FrameLife(p, frames[p])'
      BY <1>0, <2>1, <2>2, <2>3, <2>4, SlotsAssumption
      DEF FrameLife, Quiet, CarrySteps, FinishSteps, WorkerSteps
    <3> QED
      BY <1>0, <2>1, <2>2, <2>3, <2>4, <3>1, QuietMoveKeepsLife DEF FrameLife, FinishSteps
  <2>5. CASE p # Worker
    BY <1>0, <2>1, <2>3, <2>5, PlainMoveKeepsLife
  <2> QED
    BY <2>4, <2>5
<1> QED
  BY <1>1, <1>2, <1>3, <1>4, <1>5, <1>6, <1>7, <1>8 DEF DispatchStep

(* A new job has not been executed, nor handed to anyone. *)
LEMMA InsertKeepsLife ==
  ASSUME TypeInv, LinkInv, LifeInv, NEW w \in Workflows, NEW status \in {"draft", "queued"},
         InsertJob(w, status), UNCHANGED <<queue, posts, succeeded, direct, live>>
  PROVE  /\ \A j \in JobIds : JobLife(j)' /\ Onward(j)
         /\ \A q \in Handlers : Relies(q) =>
                frames[q].job # created' /\ KeepsEntry(frames[q].job)
         /\ created' \in JobIds /\ jobs'[created'].status = status
         /\ \A c \in JobIds : c = created' => Ready(c)' /\ queue[c].state = "none"
<1>1. /\ created \in Nat /\ created' = created + 1 /\ created' \in JobIds
      /\ jobs'[created'] = NewJob(w, status)
      /\ \A j \in JobIds : j # created' => jobs'[j] = jobs[j]
  BY InsertKeepsJobs, Ids DEF JobStatuses
<1>2. jobs'[created'].status = status
  BY <1>1 DEF NewJob
<1>3. /\ queue[created'].state = "none" /\ posts[created'] = 0
      /\ JobLife(created') /\ queue[created'].stalls = 0
  <2> DEFINE c == created + 1
  <2>1. c \in JobIds /\ c \in Nat /\ ~(c <= created) /\ JobLife(c)
    BY <1>1 DEF LifeInv
  <2>2. queue[c].state = "none" /\ ~(posts[c] > 0) /\ posts[c] \in Nat
    BY <2>1, LifeTypes DEF LinkInv, OnlyCreatedJobs
  <2>3. queue[c].stalls = 0
    BY <2>1, <2>2 DEF JobLife
  <2> QED BY <1>1, <2>1, <2>2, <2>3
<1>4. ASSUME NEW j \in JobIds, j # created' PROVE JobLife(j)' /\ Onward(j) /\ KeepsEntry(j)
  <2>1. JobLife(j) /\ jobs'[j] = jobs[j]
    BY <1>1, <1>4 DEF LifeInv
  <2> QED
    BY <2>1 DEF JobLife, Onward, KeepsEntry, Ready, Gone
<1>5. ASSUME NEW c \in JobIds, c = created'
      PROVE  Ready(c)' /\ JobLife(c)' /\ Onward(c) /\ queue[c].state = "none"
  <2>1. Ready(c)'
    BY <1>1, <1>2, <1>3, <1>5 DEF Ready, TerminalStatuses
  <2>2. JobLife(c) /\ ~(c <= created)
    BY <1>1, <1>3, <1>5
  <2> QED
    BY <1>2, <1>3, <1>5, <2>1, <2>2 DEF JobLife, Onward
<1>7. ASSUME NEW q \in Handlers, Relies(q)
      PROVE  frames[q].job # created' /\ KeepsEntry(frames[q].job)
  <2>1. frames[q].job \in JobIds
    BY <1>7, LifeTypes DEF Relies, LifeInv, FrameLife
  <2>2. frames[q].job <= created
    BY <1>1, <2>1 DEF LinkInv, FramesLinked, Linked
  <2>3. frames[q].job # created'
    BY <1>1, <2>1, <2>2, LifeTypes
  <2> QED BY <1>4, <2>1, <2>3
<1> QED
  BY <1>1, <1>2, <1>4, <1>5, <1>7

LEMMA RequestStepLife ==
  ASSUME TypeInv, LinkInv, LifeInv, NEW p \in Requests, RequestStep(p) \/ RunEnqueueFails(p)
  PROVE  LifeInv'
<1> USE DEF At
<1>0. /\ p \in Handlers /\ p # Worker /\ frames[p] \in Frame
      /\ FrameLife(p, frames[p]) /\ Linked(frames[p], jobs, created)
  BY LifeTypes, SlotsAssumption DEF LifeInv, Handlers, LinkInv, FramesLinked
<1>1. CASE DispatchStep(p)
  BY <1>0, <1>1, DispatchStepLife
<1>2. CASE RunMark(p) \/ RunReread(p)
  <2>1. Moves(p) /\ Quiet /\ frames'[p].step \in {"run.reread", "run.create"}
    <3>1. CASE RunMark(p)
      <4> DEFINE f == [Idle EXCEPT !.step = "run.reread", !.workflow = frames[p].workflow]
      <4>1. f.step = "run.reread"
        BY DEF Idle
      <4> HIDE DEF f
      <4>2. Become(p, f) /\ Quiet
        BY <3>1 DEF RunMark, Quiet, n8n, f
      <4> QED BY <1>0, <4>1, <4>2, BecomeOnly DEF Moves
    <3>2. CASE RunReread(p)
      BY <1>0, <3>2, BecomeOnly DEF RunReread, Goto, Moves, Quiet, store, n8n, Frame
    <3> QED BY <1>2, <3>1, <3>2
  <2> QED BY <2>1, PlainMoveKeepsLife DEF CarrySteps
<1>3. CASE RunReload(p) \/ ReportCount(p)
  <2> DEFINE f(o) == Finishing(frames[p], o, FALSE)
  <2>f. \A o : f(o).step = "finish.load"
    BY DEF Finishing, Idle
  <2> HIDE DEF f
  <2>0. Quiet /\ (Become(p, Idle) \/ \E o : Become(p, f(o)))
    BY <1>3 DEF RunReload, ReportCount, Quiet, store, n8n, f
  <2>1. Moves(p) /\ Quiet /\ frames'[p].step \in {"finish.load", "idle"}
    BY <1>0, <2>f, <2>0, BecomeOnly, EndFrames DEF Moves
  <2> QED BY <2>1, PlainMoveKeepsLife DEF CarrySteps
<1>4. CASE StatusSave(p) \/ TriggerAnswered(p) \/ RunEnqueueFails(p)
  <2>1. Moves(p) /\ Quiet /\ frames'[p].step = "idle"
    BY <1>0, <1>4, BecomeOnly, EndFrames
    DEF StatusSave, TriggerAnswered, RunEnqueueFails, Moves, Quiet, store, n8n
  <2> QED BY <2>1, PlainMoveKeepsLife DEF CarrySteps
<1>5. CASE RunCreate(p)
  <2> DEFINE w == frames[p].workflow
             f == [Idle EXCEPT
                     !.step = IF QueueEnabled THEN "run.enqueue" ELSE "dispatch.load",
                     !.workflow = w, !.job = created + 1]
  <2>1. w \in Workflows
    BY <1>0, <1>5 DEF RunCreate, Linked
  <2>2. /\ \A j \in JobIds : JobLife(j)' /\ Onward(j)
        /\ \A q \in Handlers : Relies(q) =>
                frames[q].job # created' /\ KeepsEntry(frames[q].job)
        /\ created' \in JobIds /\ jobs'[created'].status = "queued"
        /\ \A c \in JobIds : c = created' => Ready(c)' /\ queue[c].state = "none"
    BY <1>5, <2>1, InsertKeepsLife DEF RunCreate, n8n
  <2>3. /\ frames'[p] = f /\ Moves(p) /\ created' = created + 1
        /\ UNCHANGED <<queue, posts, succeeded, direct, live>>
    BY <1>0, <1>5, BecomeOnly DEF RunCreate, Moves, n8n, InsertJob
  <2>4. frames'[p].job = created' /\ frames'[p].step \in {"run.enqueue", "dispatch.load"}
    BY <2>3 DEF Idle
  <2>5. FrameLife(p, frames[p])'
    BY <1>0, <2>2, <2>3, <2>4 DEF FrameLife, Begun, CarrySteps, FinishSteps
  <2>6. \A j \in JobIds, q \in Requests : p \in Requests /\ q # p /\ Carries(p, j)'
            => ~Carries(q, j)
    BY <2>2, <2>4 DEF Carries, Relies, Handlers
  <2>7. WorkerHolds'
    BY <1>0, <2>3 DEF Moves, LifeInv, WorkerHolds, Handlers
  <2> QED BY <1>0, <2>2, <2>3, <2>5, <2>6, <2>7, MoveKeepsLife
<1>6. CASE RunEnqueue(p)
  <2> DEFINE j == frames[p].job
  <2>1. /\ frames[p].step = "run.enqueue" /\ Moves(p) /\ frames'[p].step = "idle"
        /\ queue' = [queue EXCEPT ![j] = Added]
        /\ UNCHANGED <<jobs, posts, succeeded, direct, live>>
    BY <1>0, <1>6, BecomeOnly, EndFrames DEF RunEnqueue, Moves, n8n
  <2>2. /\ j \in JobIds /\ queue[j].state = "none" /\ Ready(j)
        /\ jobs[j].status \in Begun
    BY <1>0, <2>1, LifeTypes DEF FrameLife, CarrySteps
  <2>3. /\ \A i \in JobIds : i # j => queue'[i] = queue[i]
        /\ queue'[j].state = "waiting" /\ queue'[j].stalls = 0
    BY <2>1, <2>2, LifeTypes DEF Added, NoEntry
  <2>4. ASSUME NEW i \in JobIds, i # j PROVE JobLife(i)' /\ Onward(i) /\ KeepsEntry(i)
    <3>1. JobLife(i) /\ queue'[i] = queue[i]
      BY <2>3, <2>4 DEF LifeInv
    <3> QED BY <2>1, <3>1 DEF JobLife, Onward, KeepsEntry, Ready, Gone
  <2>5. ASSUME NEW i \in JobIds, i = j PROVE JobLife(i)' /\ Onward(i)
    <3>1. JobLife(i) /\ queue[i].stalls = 0
      BY <2>2, <2>5 DEF LifeInv, JobLife
    <3> QED
      BY <2>1, <2>2, <2>3, <2>5, <3>1, StallsAssumption
      DEF JobLife, Onward, Ready, Gone
  <2>6. \A q \in Handlers : q # p /\ Relies(q) => KeepsEntry(frames[q].job)
    <3> SUFFICES ASSUME NEW q \in Handlers, q # p, Relies(q) PROVE KeepsEntry(frames[q].job)
      OBVIOUS
    <3>1. frames[q].job # j
      BY <1>0, <2>1, Alone DEF CarrySteps
    <3>2. frames[q].job \in JobIds
      BY LifeTypes DEF Relies, LifeInv, FrameLife
    <3> QED BY <2>4, <3>1, <3>2
  <2>7. FrameLife(p, frames[p])' /\ \A i \in JobIds : ~Carries(p, i)'
    BY <1>0, <2>1 DEF FrameLife, CarrySteps, Carries
  <2>8. WorkerHolds'
    <3>1. \A i \in JobIds : queue'[i].state = "active" => queue[i].state = "active"
      BY <2>3
    <3> QED BY <1>0, <2>1, <3>1 DEF Moves, LifeInv, WorkerHolds, Handlers
  <2> QED BY <1>0, <2>1, <2>4, <2>5, <2>6, <2>7, <2>8, MoveKeepsLife
<1>7. CASE ReportLatest(p)
  BY <1>0, <1>7 DEF ReportLatest, FrameLife
<1>8. CASE ReportSave(p)
  <2> DEFINE j == frames[p].job
             loaded == frames[p].jobDoc
             outcome == frames[p].outcome
  <2>1. /\ frames[p].step = "report.save" /\ Moves(p)
        /\ frames'[p].step \in {"report.count", "finish.load"}
        /\ UNCHANGED <<queue, posts, succeeded, direct, live>>
    <3> DEFINE f == Finishing(frames[p], outcome, FALSE)
               g == [Idle EXCEPT !.step = "report.count", !.job = j,
                                 !.workflow = frames[p].workflow, !.outcome = outcome]
    <3>1. f.step = "finish.load" /\ g.step = "report.count"
      BY DEF Finishing, Idle
    <3> HIDE DEF f, g
    <3>2. /\ Become(p, f) \/ Become(p, g)
          /\ UNCHANGED <<queue, posts, succeeded, direct, live>>
      BY <1>8 DEF ReportSave, n8n, f, g
    <3> QED BY <1>0, <1>8, <3>1, <3>2, BecomeOnly DEF ReportSave, Moves
  <2>2. /\ j \in JobIds /\ posts[j] > 0 /\ (outcome = "completed" => j \in succeeded)
        /\ JobLife(j) /\ outcome \in Outcomes
    BY <1>0, <2>1, LifeTypes DEF FrameLife, LifeInv, Frame
  <2>3. PICK text : jobs' = [jobs EXCEPT ![j] =
            SaveJob([loaded EXCEPT !.status = outcome, !.errorMessage = text], loaded, jobs[j])]
    BY <1>8 DEF ReportSave
  <2>4. /\ \A i \in JobIds : i # j => jobs'[i] = jobs[i]
        /\ jobs'[j].workflowId = jobs[j].workflowId
        /\ jobs'[j].status \in {outcome, jobs[j].status}
    <3>1. [loaded EXCEPT !.status = outcome, !.errorMessage = text].status = outcome
      BY <1>0 DEF Frame, JobDoc
    <3> QED BY <2>2, <2>3, <3>1, LifeTypes DEF SaveJob, Written
  <2>5. jobs[j].status \in Started /\ jobs'[j].status \in Started
    BY <2>2, <2>4 DEF JobLife, Started, Outcomes
  <2>6. ASSUME NEW i \in JobIds PROVE JobLife(i)' /\ Onward(i) /\ KeepsEntry(i)
    <3>1. CASE i # j
      <4>1. JobLife(i) /\ jobs'[i] = jobs[i]
        BY <2>4, <3>1 DEF LifeInv
      <4> QED BY <2>1, <4>1 DEF JobLife, Onward, KeepsEntry, Ready, Gone
    <3>2. CASE i = j
      <4>1. Ready(i) => Ready(i)'
        BY <2>1, <2>2, <3>2, LifeTypes DEF Ready
      <4> QED
        BY <2>1, <2>2, <2>4, <2>5, <3>2, <4>1
        DEF JobLife, Onward, KeepsEntry, Gone, Begun, Started
    <3> QED BY <3>1, <3>2
  <2>7. \A q \in Handlers : q # p /\ Relies(q) => KeepsEntry(frames[q].job)
    BY <2>6, LifeTypes DEF Relies, LifeInv, FrameLife
  <2>8. FrameLife(p, frames[p])' /\ \A i \in JobIds : ~Carries(p, i)'
    BY <1>0, <2>1 DEF FrameLife, CarrySteps, Carries
  <2>9. WorkerHolds'
    BY <1>0, <2>1 DEF Moves, LifeInv, WorkerHolds, Handlers
  <2> QED BY <1>0, <2>1, <2>6, <2>7, <2>8, <2>9, MoveKeepsLife
<1> QED
  BY <1>1, <1>2, <1>3, <1>4, <1>5, <1>6, <1>7, <1>8 DEF RequestStep

(* Requests come in, and n8n reports on the executions of jobs by name. *)
LEMMA ArrivalLife ==
  ASSUME NamedReports, TypeInv, LinkInv, LifeInv, NEW p \in Requests, Arrival(p)
  PROVE  LifeInv'
<1>0. p \in Handlers /\ p # Worker /\ \A w \in Workflows : direct[w] = 0
  BY SlotsAssumption DEF Handlers, LifeInv, NoDirect
<1>1. ASSUME NEW w \in Workflows, Run(p, w) \/ SetStatus(p, w) PROVE LifeInv'
  <2> DEFINE f(step) == [Idle EXCEPT !.step = step, !.workflow = w,
                                     !.workflowDoc = workflows[w]]
  <2>1. \A step : f(step).step = step
    BY DEF Idle
  <2> HIDE DEF f
  <2>2. Quiet /\ \E step \in {"run.mark", "status.save"} : Become(p, f(step))
    BY <1>1 DEF Run, SetStatus, Quiet, store, n8n, f
  <2>3. Moves(p) /\ frames'[p].step \in {"run.mark", "status.save"}
    BY <1>0, <2>1, <2>2, BecomeOnly DEF Moves
  <2> QED BY <2>2, <2>3, PlainMoveKeepsLife DEF CarrySteps
<1>2. ASSUME NEW w \in Workflows, Trigger(p, w) PROVE FALSE
  BY <1>0, <1>2 DEF Trigger, NamedReports
<1>3. ASSUME NEW w \in Workflows, NEW outcome \in Outcomes, ReportDirect(p, w, outcome)
      PROVE  FALSE
  <2>1. directReports[w] \in Nat /\ direct[w] * ReportsPerExecution = 0
    BY <1>0, BoundsAssumption DEF TypeInv, TypeOK
  <2> QED BY <1>3, <2>1 DEF ReportDirect
<1>4. ASSUME NEW j \in JobIds, NEW outcome \in Outcomes, Report(p, j, outcome) PROVE LifeInv'
  <2>1. posts[j] > 0
    <3>1. reports[j] \in Nat /\ posts[j] \in Nat
      BY DEF TypeInv, TypeOK
    <3>2. CASE posts[j] = 0
      BY <1>4, <3>1, <3>2, BoundsAssumption DEF Report
    <3> QED BY <3>1, <3>2
  <2>2. /\ Become(p, Found(j, outcome)) /\ UNCHANGED <<jobs, queue, posts, direct, live>>
        /\ succeeded' = IF outcome = "completed" THEN succeeded \cup {j} ELSE succeeded
    BY <1>4 DEF Report, NamedReports, store
  <2>3. frames'[p] = Found(j, outcome) /\ Moves(p)
    BY <1>0, <2>2, BecomeOnly DEF Moves
  <2>4. \/ frames'[p].step = "idle"
        \/ /\ frames'[p].step = "report.save" /\ frames'[p].job = j
           /\ frames'[p].outcome = outcome
    BY <2>3 DEF Found, Idle
  <2>5. FrameLife(p, frames[p])' /\ \A i \in JobIds : ~Carries(p, i)'
    BY <1>0, <2>1, <2>2, <2>4 DEF FrameLife, CarrySteps, Carries
  <2>6. ASSUME NEW i \in JobIds PROVE JobLife(i)' /\ Onward(i) /\ KeepsEntry(i)
    <3>1. JobLife(i)
      BY DEF LifeInv
    <3> QED
      BY <2>1, <2>2, <3>1 DEF JobLife, Onward, KeepsEntry, Ready, Gone
  <2>7. \A q \in Handlers : q # p /\ Relies(q) => KeepsEntry(frames[q].job)
    BY <2>6, LifeTypes DEF Relies, LifeInv, FrameLife
  <2>8. WorkerHolds'
    BY <1>0, <2>2, <2>3 DEF Moves, LifeInv, WorkerHolds, Handlers, At
  <2> QED BY <1>0, <2>2, <2>3, <2>5, <2>6, <2>7, <2>8, MoveKeepsLife
<1> QED
  BY <1>1, <1>2, <1>3, <1>4 DEF Arrival

(* The worker takes an entry, or settles the one it holds. *)
LEMMA WorkerLife ==
  ASSUME TypeInv, LinkInv, LifeInv,
         (\E j \in JobIds : WorkerTake(j)) \/ WorkerAck \/ WorkerNack
  PROVE  LifeInv'
<1> USE DEF At
<1>0. /\ Worker \in Handlers /\ Worker \notin Requests
      /\ FrameLife(Worker, frames[Worker])
      /\ \A j \in JobIds : JobLife(j)
      /\ WorkerHolds
  BY SlotsAssumption DEF Handlers, LifeInv
(* Entry j changes, and the worker has or had it. *)
<1>1. ASSUME NEW j \in JobIds, UNCHANGED <<jobs, posts, succeeded, direct, live>>,
             Moves(Worker), queue[j].state \in {"waiting", "active"},
             \A i \in JobIds : i # j => queue'[i] = queue[i],
             queue'[j].state \in EntryStates \ {"none"}, queue'[j].stalls = queue[j].stalls,
             queue'[j].state = "done" => jobs[j].status \in Started,
             queue'[j].state = "waiting" => Ready(j) \/ Gone(j),
             FrameLife(Worker, frames[Worker])', WorkerHolds'
      PROVE  LifeInv'
  <2>1. ASSUME NEW i \in JobIds PROVE JobLife(i)' /\ Onward(i)
    <3>1. CASE i # j
      BY <1>0, <1>1, <3>1 DEF JobLife, Onward, Ready, Gone
    <3>2. CASE i = j
      BY <1>0, <1>1, <3>2 DEF JobLife, Onward, Ready, Gone
    <3> QED BY <3>1, <3>2
  <2>2. ASSUME NEW q \in Handlers, q # Worker, Relies(q) PROVE KeepsEntry(frames[q].job)
    <3>1. frames[q].job \in JobIds /\ queue[frames[q].job].state = "none"
      BY <2>2, LifeTypes DEF Relies, LifeInv, FrameLife, Handlers
    <3>2. queue'[frames[q].job] = queue[frames[q].job]
      BY <1>1, <3>1
    <3> QED BY <1>1, <2>2, <3>1, <3>2 DEF KeepsEntry, Ready, Moves
  <2>3. \A i \in JobIds, q \in Requests : Worker \in Requests /\ q # Worker /\ Carries(Worker, i)'
            => ~Carries(q, i)
    BY <1>0
  <2>4. UNCHANGED direct
    BY <1>1
  <2> QED BY <1>0, <1>1, <2>1, <2>2, <2>3, <2>4, MoveKeepsLife
<1>2. ASSUME NEW j \in JobIds, WorkerTake(j) PROVE LifeInv'
  <2> DEFINE f == [Idle EXCEPT !.step = "dispatch.load", !.job = j,
                               !.workflow = jobs[j].workflowId]
  <2>1. f.step = "dispatch.load" /\ f.job = j /\ f.workflow = jobs[j].workflowId
    BY DEF Idle
  <2> HIDE DEF f
  <2>2. /\ frames'[Worker] = f /\ Moves(Worker) /\ queue[j].state = "waiting"
        /\ frames[Worker].step = "idle"
        /\ queue' = [queue EXCEPT ![j] = Taken(queue[j])]
        /\ UNCHANGED <<jobs, posts, succeeded, direct, live>>
    <3>1. Become(Worker, f) /\ Free(Worker) /\ UNCHANGED <<jobs, posts, succeeded, direct, live>>
      BY <1>2 DEF WorkerTake, n8n, f
    <3> QED BY <1>0, <1>2, <3>1, BecomeOnly, EndFrames DEF WorkerTake, Moves, Free
  <2>3. /\ \A i \in JobIds : i # j => queue'[i] = queue[i]
        /\ queue'[j].state = "active" /\ queue'[j].stalls = queue[j].stalls
    BY <2>2, LifeTypes DEF Taken, Entry
  <2>4. FrameLife(Worker, frames[Worker])'
    BY <1>0, <2>1, <2>2, <2>3
    DEF FrameLife, JobLife, Ready, Gone, CarrySteps, FinishSteps, WorkerSteps
  <2>5. WorkerHolds'
    BY <1>0, <2>1, <2>2, <2>3 DEF WorkerHolds
  <2> QED
    BY <1>0, <1>1, <2>2, <2>3, <2>4, <2>5 DEF EntryStates
<1>3. CASE WorkerAck \/ WorkerNack
  <2> DEFINE j == frames[Worker].job
  <2>1. /\ frames'[Worker] = Idle /\ Moves(Worker)
        /\ frames[Worker].step \in {"worker.ack", "worker.nack"}
        /\ UNCHANGED <<jobs, posts, succeeded, direct, live>>
    BY <1>0, <1>3, BecomeOnly DEF WorkerAck, WorkerNack, Moves, n8n
  <2>2. j \in JobIds /\ queue[j].state = "active"
    BY <1>0, <2>1 DEF FrameLife
  <2>3. /\ \A i \in JobIds : i # j => queue'[i] = queue[i]
        /\ queue'[j].stalls = queue[j].stalls
        /\ \/ queue'[j].state = "done" /\ frames[Worker].step = "worker.ack"
           \/ queue'[j].state \in {"waiting", "failed"} /\ frames[Worker].step = "worker.nack"
    <3>1. CASE WorkerAck
      BY <2>2, <3>1, LifeTypes DEF WorkerAck, Completed, Entry
    <3>2. CASE WorkerNack
      BY <2>2, <3>2, LifeTypes DEF WorkerNack, Rejected, Entry
    <3> QED BY <1>3, <3>1, <3>2
  <2>4. FrameLife(Worker, frames[Worker])'
    <3>1. frames'[Worker].step = "idle"
      BY <1>0, <2>1, EndFrames
    <3> QED BY <3>1 DEF FrameLife, CarrySteps, FinishSteps
  <2>5. WorkerHolds'
    BY <1>0, <2>1, <2>2, <2>3 DEF WorkerHolds
  <2>6. PICK i \in JobIds : i = j
    BY <2>2
  <2> HIDE DEF j
  <2>7. /\ queue[i].state = "active" /\ \A k \in JobIds : k # i => queue'[k] = queue[k]
        /\ queue'[i].stalls = queue[i].stalls
        /\ queue'[i].state \in EntryStates \ {"none"}
        /\ queue'[i].state = "done" => jobs[i].status \in Started
        /\ queue'[i].state = "waiting" => Ready(i) \/ Gone(i)
    BY <1>0, <2>1, <2>2, <2>3, <2>6 DEF FrameLife, EntryStates, j
  <2> QED
    BY <1>1, <2>1, <2>4, <2>5, <2>7
<1> QED
  BY <1>2, <1>3

(* The process dies: an entry the worker held may be delivered again. *)
LEMMA CrashLife ==
  ASSUME TypeInv, LinkInv, LifeInv, Crash
  PROVE  LifeInv'
<1>1. /\ \A p \in Handlers : frames'[p] = Idle
      /\ \A j \in JobIds : queue'[j] = IF queue[j].state = "active"
                                       THEN Stalled(queue[j]) ELSE queue[j]
      /\ UNCHANGED <<jobs, posts, succeeded, direct, live>>
  BY DEF Crash, n8n
<1>2. \A p \in Handlers : FrameLife(p, frames[p])' /\ frames'[p].step = "idle"
  BY <1>1, EndFrames DEF FrameLife, CarrySteps, FinishSteps
<1>3. ASSUME NEW j \in JobIds PROVE JobLife(j)' /\ queue'[j].state # "active"
  <2>1. JobLife(j) /\ queue[j] \in Entry /\ posts[j] \in Nat /\ queue[j].stalls \in Nat
    BY LifeTypes DEF LifeInv
  <2>2. CASE queue[j].state = "active"
    <3>1. /\ queue'[j].stalls = queue[j].stalls + 1
          /\ queue'[j].state = IF queue[j].stalls < MaxStalls THEN "waiting" ELSE "failed"
      BY <1>1, <2>1, <2>2 DEF Stalled, Entry
    <3>2. posts[j] <= queue'[j].stalls /\ queue'[j].stalls > 0
          /\ (queue'[j].state = "waiting" => queue'[j].stalls <= MaxStalls)
      BY <2>1, <3>1, StallsAssumption DEF JobLife
    <3>3. Ready(j)'
      BY <1>1, <3>2 DEF Ready
    <3> QED
      BY <1>1, <2>1, <2>2, <3>1, <3>2, <3>3 DEF JobLife
  <2>3. CASE queue[j].state # "active"
    BY <1>1, <2>1, <2>3 DEF JobLife, Ready, Gone
  <2> QED BY <2>2, <2>3
<1>4. OneCarrier'
  BY <1>2 DEF OneCarrier, Carries, CarrySteps, Handlers
<1>5. WorkerHolds' /\ NoDirect'
  BY <1>1, <1>3 DEF WorkerHolds, NoDirect, LifeInv
<1> QED
  BY <1>2, <1>3, <1>4, <1>5 DEF LifeInv

(* Users create drafts and remove workflows. *)
LEMMA UserLife ==
  ASSUME TypeInv, LinkInv, LifeInv, NEW w \in Workflows, CreateDraft(w) \/ Remove(w)
  PROVE  LifeInv'
<1>1. /\ \A j \in JobIds : JobLife(j)' /\ Onward(j)
      /\ \A q \in Handlers : Relies(q) => KeepsEntry(frames[q].job)
  <2>1. CASE CreateDraft(w)
    BY <2>1, InsertKeepsLife DEF CreateDraft, n8n
  <2>2. CASE Remove(w)
    <3>1. /\ UNCHANGED <<jobs, queue, posts, succeeded>> /\ live' \subseteq live
      BY <2>2 DEF Remove, n8n
    <3>2. \A j \in JobIds : JobLife(j)' /\ Onward(j) /\ KeepsEntry(j)
      BY <3>1 DEF LifeInv, JobLife, Onward, KeepsEntry, Ready, Gone
    <3> QED BY <3>2, LifeTypes DEF Relies, LifeInv, FrameLife
  <2> QED BY <2>1, <2>2
<1>2. UNCHANGED <<frames, queue, direct>>
  BY DEF CreateDraft, Remove, n8n
<1>3. \A q \in Handlers : FrameLife(q, frames[q])'
  BY <1>1, <1>2, FrameKept
<1> QED
  BY <1>1, <1>2, <1>3 DEF LifeInv, OneCarrier, Carries, WorkerHolds, NoDirect, At

LEMMA LifeInit == Init => LifeInv
<1> SUFFICES ASSUME Init PROVE LifeInv
  OBVIOUS
<1>1. \A j \in JobIds : JobLife(j)
  BY DEF Init, JobLife, NoJobDoc, NoEntry
<1>2. \A p \in Handlers : FrameLife(p, frames[p]) /\ frames[p].step = "idle"
  BY EndFrames DEF Init, FrameLife, CarrySteps, FinishSteps
<1>3. OneCarrier /\ WorkerHolds /\ NoDirect
  BY <1>2 DEF Init, OneCarrier, Carries, CarrySteps, WorkerHolds, NoEntry, NoDirect, Handlers
<1> QED
  BY <1>1, <1>2, <1>3 DEF LifeInv

LEMMA LifeStep ==
  ASSUME NamedReports, TypeInv, LinkInv, LifeInv, [Next]_vars
  PROVE  LifeInv'
<1>1. ASSUME NEW p \in Requests, Arrival(p) \/ RequestStep(p) \/ RunEnqueueFails(p)
      PROVE  LifeInv'
  BY <1>1, ArrivalLife, RequestStepLife
<1>2. CASE WorkerStep \/ \E j \in JobIds : WorkerTake(j)
  BY <1>2, DispatchStepLife, WorkerLife DEF WorkerStep, Handlers
<1>3. CASE Crash \/ \E w \in Workflows : CreateDraft(w) \/ Remove(w)
  BY <1>3, CrashLife, UserLife
<1>4. CASE UNCHANGED vars
  <2>1. Quiet /\ UNCHANGED frames
    BY <1>4 DEF vars, store, n8n, Quiet
  <2>2. \A j \in JobIds : JobLife(j)' /\ Onward(j) /\ KeepsEntry(j)
    BY <2>1, QuietJobs
  <2>3. \A q \in Handlers : FrameLife(q, frames[q])'
    BY <2>1, <2>2, FrameKept, LifeTypes DEF Relies, LifeInv, FrameLife
  <2> QED
    BY <2>1, <2>2, <2>3 DEF Quiet, LifeInv, OneCarrier, Carries, WorkerHolds, NoDirect, At
<1> QED
  BY <1>1, <1>2, <1>3, <1>4 DEF Next

LEMMA LifeInvariant == NamedReports => (Spec => []LifeInv)
<1> SUFFICES ASSUME NamedReports PROVE Spec => []LifeInv
  OBVIOUS
<1>1. TypeInv /\ LinkInv /\ LifeInv /\ [Next]_vars => LifeInv'
  BY LifeStep
<1> QED
  BY <1>1, LifeInit, TypeInvariant, LinkInvariant, PTL DEF Spec

------------------------------------------------------------------------------
(* Every step is a step in the life of one job, or none *)

LifecycleStep == [\E j \in JobIds : Lifecycle!JobStep(j)]_(Lifecycle!lifecycle)

SameStatus(i) == jobs'[i].status = jobs[i].status
SameStalls == \A i \in JobIds : queue'[i].stalls = queue[i].stalls

LEMMA Stutters ==
  ASSUME \A i \in JobIds : SameStatus(i), SameStalls, UNCHANGED <<posts, succeeded>>
  PROVE  LifecycleStep
  BY DEF LifecycleStep, Lifecycle!lifecycle, SameStatus, SameStalls

(* The changes a job's status may make. *)
Advances(j) ==
    \/ jobs[j].status = "none" /\ jobs'[j].status \in {"draft", "queued"}
    \/ /\ jobs'[j].status = "processing"
       /\ Ready(j)
       /\ jobs[j].status \in {"queued"} \cup TerminalStatuses
    \/ jobs'[j].status = "completed" /\ jobs[j].status \in Started /\ j \in succeeded
    \/ /\ jobs'[j].status = "failed"
       /\ jobs[j].status \in Started
       /\ jobs[j].status = "processing" \/ posts[j] > 0
    \/ SameStatus(j)

(* One job changes its status. *)
LEMMA OneStatus ==
  ASSUME NEW j \in JobIds, SameStalls, UNCHANGED <<posts, succeeded>>,
         \A i \in JobIds : i # j => SameStatus(i), Advances(j)
  PROVE  LifecycleStep
<1>1. ASSUME NEW status, jobs'[j].status = status PROVE Lifecycle!BecomesPhase(j, status)
  BY <1>1 DEF Lifecycle!BecomesPhase, SameStatus
<1>2. UNCHANGED <<posts, [i \in JobIds |-> queue[i].stalls], succeeded>>
  BY DEF SameStalls
<1>3. CASE jobs[j].status = "none" /\ jobs'[j].status \in {"draft", "queued"}
  <2>1. Lifecycle!Create(j)
    BY <1>1, <1>2, <1>3 DEF Lifecycle!Create
  <2> QED BY <2>1 DEF LifecycleStep, Lifecycle!JobStep
<1>4. CASE /\ jobs'[j].status = "processing" /\ Ready(j)
           /\ jobs[j].status \in {"queued"} \cup TerminalStatuses
  <2>1. Lifecycle!Due(j) /\ Lifecycle!Open(j, {"queued"})
    BY <1>4 DEF Lifecycle!Due, Lifecycle!Open, Lifecycle!Ended, Ready, TerminalStatuses
  <2>2. Lifecycle!Start(j)
    BY <1>1, <1>2, <1>4, <2>1 DEF Lifecycle!Start
  <2> QED BY <2>2 DEF LifecycleStep, Lifecycle!JobStep
<1>5. CASE jobs'[j].status = "completed" /\ jobs[j].status \in Started /\ j \in succeeded
  <2>1. Lifecycle!Complete(j)
    BY <1>1, <1>2, <1>5 DEF Lifecycle!Complete, Lifecycle!Ended, Started
  <2> QED BY <2>1 DEF LifecycleStep, Lifecycle!JobStep
<1>6. CASE /\ jobs'[j].status = "failed" /\ jobs[j].status \in Started
           /\ jobs[j].status = "processing" \/ posts[j] > 0
  <2>1. Lifecycle!Fail(j)
    BY <1>1, <1>2, <1>6 DEF Lifecycle!Fail, Lifecycle!Ended, Started
  <2> QED BY <2>1 DEF LifecycleStep, Lifecycle!JobStep
<1>7. CASE SameStatus(j)
  BY <1>7, Stutters
<1> QED
  BY <1>3, <1>4, <1>5, <1>6, <1>7 DEF Advances

(* A step that changes no job, entry or execution says nothing. *)
LEMMA QuietImplements ==
  ASSUME Quiet
  PROVE  LifecycleStep
  BY Stutters DEF Quiet, SameStatus, SameStalls

LEMMA DispatchImplements ==
  ASSUME TypeInv, LinkInv, LifeInv, NEW p \in Handlers, DispatchStep(p)
  PROVE  LifecycleStep
<1> USE DEF At
<1>0. /\ frames[p] \in Frame
      /\ FrameLife(p, frames[p])
      /\ frames[p].step \in CarrySteps => frames[p].job \in JobIds /\ JobLife(frames[p].job)
  BY LifeTypes DEF LifeInv
<1>1. CASE ~(DispatchStart(p) \/ PostAccepted(p) \/ DispatchFail(p))
  <2>1. Quiet
    BY <1>1 DEF DispatchStep, DispatchLoad, CredentialMissing, WorkflowGone, AnswerOk,
       FinishReread, PostRefused, AnswerLost, FinishLoad, FinishSave, Quiet, store, n8n
  <2> QED BY <2>1, QuietImplements
<1>2. CASE DispatchStart(p)
  <2> DEFINE j == frames[p].job
             loaded == frames[p].jobDoc
             doc == [loaded EXCEPT !.status = "processing"]
  <2>1. /\ frames[p].step = "dispatch.start" /\ doc.status = "processing"
        /\ jobs' = [jobs EXCEPT ![j] = SaveJob(doc, loaded, jobs[j])]
        /\ UNCHANGED <<queue, posts, succeeded>>
    BY <1>0, <1>2 DEF DispatchStart, n8n, Frame, JobDoc
  <2>2. j \in JobIds /\ JobLife(j) /\ Ready(j) /\ jobs[j].status \in Begun
    BY <1>0, <2>1 DEF CarrySteps, FrameLife
  <2>3. /\ \A i \in JobIds : i # j => SameStatus(i)
        /\ jobs'[j].status \in {jobs[j].status, "processing"}
    BY <2>1, <2>2, LifeTypes DEF SaveJob, Written, SameStatus
  <2>4. Advances(j)
    BY <2>2, <2>3 DEF Advances, SameStatus, Begun, TerminalStatuses
  <2> HIDE DEF j
  <2> QED BY <2>1, <2>2, <2>3, <2>4, OneStatus DEF SameStalls
<1>3. CASE PostAccepted(p)
  <2> DEFINE j == frames[p].job
  <2>1. /\ frames[p].step = "dispatch.post"
        /\ posts' = [posts EXCEPT ![j] = posts[j] + 1]
        /\ UNCHANGED <<jobs, queue, succeeded>>
    BY <1>3 DEF PostAccepted, store
  <2>2. j \in JobIds /\ Ready(j) /\ jobs[j].status \in Started
    BY <1>0, <2>1 DEF CarrySteps, FrameLife
  <2>3. Lifecycle!Due(j) /\ Lifecycle!Open(j, {"processing"})
    BY <2>2
    DEF Lifecycle!Due, Lifecycle!Open, Lifecycle!Ended, Ready, Started, TerminalStatuses
  <2>4. Lifecycle!Execute(j)
    BY <2>1, <2>3 DEF Lifecycle!Execute
  <2> QED BY <2>2, <2>4 DEF LifecycleStep, Lifecycle!JobStep
<1>4. CASE DispatchFail(p)
  <2> DEFINE j == frames[p].job
             loaded == frames[p].jobDoc
  <2>1. /\ frames[p].step = "dispatch.fail"
        /\ UNCHANGED <<queue, posts, succeeded>>
    BY <1>4 DEF DispatchFail, n8n
  <2>2. PICK text \in Errors :
            jobs' = [jobs EXCEPT ![j] =
                SaveJob([loaded EXCEPT !.status = "failed", !.errorMessage = text],
                        loaded, jobs[j])]
    BY <1>4 DEF DispatchFail
  <2>3. j \in JobIds /\ JobLife(j) /\ jobs[j].status \in Started /\ loaded.status = "processing"
    BY <1>0, <2>1 DEF CarrySteps, FrameLife
  <2>4. /\ \A i \in JobIds : i # j => SameStatus(i)
        /\ jobs'[j].status = "failed"
    <3>1. [loaded EXCEPT !.status = "failed", !.errorMessage = text].status = "failed"
      BY <1>0 DEF Frame, JobDoc
    <3> QED BY <2>2, <2>3, <3>1, LifeTypes DEF SaveJob, Written, SameStatus
  <2>5. Advances(j)
    BY <2>3, <2>4 DEF Advances, SameStatus, JobLife, Started
  <2> HIDE DEF j
  <2> QED BY <2>1, <2>3, <2>4, <2>5, OneStatus DEF SameStalls
<1> QED
  BY <1>1, <1>2, <1>3, <1>4

(* A job appears. *)
LEMMA InsertImplements ==
  ASSUME TypeInv, LinkInv, NEW w \in Workflows, NEW status \in {"draft", "queued"},
         InsertJob(w, status), UNCHANGED <<queue, posts, succeeded>>
  PROVE  LifecycleStep
<1>1. /\ created \in Nat /\ created' = created + 1 /\ created' \in JobIds
      /\ jobs'[created'] = NewJob(w, status)
      /\ \A j \in JobIds : j # created' => jobs'[j] = jobs[j]
  BY InsertKeepsJobs, Ids DEF JobStatuses
<1>2. ASSUME NEW c \in JobIds, c = created' PROVE LifecycleStep
  <2>1. jobs[c].status = "none" /\ jobs'[c].status = status
    BY <1>1, <1>2, Ids DEF LinkInv, JobsInOrder, NoJobDoc, NewJob
  <2>2. Advances(c)
    BY <2>1 DEF Advances
  <2> QED BY <1>1, <1>2, <2>2, OneStatus DEF SameStatus, SameStalls
<1> QED
  BY <1>1, <1>2

LEMMA RequestImplements ==
  ASSUME TypeInv, LinkInv, LifeInv, NEW p \in Requests, RequestStep(p) \/ RunEnqueueFails(p)
  PROVE  LifecycleStep
<1> USE DEF At
<1>0. p \in Handlers /\ FrameLife(p, frames[p]) /\ frames[p] \in Frame
  BY LifeTypes DEF LifeInv, Handlers
<1>1. CASE DispatchStep(p)
  BY <1>0, <1>1, DispatchImplements
<1>2. CASE RunCreate(p)
  <2>1. frames[p].workflow \in Workflows
    BY <1>0, <1>2 DEF RunCreate, LinkInv, FramesLinked, Linked
  <2> QED BY <1>2, <2>1, InsertImplements DEF RunCreate, n8n
<1>3. CASE RunEnqueue(p)
  <2> DEFINE j == frames[p].job
  <2>1. /\ frames[p].step = "run.enqueue" /\ queue' = [queue EXCEPT ![j] = Added]
        /\ UNCHANGED <<jobs, posts, succeeded>>
    BY <1>3 DEF RunEnqueue, n8n
  <2>2. j \in JobIds /\ queue[j].state = "none"
    BY <1>0, <2>1, LifeTypes DEF FrameLife, CarrySteps
  <2>3. queue[j].stalls = 0
    BY <2>2 DEF LifeInv, JobLife
  <2>4. SameStalls
    BY <2>1, <2>3, LifeTypes DEF SameStalls, Added, NoEntry
  <2> QED BY <2>1, <2>4, Stutters DEF SameStatus
<1>4. CASE ReportSave(p)
  <2> DEFINE j == frames[p].job
             loaded == frames[p].jobDoc
             outcome == frames[p].outcome
  <2>1. /\ frames[p].step = "report.save" /\ UNCHANGED <<queue, posts, succeeded>>
    BY <1>4 DEF ReportSave, n8n
  <2>2. /\ j \in JobIds /\ posts[j] > 0 /\ (outcome = "completed" => j \in succeeded)
        /\ JobLife(j) /\ outcome \in Outcomes
    BY <1>0, <2>1, LifeTypes DEF FrameLife, LifeInv, Frame
  <2>3. PICK text : jobs' = [jobs EXCEPT ![j] =
            SaveJob([loaded EXCEPT !.status = outcome, !.errorMessage = text], loaded, jobs[j])]
    BY <1>4 DEF ReportSave
  <2>4. /\ \A i \in JobIds : i # j => SameStatus(i)
        /\ jobs'[j].status \in {outcome, jobs[j].status}
    <3>1. [loaded EXCEPT !.status = outcome, !.errorMessage = text].status = outcome
      BY <1>0 DEF Frame, JobDoc
    <3> QED BY <2>2, <2>3, <3>1, LifeTypes DEF SaveJob, Written, SameStatus
  <2>5. Advances(j)
    BY <2>2, <2>4 DEF Advances, SameStatus, JobLife, Outcomes
  <2> HIDE DEF j
  <2> QED BY <2>1, <2>2, <2>4, <2>5, OneStatus DEF SameStalls
<1>5. CASE \/ RunMark(p) \/ RunReread(p) \/ RunReload(p) \/ ReportLatest(p) \/ ReportCount(p)
           \/ StatusSave(p) \/ TriggerAnswered(p) \/ RunEnqueueFails(p)
  <2>1. UNCHANGED <<jobs, queue, posts, succeeded>>
    BY <1>5 DEF RunMark, RunReread, RunReload, ReportLatest, ReportCount, StatusSave,
       TriggerAnswered, RunEnqueueFails, store, n8n
  <2> QED BY <2>1, Stutters DEF SameStatus, SameStalls
<1> QED
  BY <1>1, <1>2, <1>3, <1>4, <1>5 DEF RequestStep

LEMMA ArrivalImplements ==
  ASSUME TypeInv, NEW p \in Requests, Arrival(p)
  PROVE  LifecycleStep
<1>1. CASE UNCHANGED <<jobs, queue, posts, succeeded>>
  BY <1>1, Stutters DEF SameStatus, SameStalls
<1>2. ASSUME NEW j \in JobIds, NEW outcome \in Outcomes, Report(p, j, outcome)
      PROVE  LifecycleStep
  <2>1. /\ reports[j] < posts[j] * ReportsPerExecution /\ UNCHANGED <<jobs, queue, posts>>
        /\ succeeded' = IF outcome = "completed" THEN succeeded \cup {j} ELSE succeeded
    BY <1>2 DEF Report, store
  <2>2. posts[j] > 0
    <3>1. reports[j] \in Nat /\ posts[j] \in Nat
      BY DEF TypeInv, TypeOK
    <3>2. CASE posts[j] = 0
      BY <2>1, <3>1, <3>2, BoundsAssumption
    <3> QED BY <3>1, <3>2
  <2>3. CASE outcome = "completed"
    <3>1. Lifecycle!Succeed(j)
      BY <2>1, <2>2, <2>3 DEF Lifecycle!Succeed
    <3> QED BY <3>1 DEF LifecycleStep, Lifecycle!JobStep
  <2>4. CASE outcome # "completed"
    BY <1>1, <2>1, <2>4
  <2> QED BY <2>3, <2>4
<1>3. ASSUME NEW w \in Workflows,
             Run(p, w) \/ SetStatus(p, w) \/ Trigger(p, w)
                \/ \E outcome \in Outcomes : ReportDirect(p, w, outcome)
      PROVE  LifecycleStep
  BY <1>1, <1>3 DEF Run, SetStatus, Trigger, ReportDirect, store, n8n
<1> QED
  BY <1>2, <1>3 DEF Arrival

(* The worker's entry is delivered again; all other jobs stay as they are. *)
LEMMA CrashImplements ==
  ASSUME TypeInv, LifeInv, Crash
  PROVE  LifecycleStep
<1>1. /\ \A j \in JobIds : queue'[j] = IF queue[j].state = "active"
                                       THEN Stalled(queue[j]) ELSE queue[j]
      /\ UNCHANGED <<jobs, posts, succeeded>>
  BY DEF Crash, n8n
<1>2. CASE \A j \in JobIds : queue[j].state # "active"
  BY <1>1, <1>2, Stutters DEF SameStatus, SameStalls
<1>3. ASSUME NEW j \in JobIds, queue[j].state = "active"
      PROVE  LifecycleStep
  <2>1. \A i \in JobIds : queue[i].state = "active" => i = j
    BY <1>3 DEF LifeInv, WorkerHolds
  <2>2. /\ queue'[j].stalls = queue[j].stalls + 1
        /\ \A i \in JobIds : i # j => queue'[i] = queue[i]
    BY <1>1, <1>3, <2>1, LifeTypes DEF Stalled, Entry
  <2>3. jobs[j].status \notin {"none", "draft"} /\ queue[j].stalls < MaxStalls + 1
    BY <1>3, LifeTypes, StallsAssumption DEF LifeInv, JobLife, Begun
  <2>4. [i \in JobIds |-> queue'[i].stalls]
            = [[i \in JobIds |-> queue[i].stalls] EXCEPT ![j] = @ + 1]
    BY <2>2
  <2>5. Lifecycle!Redeliver(j)
    BY <1>1, <2>3, <2>4 DEF Lifecycle!Redeliver
  <2> QED BY <2>5 DEF LifecycleStep, Lifecycle!JobStep
<1> QED
  BY <1>2, <1>3

(* Taking and settling an entry leaves its stalls. *)
LEMMA WorkerImplements ==
  ASSUME TypeInv, (\E j \in JobIds : WorkerTake(j)) \/ WorkerAck \/ WorkerNack
  PROVE  LifecycleStep
<1>1. \A e \in Entry : /\ Taken(e).stalls = e.stalls /\ Completed(e).stalls = e.stalls
                       /\ Rejected(e).stalls = e.stalls
  BY DEF Taken, Completed, Rejected, Entry
<1>2. PICK j, new : /\ queue' = [queue EXCEPT ![j] = new]
                    /\ j \in JobIds => new.stalls = queue[j].stalls
  <2>1. PICK j : \/ queue' = [queue EXCEPT ![j] = Taken(queue[j])]
                 \/ queue' = [queue EXCEPT ![j] = Completed(queue[j])]
                 \/ queue' = [queue EXCEPT ![j] = Rejected(queue[j])]
    BY DEF WorkerTake, WorkerAck, WorkerNack
  <2>2. j \in JobIds => queue[j] \in Entry
    BY LifeTypes
  <2> QED BY <1>1, <2>1, <2>2
<1>3. SameStalls /\ UNCHANGED <<jobs, posts, succeeded>>
  BY <1>2, LifeTypes DEF SameStalls, WorkerTake, WorkerAck, WorkerNack, n8n
<1> QED
  BY <1>3, Stutters DEF SameStatus

LEMMA StepImplements ==
  ASSUME TypeInv, LinkInv, LifeInv, [Next]_vars
  PROVE  LifecycleStep
<1>1. CASE \E p \in Requests : Arrival(p) \/ RequestStep(p) \/ RunEnqueueFails(p)
  BY <1>1, ArrivalImplements, RequestImplements
<1>2. CASE WorkerStep \/ \E j \in JobIds : WorkerTake(j)
  BY <1>2, DispatchImplements, WorkerImplements DEF WorkerStep, Handlers
<1>3. CASE Crash
  BY <1>3, CrashImplements
<1>4. ASSUME NEW w \in Workflows, CreateDraft(w) \/ Remove(w) PROVE LifecycleStep
  <2>1. CASE CreateDraft(w)
    BY <2>1, InsertImplements DEF CreateDraft, n8n
  <2>2. CASE Remove(w)
    BY <2>2, Stutters DEF Remove, n8n, SameStatus, SameStalls
  <2> QED BY <1>4, <2>1, <2>2
<1>5. CASE UNCHANGED vars
  BY <1>5, Stutters DEF vars, store, n8n, SameStatus, SameStalls
<1> QED
  BY <1>1, <1>2, <1>3, <1>4, <1>5 DEF Next

LEMMA InitImplements == Init => Lifecycle!LifecycleInit
  BY DEF Init, Lifecycle!LifecycleInit, NoJobDoc, NoEntry

(* The handlers, documents, queue, retries and crashes of JobRuns implement the
   life of a job that RunLifecycle tells, whatever the number of workflows, of
   requests in flight, of jobs and of faults, with the queue or without it, as
   long as reports name their job. *)
THEOREM LifecycleImplemented == NamedReports => (Spec => ImplementsLifecycle)
<1> SUFFICES ASSUME NamedReports PROVE Spec => ImplementsLifecycle
  OBVIOUS
<1>1. TypeInv /\ LinkInv /\ LifeInv /\ [Next]_vars => LifecycleStep
  BY StepImplements
<1>2. LifecycleStep => [\E j \in JobIds : Lifecycle!JobStep(j)]_(Lifecycle!lifecycle)
  BY DEF LifecycleStep
<1> QED
  BY <1>1, <1>2, InitImplements, LifeInvariant, TypeInvariant, LinkInvariant, PTL
  DEF Spec, ImplementsLifecycle, Lifecycle!LifecycleSpec

------------------------------------------------------------------------------
(* What follows for users *)

(* The retries of the queue never execute an automation twice: only an entry
   that stalled in a crash is posted to n8n again. *)
THEOREM PostedOncePerDelivery == NamedReports => (Spec => []AtMostOnePost)
<1> SUFFICES ASSUME NamedReports PROVE Spec => []AtMostOnePost
  OBVIOUS
<1>1. TypeInv /\ LifeInv => AtMostOnePost
  <2> SUFFICES ASSUME TypeInv, LifeInv, NEW j \in JobIds PROVE posts[j] <= 1 + queue[j].stalls
    BY DEF AtMostOnePost
  <2> QED BY LifeTypes DEF LifeInv, JobLife
<1> QED
  BY <1>1, LifeInvariant, TypeInvariant, PTL

(* No job is shown as completed without a report that calls it successful. *)
THEOREM CompletedWasReported == NamedReports => (Spec => []CompletedOnlyIfReported)
<1> SUFFICES ASSUME NamedReports PROVE Spec => []CompletedOnlyIfReported
  OBVIOUS
<1>1. LifeInv => CompletedOnlyIfReported
  BY DEF LifeInv, JobLife, CompletedOnlyIfReported
<1> QED
  BY <1>1, LifeInvariant, PTL

(* A job that has ended starts again only when a crash has delivered it again. *)
THEOREM EndedForGood == NamedReports => (Spec => EndedStaysEnded)
<1> SUFFICES ASSUME NamedReports PROVE Spec => EndedStaysEnded
  OBVIOUS
<1>1. ASSUME TypeInv, LinkInv, LifeInv, [Next]_vars,
             NEW j \in JobIds, jobs[j].status \in TerminalStatuses, queue[j].stalls = 0
      PROVE  jobs'[j].status \in TerminalStatuses
  <2>1. CASE UNCHANGED Lifecycle!lifecycle
    <3>1. [i \in JobIds |-> jobs'[i].status] = [i \in JobIds |-> jobs[i].status]
      BY <2>1 DEF Lifecycle!lifecycle
    <3> QED BY <1>1, <3>1
  <2>2. ASSUME NEW k \in JobIds, Lifecycle!JobStep(k) PROVE jobs'[j].status \in TerminalStatuses
    <3> DEFINE phase == [i \in JobIds |-> jobs[i].status]
    <3>1. CASE Lifecycle!Create(k) \/ Lifecycle!Start(k)
      <4>1. k # j
        BY <1>1, <3>1, LifeTypes
        DEF Lifecycle!Create, Lifecycle!Start, Lifecycle!Open, TerminalStatuses
      <4>2. PICK new : [i \in JobIds |-> jobs'[i].status] = [phase EXCEPT ![k] = new]
        BY <3>1 DEF Lifecycle!Create, Lifecycle!Start, Lifecycle!BecomesPhase
      <4> QED BY <1>1, <4>1, <4>2
    <3>2. CASE Lifecycle!Execute(k) \/ Lifecycle!Succeed(k) \/ Lifecycle!Redeliver(k)
      <4>1. [i \in JobIds |-> jobs'[i].status] = phase
        BY <3>2 DEF Lifecycle!Execute, Lifecycle!Succeed, Lifecycle!Redeliver
      <4> QED BY <1>1, <4>1
    <3>3. CASE Lifecycle!Complete(k) \/ Lifecycle!Fail(k)
      <4>1. PICK new \in TerminalStatuses :
                [i \in JobIds |-> jobs'[i].status] = [phase EXCEPT ![k] = new]
        BY <3>3
        DEF Lifecycle!Complete, Lifecycle!Fail, Lifecycle!BecomesPhase, TerminalStatuses
      <4> QED BY <1>1, <4>1
    <3> QED BY <2>2, <3>1, <3>2, <3>3 DEF Lifecycle!JobStep
  <2> QED BY <1>1, <2>1, <2>2, StepImplements DEF LifecycleStep
<1>2. TypeInv /\ LinkInv /\ LifeInv /\ [Next]_vars
        => [\A j \in JobIds : jobs[j].status \in TerminalStatuses /\ queue[j].stalls = 0 =>
                jobs'[j].status \in TerminalStatuses]_vars
  BY <1>1
<1> QED
  BY <1>2, LifeInvariant, TypeInvariant, LinkInvariant, PTL DEF Spec, EndedStaysEnded

------------------------------------------------------------------------------
(* Queued jobs *)

(* What carries job j when the queue is on. *)
QueuedCarried(j) ==
    \/ queue[j].state \in {"waiting", "active", "failed"}
    \/ \E p \in Requests : At(p, "run.enqueue") /\ frames[p].job = j
    \/ j \in abandoned /\ queue[j].state = "none"

(* No save puts a job back to queued. *)
NoRequeue == \A j \in JobIds : jobs'[j].status = "queued" => jobs[j].status = "queued"

LEMMA SaveNeverRequeues ==
  ASSUME TypeInv, NEW j \in JobIds, NEW doc, NEW loaded, doc.status # "queued",
         jobs' = [jobs EXCEPT ![j] = SaveJob(doc, loaded, jobs[j])]
  PROVE  NoRequeue
<1>1. jobs'[j].status \in {doc.status, jobs[j].status}
      /\ \A i \in JobIds : i # j => jobs'[i] = jobs[i]
  BY LifeTypes DEF SaveJob, Written
<1> QED
  BY <1>1 DEF NoRequeue

LEMMA DispatchNeverRequeues ==
  ASSUME TypeInv, NEW p \in Handlers, DispatchStep(p)
  PROVE  NoRequeue /\ UNCHANGED queue /\ abandoned \subseteq abandoned'
<1> USE DEF At
<1>0. /\ frames[p] \in Frame /\ UNCHANGED queue /\ abandoned \subseteq abandoned'
      /\ frames[p].step \in CarrySteps => frames[p].job \in JobIds
  BY LifeTypes
  DEF DispatchStep, DispatchLoad, CredentialMissing, WorkflowGone, DispatchStart, PostAccepted,
      PostRefused, AnswerOk, AnswerLost, DispatchFail, FinishLoad, FinishSave, FinishReread,
      store, ghosts
<1>1. CASE DispatchStart(p)
  <2>1. [frames[p].jobDoc EXCEPT !.status = "processing"].status # "queued"
    BY <1>0 DEF Frame, JobDoc
  <2>2. frames[p].job \in JobIds
    BY <1>0, <1>1 DEF DispatchStart, CarrySteps
  <2> QED BY <1>0, <1>1, <2>1, <2>2, SaveNeverRequeues DEF DispatchStart
<1>2. CASE DispatchFail(p)
  <2>1. \A text : [frames[p].jobDoc EXCEPT !.status = "failed", !.errorMessage = text].status
                    # "queued"
    BY <1>0 DEF Frame, JobDoc
  <2>2. frames[p].job \in JobIds
    BY <1>0, <1>2 DEF DispatchFail, CarrySteps
  <2>3. PICK text \in Errors :
            jobs' = [jobs EXCEPT ![frames[p].job] =
                SaveJob([frames[p].jobDoc EXCEPT !.status = "failed", !.errorMessage = text],
                        frames[p].jobDoc, jobs[frames[p].job])]
    BY <1>2 DEF DispatchFail
  <2> QED BY <1>0, <2>1, <2>2, <2>3, SaveNeverRequeues
<1>3. CASE ~(DispatchStart(p) \/ DispatchFail(p))
  <2>1. UNCHANGED jobs
    BY <1>3 DEF DispatchStep, DispatchLoad, CredentialMissing, WorkflowGone, AnswerOk,
       FinishReread, PostAccepted, PostRefused, AnswerLost, FinishLoad, FinishSave, store
  <2> QED BY <1>0, <2>1 DEF NoRequeue
<1> QED
  BY <1>1, <1>2, <1>3

LEMMA DispatchStepMoves ==
  ASSUME TypeInv, NEW p \in Handlers, DispatchStep(p)
  PROVE  frames[p].step # "run.enqueue" /\ Moves(p)
<1>1. frames[p].step # "run.enqueue"
  BY DEF DispatchStep, DispatchLoad, CredentialMissing, WorkflowGone, DispatchStart, PostAccepted,
     PostRefused, AnswerOk, AnswerLost, DispatchFail, FinishLoad, FinishSave, FinishReread,
     At, NeedsWorkflow
<1>2. CASE DispatchStart(p) \/ DispatchLoad(p) \/ FinishLoad(p) \/ FinishSave(p)
  BY <1>1, <1>2, BecomeOnly DEF DispatchStart, DispatchLoad, FinishLoad, FinishSave, Moves
<1>3. CASE PostAccepted(p) \/ PostRefused(p) \/ AnswerLost(p)
  BY <1>1, <1>3, BecomeOnly DEF PostAccepted, PostRefused, AnswerLost, Goto, Moves
<1>4. CASE AnswerOk(p) \/ FinishReread(p) \/ CredentialMissing(p) \/ WorkflowGone(p)
  BY <1>1, <1>4, BecomeOnly
  DEF AnswerOk, FinishReread, CredentialMissing, WorkflowGone, DispatchReturns, Throw, Moves
<1>5. CASE DispatchFail(p)
  <2>1. Become(p, Finishing(frames[p], "failed", TRUE))
    BY <1>5 DEF DispatchFail
  <2> QED BY <1>1, <2>1, BecomeOnly DEF Moves
<1> QED
  BY <1>1, <1>2, <1>3, <1>4, <1>5 DEF DispatchStep

(* A queued job stays carried if entries and losses stay, and if a handler
   that is about to enqueue its job does so, loses it or does not move. *)
LEMMA StillCarried ==
  ASSUME QueuedJobIsCarried, TypeInv' /\ LifeInv',
         \A j \in JobIds : jobs'[j].status = "queued" =>
             \/ jobs[j].status = "queued"
             \/ \E p \in Requests : frames'[p].step = "run.enqueue" /\ frames'[p].job = j,
         abandoned \subseteq abandoned',
         \A j \in JobIds : queue[j].state # "none" => queue'[j].state # "none",
         \A p \in Requests : frames[p].step = "run.enqueue" =>
             \/ frames'[p] = frames[p]
             \/ frames[p].job \in abandoned'
             \/ queue'[frames[p].job].state # "none"
  PROVE  QueuedJobIsCarried'
<1> USE DEF At
<1>1. ASSUME NEW j \in JobIds, queue'[j].state # "none", jobs'[j].status = "queued"
      PROVE  queue'[j].state \in {"waiting", "active", "failed"}
  <2>1. queue'[j].state \in EntryStates /\ queue'[j].state # "done"
    BY <1>1 DEF TypeInv, TypeOK, Entry, LifeInv, JobLife, Started
  <2> QED BY <1>1, <2>1 DEF EntryStates
<1>2. ASSUME QueueEnabled, NEW j \in JobIds, jobs'[j].status = "queued"
      PROVE  QueuedCarried(j)'
  <2>1. CASE jobs[j].status = "queued"
    <3>1. QueuedCarried(j)
      BY <1>2, <2>1 DEF QueuedJobIsCarried, QueuedCarried
    <3>2. CASE queue[j].state # "none"
      BY <1>1, <1>2, <3>2 DEF QueuedCarried
    <3>3. CASE j \in abandoned
      BY <1>1, <1>2, <3>3 DEF QueuedCarried, TypeInv, TypeOK
    <3>4. ASSUME NEW p \in Requests, frames[p].step = "run.enqueue", frames[p].job = j
          PROVE  QueuedCarried(j)'
      BY <1>1, <1>2, <3>4 DEF QueuedCarried
    <3> QED BY <3>1, <3>2, <3>3, <3>4 DEF QueuedCarried
  <2>2. CASE jobs[j].status # "queued"
    BY <1>2, <2>2 DEF QueuedCarried
  <2> QED BY <2>1, <2>2
<1> QED
  BY <1>2 DEF QueuedJobIsCarried, QueuedCarried

(* A step of a handler that was not about to enqueue its job. *)
LEMMA PassesCarried ==
  ASSUME QueuedJobIsCarried, TypeInv' /\ LifeInv', NEW p \in Handlers, Moves(p),
         frames[p].step # "run.enqueue", NoRequeue, abandoned \subseteq abandoned',
         \A j \in JobIds : queue[j].state # "none" => queue'[j].state # "none"
  PROVE  QueuedJobIsCarried'
<1>1. \A q \in Requests : frames[q].step = "run.enqueue" => frames'[q] = frames[q]
  BY DEF Moves, Handlers
<1> QED
  BY <1>1, StillCarried DEF NoRequeue

LEMMA RequestCarried ==
  ASSUME TypeInv, LinkInv, TypeInv', LifeInv', QueuedJobIsCarried, QueueEnabled,
         NEW p \in Requests, RequestStep(p) \/ RunEnqueueFails(p)
  PROVE  QueuedJobIsCarried'
<1> USE DEF At
<1>0. p \in Handlers /\ frames[p] \in Frame
  BY LifeTypes DEF Handlers
<1>1. CASE DispatchStep(p)
  BY <1>0, <1>1, DispatchStepMoves, DispatchNeverRequeues, PassesCarried
<1>2. CASE RunCreate(p)
  <2> DEFINE f == [Idle EXCEPT
                     !.step = IF QueueEnabled THEN "run.enqueue" ELSE "dispatch.load",
                     !.workflow = frames[p].workflow, !.job = created + 1]
  <2>1. frames[p].workflow \in Workflows
    BY <1>0, <1>2 DEF RunCreate, LinkInv, FramesLinked, Linked
  <2>2. /\ created' = created + 1
        /\ \A j \in JobIds : j # created' => jobs'[j] = jobs[j]
    BY <1>2, <2>1, InsertKeepsJobs DEF RunCreate, JobStatuses
  <2>3. frames'[p] = f /\ Moves(p) /\ UNCHANGED <<queue, abandoned>>
    BY <1>0, <1>2, BecomeOnly DEF RunCreate, Moves, ghosts
  <2>4. frames'[p].step = "run.enqueue" /\ frames'[p].job = created'
    BY <2>2, <2>3 DEF Idle
  <2>5. frames[p].step = "run.create"
    BY <1>2 DEF RunCreate
  <2>6. \A q \in Requests : At(q, "run.enqueue") => frames'[q] = frames[q]
    BY <2>3, <2>5 DEF Moves, Handlers
  <2> HIDE DEF f
  <2> QED BY <2>2, <2>3, <2>4, <2>6, StillCarried
<1>3. CASE RunEnqueue(p)
  <2>1. /\ queue' = [queue EXCEPT ![frames[p].job] = Added] /\ frames[p].job \in JobIds
        /\ Moves(p) /\ UNCHANGED <<jobs, abandoned>>
    BY <1>0, <1>3, BecomeOnly, LifeTypes DEF RunEnqueue, CarrySteps, Moves, ghosts
  <2>2. /\ queue'[frames[p].job].state # "none"
        /\ \A j \in JobIds : queue[j].state # "none" => queue'[j].state # "none"
    BY <2>1, LifeTypes DEF Added, NoEntry
  <2>3. \A q \in Requests : At(q, "run.enqueue") =>
            frames'[q] = frames[q] \/ queue'[frames[q].job].state # "none"
    BY <2>1, <2>2 DEF Moves, Handlers
  <2> QED BY <2>1, <2>2, <2>3, StillCarried
<1>4. CASE RunEnqueueFails(p)
  <2>1. /\ abandoned' = abandoned \cup {frames[p].job} /\ Moves(p) /\ UNCHANGED <<jobs, queue>>
    BY <1>0, <1>4, BecomeOnly DEF RunEnqueueFails, Moves, store
  <2>2. \A q \in Requests : At(q, "run.enqueue") =>
            frames'[q] = frames[q] \/ frames[q].job \in abandoned'
    BY <2>1 DEF Moves, Handlers
  <2> QED BY <2>1, <2>2, StillCarried
<1>5. CASE ReportSave(p)
  <2> DEFINE outcome == frames[p].outcome
             f == Finishing(frames[p], outcome, FALSE)
             g == [Idle EXCEPT !.step = "report.count", !.job = frames[p].job,
                               !.workflow = frames[p].workflow, !.outcome = outcome]
  <2>1. /\ Become(p, f) \/ Become(p, g)
        /\ frames[p].step = "report.save" /\ UNCHANGED <<queue, abandoned>>
    BY <1>5 DEF ReportSave, ghosts
  <2> HIDE DEF f, g
  <2>2. Moves(p)
    BY <1>0, <2>1, BecomeOnly DEF Moves
  <2>3. PICK text : jobs' = [jobs EXCEPT ![frames[p].job] =
            SaveJob([frames[p].jobDoc EXCEPT !.status = outcome, !.errorMessage = text],
                    frames[p].jobDoc, jobs[frames[p].job])]
    BY <1>5 DEF ReportSave
  <2>4. [frames[p].jobDoc EXCEPT !.status = outcome, !.errorMessage = text].status # "queued"
    BY <1>0 DEF Frame, JobDoc, Outcomes
  <2>5. frames[p].job \in JobIds
    BY <1>0, <2>1, LifeTypes
  <2>6. NoRequeue
    BY <2>3, <2>4, <2>5, SaveNeverRequeues
  <2> QED BY <1>0, <2>1, <2>2, <2>6, PassesCarried
<1>6. CASE RunReload(p) \/ ReportCount(p) \/ ReportLatest(p)
  <2>1. /\ frames[p].step # "run.enqueue" /\ UNCHANGED <<jobs, queue, abandoned>>
        /\ \E f : Become(p, f)
    BY <1>6 DEF RunReload, ReportCount, ReportLatest, store, ghosts
  <2>2. Moves(p)
    BY <1>0, <2>1, BecomeOnly DEF Moves
  <2> QED BY <1>0, <2>1, <2>2, PassesCarried DEF NoRequeue
<1>7. CASE RunMark(p) \/ RunReread(p) \/ StatusSave(p) \/ TriggerAnswered(p)
  <2>1. /\ frames[p].step # "run.enqueue" /\ UNCHANGED <<jobs, queue, abandoned>> /\ Moves(p)
    BY <1>0, <1>7, BecomeOnly
    DEF RunMark, RunReread, StatusSave, TriggerAnswered, Goto, store, ghosts, Moves
  <2> QED BY <1>0, <2>1, PassesCarried DEF NoRequeue
<1> QED
  BY <1>1, <1>2, <1>3, <1>4, <1>5, <1>6, <1>7 DEF RequestStep

LEMMA CarriedStep ==
  ASSUME TypeInv, LinkInv, QueuedJobIsCarried, QueueEnabled, TypeInv' /\ LifeInv', [Next]_vars
  PROVE  QueuedJobIsCarried'
<1> USE DEF At
<1>0. Worker \in Handlers /\ Worker \notin Requests
  BY SlotsAssumption DEF Handlers
<1>1. ASSUME NEW p \in Requests, RequestStep(p) \/ RunEnqueueFails(p) PROVE QueuedJobIsCarried'
  BY <1>1, RequestCarried
<1>2. ASSUME NEW p \in Requests, Arrival(p) PROVE QueuedJobIsCarried'
  <2>1. UNCHANGED <<jobs, queue, abandoned>> /\ Free(p) /\ \E f : Become(p, f)
    <3>1. CASE \E w \in Workflows : Run(p, w) \/ SetStatus(p, w) \/ Trigger(p, w)
      BY <3>1 DEF Run, SetStatus, Trigger, store, ghosts
    <3>2. CASE \/ \E j \in JobIds, outcome \in Outcomes : Report(p, j, outcome)
               \/ \E w \in Workflows, outcome \in Outcomes : ReportDirect(p, w, outcome)
      BY <3>2 DEF Report, ReportDirect, FindActive, store, ghosts
    <3> QED BY <1>2, <3>1, <3>2 DEF Arrival
  <2>2. p \in Handlers /\ frames[p].step # "run.enqueue"
    BY <2>1, EndFrames DEF Free, Handlers
  <2>3. Moves(p)
    BY <2>1, <2>2, BecomeOnly DEF Moves
  <2> QED BY <2>1, <2>2, <2>3, PassesCarried DEF NoRequeue
<1>3. CASE DispatchStep(Worker)
  BY <1>0, <1>3, DispatchStepMoves, DispatchNeverRequeues, PassesCarried
<1>4. CASE WorkerAck \/ WorkerNack \/ \E j \in JobIds : WorkerTake(j)
  <2>1. \A e \in Entry : /\ Taken(e).state # "none" /\ Completed(e).state # "none"
                         /\ Rejected(e).state # "none"
    BY DEF Taken, Completed, Rejected, Entry
  <2>2. PICK j, new : queue' = [queue EXCEPT ![j] = new] /\ (j \in JobIds => new.state # "none")
    <3>1. PICK j : \/ queue' = [queue EXCEPT ![j] = Taken(queue[j])]
                   \/ queue' = [queue EXCEPT ![j] = Completed(queue[j])]
                   \/ queue' = [queue EXCEPT ![j] = Rejected(queue[j])]
      BY <1>4 DEF WorkerTake, WorkerAck, WorkerNack
    <3>2. j \in JobIds => queue[j] \in Entry
      BY LifeTypes
    <3> QED BY <2>1, <3>1, <3>2
  <2>3. \A i \in JobIds : queue[i].state # "none" => queue'[i].state # "none"
    BY <2>2, LifeTypes
  <2>4. UNCHANGED <<jobs, abandoned>> /\ \E f : Become(Worker, f)
    BY <1>4 DEF WorkerTake, WorkerAck, WorkerNack, ghosts
  <2>5. \A q \in Requests : frames'[q] = frames[q]
    BY <1>0, <2>4, BecomeOnly DEF Handlers
  <2> QED BY <2>3, <2>4, <2>5, StillCarried
<1>5. CASE Crash
  <2>1. \A j \in JobIds : queue[j].state # "none" => queue'[j].state # "none"
    BY <1>5, LifeTypes DEF Crash, Stalled, Entry
  <2>2. UNCHANGED jobs /\ abandoned \subseteq abandoned'
    BY <1>5 DEF Crash
  <2>3. \A q \in Requests : frames[q].step = "run.enqueue" => frames[q].job \in abandoned'
    BY <1>5 DEF Crash, InHand
  <2> QED BY <2>1, <2>2, <2>3, StillCarried
<1>6. ASSUME NEW w \in Workflows, CreateDraft(w) \/ Remove(w) PROVE QueuedJobIsCarried'
  <2>1. UNCHANGED <<frames, queue, abandoned>>
    BY <1>6 DEF CreateDraft, Remove, store, ghosts
  <2>2. NoRequeue
    <3>1. CASE CreateDraft(w)
      <4>1. /\ created' \in JobIds /\ jobs'[created'] = NewJob(w, "draft")
            /\ \A j \in JobIds : j # created' => jobs'[j] = jobs[j]
        BY <3>1, InsertKeepsJobs DEF CreateDraft, JobStatuses
      <4> QED BY <4>1 DEF NoRequeue, NewJob
    <3>2. CASE Remove(w)
      BY <3>2 DEF Remove, NoRequeue
    <3> QED BY <1>6, <3>1, <3>2
  <2> QED BY <2>1, <2>2, StillCarried DEF NoRequeue
<1>7. CASE UNCHANGED vars
  <2>1. UNCHANGED <<jobs, frames, queue, abandoned>>
    BY <1>7 DEF vars, store, ghosts
  <2> QED BY <2>1, StillCarried
<1> QED
  BY <1>1, <1>2, <1>3, <1>4, <1>5, <1>6, <1>7 DEF Next, WorkerStep

(* With the queue no queued job is forgotten: it waits in the queue, has used up
   its attempts, or never got there because queue.add failed or its request died. *)
THEOREM QueuedNeverForgotten == NamedReports => (Spec => []QueuedJobIsCarried)
<1> SUFFICES ASSUME NamedReports PROVE Spec => []QueuedJobIsCarried
  OBVIOUS
<1>1. Init => QueuedJobIsCarried
  BY DEF Init, QueuedJobIsCarried, NoJobDoc
<1>2. TypeInv /\ LinkInv /\ LifeInv /\ QueuedJobIsCarried /\ [Next]_vars
        => QueuedJobIsCarried'
  <2> SUFFICES ASSUME TypeInv, LinkInv, LifeInv, QueuedJobIsCarried, [Next]_vars
               PROVE  QueuedJobIsCarried'
    OBVIOUS
  <2>1. TypeInv' /\ LifeInv'
    BY TypeStep, LifeStep
  <2>2. CASE QueueEnabled
    BY <2>1, <2>2, CarriedStep
  <2>3. CASE ~QueueEnabled
    BY <2>3 DEF QueuedJobIsCarried
  <2> QED BY <2>2, <2>3
<1> QED
  BY <1>1, <1>2, LifeInvariant, TypeInvariant, LinkInvariant, PTL DEF Spec

------------------------------------------------------------------------------
(* A failed job says why *)

(* n8n reports an execution at most once, and nothing delivers a job again. *)
ReportedOnce == NamedReports /\ ReportsPerExecution <= 1 /\ MaxFaults = 0

SavingDispatch == {"dispatch.start", "dispatch.post", "dispatch.await", "dispatch.fail"}

(* A text and an end come together. *)
HasReason(doc) ==
    /\ doc.status = "failed" => doc.errorMessage # Null
    /\ doc.errorMessage # Null => doc.status \in TerminalStatuses

(* What a handler has loaded lets its save keep them together: dispatch loaded a
   job that had not ended, a report one whose text is still there. *)
SavesReason(f) ==
    /\ f.step \in SavingDispatch => f.jobDoc.errorMessage = Null
    /\ f.step = "report.save" =>
           /\ reports[f.job] > 0
           /\ f.jobDoc.status = "failed" => f.jobDoc.errorMessage # Null
           /\ f.jobDoc.errorMessage # Null => jobs[f.job].errorMessage # Null
           /\ f.outcome = "completed" => f.jobDoc.status # "completed"

(* Two reports never overlap on one job. *)
OneReport ==
    \A p, q \in Handlers :
        frames[p].step = "report.save" /\ frames[q].step = "report.save"
        /\ frames[p].job = frames[q].job => p = q

NoRedelivery == \A j \in JobIds : queue[j].stalls = 0

ReasonInv ==
    /\ NoRedelivery
    /\ \A j \in JobIds : HasReason(jobs[j])
    /\ \A p \in Handlers : SavesReason(frames[p])
    /\ OneReport

(* A job without redeliveries that is ready has neither ended nor been executed. *)
LEMMA ReadyIsBlank ==
  ASSUME TypeInv, ReasonInv, NEW j \in JobIds, Ready(j)
  PROVE  posts[j] = 0 /\ jobs[j].errorMessage = Null /\ jobs[j].status \notin TerminalStatuses
  BY LifeTypes DEF ReasonInv, NoRedelivery, HasReason, Ready

(* A step of one handler keeps the invariant if the documents keep their reason,
   no text disappears from under a report, and no second report is begun. *)
LEMMA MoveKeepsReason ==
  ASSUME TypeInv, ReasonInv, NEW p \in Handlers, Moves(p), NoRedelivery',
         \A j \in JobIds : HasReason(jobs'[j]) /\ (reports[j] > 0 => reports'[j] > 0),
         SavesReason(frames[p])',
         \A q \in Handlers : q # p /\ frames[q].step = "report.save" =>
             /\ jobs[frames[q].job].errorMessage # Null
                    => jobs'[frames[q].job].errorMessage # Null
             /\ frames'[p].step = "report.save" => frames'[p].job # frames[q].job
  PROVE  ReasonInv'
<1>1. ASSUME NEW q \in Handlers PROVE SavesReason(frames[q])'
  <2>1. CASE q = p
    BY <2>1
  <2>2. CASE q # p
    <3>1. frames'[q] = frames[q] /\ SavesReason(frames[q])
      BY <2>2 DEF Moves, ReasonInv
    <3>2. frames[q].step = "report.save" => frames[q].job \in JobIds
      BY LifeTypes
    <3> QED BY <2>2, <3>1, <3>2 DEF SavesReason
  <2> QED BY <2>1, <2>2
<1>2. OneReport'
  BY DEF OneReport, ReasonInv, Moves
<1> QED
  BY <1>1, <1>2 DEF ReasonInv

(* A handler goes on to a frame that saves no job, and the jobs stay. *)
LEMMA PlainMoveKeepsReason ==
  ASSUME TypeInv, ReasonInv, NEW p \in Handlers, Moves(p), UNCHANGED <<jobs, reports>>,
         NoRedelivery',
         frames'[p].step \notin SavingDispatch \cup {"report.save"}
  PROVE  ReasonInv'
<1>1. SavesReason(frames[p])'
  BY DEF SavesReason
<1> QED
  BY <1>1, MoveKeepsReason DEF ReasonInv, SavingDispatch

(* Dispatch goes on with the document it had. *)
LEMMA DispatchGoesOn ==
  ASSUME TypeInv, ReasonInv, NEW p \in Handlers, Moves(p), UNCHANGED <<jobs, reports, queue>>,
         frames[p].step \in SavingDispatch, frames'[p].step \in SavingDispatch,
         frames'[p].jobDoc = frames[p].jobDoc
  PROVE  ReasonInv'
<1>1. SavesReason(frames[p])'
  BY DEF SavesReason, ReasonInv, SavingDispatch
<1> QED
  BY <1>1, MoveKeepsReason DEF ReasonInv, SavingDispatch, NoRedelivery

(* What one save does to the job it saves. *)
LEMMA SavedJob ==
  ASSUME TypeInv, NEW j \in JobIds, NEW loaded \in JobDoc, NEW status \in JobStatuses,
         NEW text \in Errors \cup {Null},
         jobs' = [jobs EXCEPT ![j] =
             SaveJob([loaded EXCEPT !.status = status, !.errorMessage = text], loaded, jobs[j])]
  PROVE  /\ \A i \in JobIds : i # j => jobs'[i] = jobs[i]
         /\ jobs'[j].status = IF status # loaded.status THEN status ELSE jobs[j].status
         /\ jobs'[j].errorMessage = IF text # loaded.errorMessage THEN text
                                    ELSE jobs[j].errorMessage
<1> DEFINE doc == [loaded EXCEPT !.status = status, !.errorMessage = text]
<1>1. doc.status = status /\ doc.errorMessage = text
  BY DEF JobDoc
<1> HIDE DEF doc
<1>2. jobs' = [jobs EXCEPT ![j] = SaveJob(doc, loaded, jobs[j])]
  BY DEF doc
<1>3. jobs'[j] = SaveJob(doc, loaded, jobs[j]) /\ \A i \in JobIds : i # j => jobs'[i] = jobs[i]
  BY <1>2, LifeTypes
<1> QED
  BY <1>1, <1>3 DEF SaveJob, Written

(* Dispatch notes its failure on a job it had loaded before it ended. *)
LEMMA DispatchFailReason ==
  ASSUME TypeInv, LifeInv, ReasonInv, NEW p \in Handlers, DispatchFail(p), Moves(p)
  PROVE  ReasonInv'
<1> DEFINE j == frames[p].job
           loaded == frames[p].jobDoc
           ended == "failed"
           f == Finishing(frames[p], ended, TRUE)
<1>0. /\ frames[p].step = "dispatch.fail" /\ j \in JobIds /\ loaded \in JobDoc
      /\ UNCHANGED <<queue, reports>> /\ frames'[p] = f
  BY LifeTypes, BecomeOnly DEF DispatchFail, At, CarrySteps, n8n, Frame
<1>f. f.step = "finish.load"
  BY DEF Finishing, Idle
<1>1. frames'[p].step = "finish.load"
  <2> HIDE DEF f
  <2> QED BY <1>0, <1>f
<1>2. PICK text \in Errors : jobs' = [jobs EXCEPT ![j] =
          SaveJob([loaded EXCEPT !.status = ended, !.errorMessage = text], loaded, jobs[j])]
  BY DEF DispatchFail
<1>3. loaded.status = "processing" /\ loaded.errorMessage = Null /\ text # Null
  BY <1>0, InputsAssumption DEF LifeInv, FrameLife, ReasonInv, SavesReason, SavingDispatch
<1> HIDE DEF j, loaded, f
<1>4. /\ \A i \in JobIds : i # j => jobs'[i] = jobs[i]
      /\ jobs'[j].status = "failed" /\ jobs'[j].errorMessage = text
  <2>1. ended \in JobStatuses /\ ended = "failed" /\ text \in Errors \cup {Null}
    BY DEF JobStatuses
  <2> HIDE DEF ended
  <2>2. /\ \A i \in JobIds : i # j => jobs'[i] = jobs[i]
        /\ jobs'[j].status = IF ended # loaded.status THEN ended ELSE jobs[j].status
        /\ jobs'[j].errorMessage = IF text # loaded.errorMessage THEN text
                                   ELSE jobs[j].errorMessage
    BY <1>0, <1>2, <2>1, SavedJob
  <2> QED BY <1>3, <2>1, <2>2
<1>5. ASSUME NEW i \in JobIds
      PROVE  /\ HasReason(jobs'[i])
             /\ jobs[i].errorMessage # Null => jobs'[i].errorMessage # Null
  <2>1. CASE i = j
    BY <1>3, <1>4, <2>1 DEF HasReason, TerminalStatuses
  <2>2. CASE i # j
    BY <1>4, <2>2 DEF ReasonInv
  <2> QED BY <2>1, <2>2
<1>6. SavesReason(frames[p])'
  BY <1>1 DEF SavesReason, SavingDispatch
<1> QED
  BY <1>0, <1>1, <1>5, <1>6, LifeTypes, MoveKeepsReason DEF ReasonInv, NoRedelivery

(* Dispatch starts a job that has not ended, and leaves its text alone. *)
LEMMA DispatchStartReason ==
  ASSUME TypeInv, LifeInv, ReasonInv, NEW p \in Handlers, DispatchStart(p), Moves(p)
  PROVE  ReasonInv'
<1> DEFINE j == frames[p].job
           loaded == frames[p].jobDoc
           doc == [loaded EXCEPT !.status = "processing"]
           f == [frames[p] EXCEPT !.step = "dispatch.post", !.jobDoc = doc]
<1>0. /\ frames[p].step = "dispatch.start" /\ j \in JobIds /\ loaded \in JobDoc
      /\ UNCHANGED <<queue, reports>> /\ frames'[p] = f /\ frames[p] \in Frame
      /\ jobs' = [jobs EXCEPT ![j] = SaveJob(doc, loaded, jobs[j])]
  BY LifeTypes, BecomeOnly DEF DispatchStart, At, CarrySteps, n8n, Frame
<1>1. doc.status = "processing" /\ doc.errorMessage = loaded.errorMessage
  BY <1>0 DEF JobDoc
<1>2. frames'[p].step = "dispatch.post" /\ frames'[p].jobDoc = doc
  BY <1>0 DEF Frame
<1>3. loaded.errorMessage = Null
  BY <1>0 DEF ReasonInv, SavesReason, SavingDispatch
<1>4. jobs[j].errorMessage = Null /\ jobs[j].status \notin TerminalStatuses
  BY <1>0, ReadyIsBlank DEF LifeInv, FrameLife
<1> HIDE DEF j, loaded, doc, f
<1>5. /\ \A i \in JobIds : i # j => jobs'[i] = jobs[i]
      /\ jobs'[j] = SaveJob(doc, loaded, jobs[j])
  BY <1>0, LifeTypes
<1>6. jobs'[j].errorMessage = Null /\ jobs'[j].status \notin TerminalStatuses
  BY <1>1, <1>3, <1>4, <1>5 DEF SaveJob, Written, TerminalStatuses
<1>7. ASSUME NEW i \in JobIds
      PROVE  /\ HasReason(jobs'[i])
             /\ jobs[i].errorMessage # Null => jobs'[i].errorMessage # Null
  <2>1. CASE i = j
    BY <1>4, <1>6, <2>1 DEF HasReason, TerminalStatuses
  <2>2. CASE i # j
    BY <1>5, <2>2 DEF ReasonInv
  <2> QED BY <2>1, <2>2
<1>8. SavesReason(frames[p])'
  BY <1>1, <1>2, <1>3 DEF SavesReason, SavingDispatch
<1> QED
  BY <1>0, <1>2, <1>7, <1>8, LifeTypes, MoveKeepsReason DEF ReasonInv, NoRedelivery

(* The job that is loaded to be dispatched has not ended. *)
LEMMA DispatchLoadReason ==
  ASSUME TypeInv, LinkInv, LifeInv, ReasonInv, NEW p \in Handlers, DispatchLoad(p), Moves(p)
  PROVE  ReasonInv'
<1> DEFINE f == [frames[p] EXCEPT !.step = "dispatch.start", !.jobDoc = jobs[frames[p].job]]
<1>0. /\ frames[p].step = "dispatch.load" /\ frames[p].job \in JobIds /\ frames[p] \in Frame
      /\ UNCHANGED <<jobs, queue, reports>> /\ frames'[p] = f
      /\ frames[p].workflow \in live
  BY LifeTypes, BecomeOnly DEF DispatchLoad, At, CarrySteps, store, n8n
<1>1. frames'[p].step = "dispatch.start" /\ frames'[p].jobDoc = jobs[frames[p].job]
  BY <1>0 DEF Frame
<1>2. frames[p].workflow = jobs[frames[p].job].workflowId
  BY <1>0 DEF LinkInv, FramesLinked, Linked, JobSteps
<1>3. Ready(frames[p].job)
  BY <1>0, <1>2 DEF LifeInv, FrameLife, Gone
<1>4. jobs[frames[p].job].errorMessage = Null
  BY <1>0, <1>3, ReadyIsBlank
<1>5. SavesReason(frames[p])'
  BY <1>1, <1>4 DEF SavesReason, SavingDispatch
<1> QED
  BY <1>0, <1>1, <1>5, MoveKeepsReason DEF ReasonInv, NoRedelivery

LEMMA DispatchStepReason ==
  ASSUME TypeInv, LinkInv, LifeInv, ReasonInv, NEW p \in Handlers, DispatchStep(p)
  PROVE  ReasonInv'
<1>0. Moves(p) /\ frames[p] \in Frame
  BY DispatchStepMoves, LifeTypes
<1>1. CASE DispatchLoad(p)
  BY <1>0, <1>1, DispatchLoadReason
<1>2. CASE DispatchStart(p)
  BY <1>0, <1>2, DispatchStartReason
<1>3. CASE DispatchFail(p)
  BY <1>0, <1>3, DispatchFailReason
<1>4. CASE PostAccepted(p) \/ PostRefused(p) \/ AnswerLost(p)
  <2>1. /\ frames[p].step \in SavingDispatch /\ UNCHANGED <<jobs, reports, queue>>
        /\ \E step \in SavingDispatch : Goto(p, step)
    BY <1>4 DEF PostAccepted, PostRefused, AnswerLost, At, store, n8n, SavingDispatch
  <2>2. PICK step \in SavingDispatch : frames'[p] = [frames[p] EXCEPT !.step = step]
    BY <2>1, BecomeOnly DEF Goto
  <2>3. frames'[p].step = step /\ frames'[p].jobDoc = frames[p].jobDoc
    BY <1>0, <2>2 DEF Frame
  <2> QED BY <1>0, <2>1, <2>3, DispatchGoesOn
<1>5. CASE CredentialMissing(p) \/ AnswerOk(p) \/ FinishReread(p) \/ WorkflowGone(p)
  <2>1. UNCHANGED <<jobs, reports, queue>> /\ (Throw(p) \/ DispatchReturns(p))
    BY <1>5 DEF CredentialMissing, AnswerOk, FinishReread, WorkflowGone, store, n8n
  <2> DEFINE f(step) == [Idle EXCEPT !.step = step, !.job = frames[p].job,
                                     !.workflow = frames[p].workflow]
  <2>2. /\ f("worker.nack").step = "worker.nack" /\ f("worker.ack").step = "worker.ack"
        /\ f("run.reload").step = "run.reload" /\ Idle.step = "idle"
    BY DEF Idle
  <2>3. \/ Become(p, f("worker.nack")) \/ Become(p, Idle)
        \/ Become(p, f("worker.ack")) \/ Become(p, f("run.reload"))
    BY <2>1 DEF Throw, DispatchReturns
  <2> HIDE DEF f
  <2>4. frames'[p].step \notin SavingDispatch \cup {"report.save"}
    BY <2>2, <2>3, BecomeOnly DEF SavingDispatch
  <2> QED BY <1>0, <2>1, <2>4, PlainMoveKeepsReason DEF ReasonInv, NoRedelivery
<1>6. CASE FinishLoad(p) \/ FinishSave(p)
  <2>1. UNCHANGED <<jobs, reports, queue>>
    BY <1>6 DEF FinishLoad, FinishSave, store, n8n
  <2> DEFINE f == [frames[p] EXCEPT !.step = "finish.save",
                                    !.workflowDoc = workflows[frames[p].workflow]]
             g == [frames[p] EXCEPT !.step = "finish.reread", !.workflowDoc = NullWorkflowDoc]
  <2>f. f.step = "finish.save" /\ g.step = "finish.reread"
    BY <1>0 DEF Frame
  <2>g. Become(p, f) \/ Become(p, g) \/ Become(p, Idle)
    BY <1>6 DEF FinishLoad, FinishSave
  <2> HIDE DEF f, g
  <2>2. frames'[p].step \in {"finish.save", "finish.reread", "idle"}
    BY <2>f, <2>g, BecomeOnly, EndFrames
  <2> QED BY <1>0, <2>1, <2>2, PlainMoveKeepsReason DEF ReasonInv, NoRedelivery, SavingDispatch
<1> QED
  BY <1>1, <1>2, <1>3, <1>4, <1>5, <1>6 DEF DispatchStep

(* A report is saved: no other report has loaded this job, so its save may take
   the text away together with the failure. *)
LEMMA ReportSaveReason ==
  ASSUME TypeInv, LifeInv, ReasonInv, NEW p \in Requests, ReportSave(p)
  PROVE  ReasonInv'
<1> DEFINE j == frames[p].job
           loaded == frames[p].jobDoc
           outcome == frames[p].outcome
           f == Finishing(frames[p], outcome, FALSE)
           g == [Idle EXCEPT !.step = "report.count", !.job = j,
                             !.workflow = frames[p].workflow, !.outcome = outcome]
<1>0. /\ p \in Handlers /\ frames[p].step = "report.save" /\ j \in JobIds /\ loaded \in JobDoc
      /\ outcome \in Outcomes /\ UNCHANGED <<queue, reports>>
  BY LifeTypes DEF ReportSave, At, n8n, Frame, Handlers
<1>1. f.step = "finish.load" /\ g.step = "report.count"
  BY DEF Finishing, Idle
<1>2. PICK text \in IF outcome = "completed" THEN {Null} ELSE Errors :
          jobs' = [jobs EXCEPT ![j] =
              SaveJob([loaded EXCEPT !.status = outcome, !.errorMessage = text], loaded, jobs[j])]
  BY DEF ReportSave
<1>3. /\ loaded.status = "failed" => loaded.errorMessage # Null
      /\ loaded.errorMessage # Null => jobs[j].errorMessage # Null
      /\ outcome = "completed" => loaded.status # "completed"
      /\ HasReason(jobs[j])
  BY <1>0 DEF ReasonInv, SavesReason
<1>4. Become(p, f) \/ Become(p, g)
  BY DEF ReportSave
<1> HIDE DEF j, loaded, outcome, f, g
<1>5. Moves(p) /\ frames'[p].step \in {"finish.load", "report.count"}
  BY <1>0, <1>1, <1>4, BecomeOnly DEF Moves
<1>6. /\ \A i \in JobIds : i # j => jobs'[i] = jobs[i]
      /\ jobs'[j].status = IF outcome # loaded.status THEN outcome ELSE jobs[j].status
      /\ jobs'[j].errorMessage = IF text # loaded.errorMessage THEN text
                                 ELSE jobs[j].errorMessage
  <2>1. text \in Errors \cup {Null} /\ outcome \in JobStatuses
    BY <1>0, <1>2 DEF Outcomes, JobStatuses
  <2> QED BY <1>0, <1>2, <2>1, SavedJob
<1>7. HasReason(jobs'[j])
  <2>1. CASE outcome = "completed"
    BY <1>2, <1>3, <1>6, <2>1 DEF HasReason, TerminalStatuses
  <2>2. CASE outcome = "failed"
    <3>1. text # Null
      BY <1>2, <2>2, InputsAssumption
    <3>2. jobs'[j].errorMessage # Null
      BY <1>3, <1>6, <3>1
    <3>3. jobs'[j].status \in TerminalStatuses
      BY <1>3, <1>6, <2>2 DEF HasReason, TerminalStatuses
    <3> QED BY <3>2, <3>3 DEF HasReason
  <2> QED BY <1>0, <2>1, <2>2 DEF Outcomes
<1>8. \A i \in JobIds : HasReason(jobs'[i])
  BY <1>6, <1>7 DEF ReasonInv
<1>9. \A q \in Handlers : q # p /\ frames[q].step = "report.save" =>
          frames[q].job # j /\ frames[q].job \in JobIds
  BY <1>0, LifeTypes DEF ReasonInv, OneReport, j
<1>10. SavesReason(frames[p])'
  BY <1>5 DEF SavesReason, SavingDispatch
<1> QED
  BY <1>0, <1>5, <1>6, <1>8, <1>9, <1>10, MoveKeepsReason DEF ReasonInv, NoRedelivery

(* n8n reports: on an execution nothing has been reported of, so no other report
   of this job is under way. *)
LEMMA ReportReason ==
  ASSUME ReportedOnce, TypeInv, LifeInv, ReasonInv, NEW p \in Requests, NEW j \in JobIds,
         NEW outcome \in Outcomes, Report(p, j, outcome)
  PROVE  ReasonInv'
<1>0. p \in Handlers
  BY DEF Handlers
<1>1. /\ Become(p, Found(j, outcome)) /\ UNCHANGED <<jobs, queue>>
      /\ reports' = [reports EXCEPT ![j] = @ + 1]
      /\ reports[j] < posts[j] * ReportsPerExecution
  BY DEF Report, ReportedOnce, NamedReports, store
<1>2. reports \in [JobIds -> Nat] /\ reports[j] \in Nat
  BY DEF TypeInv, TypeOK
<1>3. reports[j] = 0
  <2>1. posts[j] \in Nat /\ posts[j] <= 1
    BY LifeTypes DEF LifeInv, JobLife, ReasonInv, NoRedelivery
  <2>2. posts[j] \in {0, 1} /\ ReportsPerExecution \in {0, 1}
    BY <2>1, BoundsAssumption DEF ReportedOnce
  <2>3. posts[j] * ReportsPerExecution <= 1
    BY <2>2
  <2> QED BY <1>1, <1>2, <2>2, <2>3
<1>4. frames'[p] = Found(j, outcome) /\ Moves(p)
  BY <1>0, <1>1, BecomeOnly DEF Moves
<1>5. \/ frames'[p].step = "idle"
      \/ /\ frames'[p].step = "report.save" /\ frames'[p].job = j
         /\ frames'[p].jobDoc = jobs[j] /\ frames'[p].outcome = outcome
         /\ ~(outcome = "completed" /\ jobs[j].status = "completed")
  BY <1>4 DEF Found, Idle
<1>6. reports'[j] > 0 /\ \A i \in JobIds : reports[i] > 0 => reports'[i] > 0
  BY <1>1, <1>2
<1>7. HasReason(jobs[j])
  BY DEF ReasonInv
<1>8. SavesReason(frames[p])'
  BY <1>1, <1>5, <1>6, <1>7 DEF SavesReason, SavingDispatch, HasReason
<1>9. \A q \in Handlers : frames[q].step = "report.save" => frames[q].job # j
  BY <1>2, <1>3 DEF ReasonInv, SavesReason
<1> QED
  BY <1>0, <1>1, <1>4, <1>5, <1>6, <1>8, <1>9, MoveKeepsReason DEF ReasonInv, NoRedelivery

LEMMA ArrivalReason ==
  ASSUME ReportedOnce, TypeInv, LifeInv, ReasonInv, NEW p \in Requests, Arrival(p)
  PROVE  ReasonInv'
<1>0. p \in Handlers /\ \A w \in Workflows : direct[w] = 0
  BY DEF Handlers, LifeInv, NoDirect
<1>1. ASSUME NEW w \in Workflows, Run(p, w) \/ SetStatus(p, w) PROVE ReasonInv'
  <2> DEFINE f(step) == [Idle EXCEPT !.step = step, !.workflow = w,
                                     !.workflowDoc = workflows[w]]
  <2>1. \A step : f(step).step = step
    BY DEF Idle
  <2> HIDE DEF f
  <2>2. /\ UNCHANGED <<jobs, reports, queue>>
        /\ \E step \in {"run.mark", "status.save"} : Become(p, f(step))
    BY <1>1 DEF Run, SetStatus, store, n8n, f
  <2>3. Moves(p) /\ frames'[p].step \in {"run.mark", "status.save"}
    BY <1>0, <2>1, <2>2, BecomeOnly DEF Moves
  <2> QED
    BY <1>0, <2>2, <2>3, PlainMoveKeepsReason DEF SavingDispatch, ReasonInv, NoRedelivery
<1>2. ASSUME NEW w \in Workflows, Trigger(p, w) PROVE FALSE
  BY <1>0, <1>2 DEF Trigger, NamedReports, ReportedOnce
<1>3. ASSUME NEW w \in Workflows, NEW outcome \in Outcomes, ReportDirect(p, w, outcome)
      PROVE  FALSE
  <2>1. directReports[w] \in Nat /\ direct[w] * ReportsPerExecution = 0
    BY <1>0, BoundsAssumption DEF TypeInv, TypeOK
  <2> QED BY <1>3, <2>1 DEF ReportDirect
<1> QED
  BY <1>1, <1>2, <1>3, ReportReason DEF Arrival

(* The job that is inserted takes an id that was not in use. *)
LEMMA NewJobIsBlank ==
  ASSUME TypeInv, LinkInv, NEW w \in Workflows, NEW status \in JobStatuses, InsertJob(w, status)
  PROVE  /\ created' \in JobIds /\ jobs'[created'] = NewJob(w, status)
         /\ jobs[created'].errorMessage = Null
         /\ \A j \in JobIds : j # created' => jobs'[j] = jobs[j]
<1>1. /\ created' = created + 1 /\ created' \in JobIds /\ jobs'[created'] = NewJob(w, status)
      /\ \A j \in JobIds : j # created' => jobs'[j] = jobs[j]
  BY InsertKeepsJobs
<1>2. created \in Nat
  BY Ids
<1>3. \A c \in JobIds : c = created + 1 => jobs[c] = NoJobDoc
  BY <1>2 DEF LinkInv, JobsInOrder
<1> QED
  BY <1>1, <1>3 DEF NoJobDoc

LEMMA RequestReason ==
  ASSUME ReportedOnce, TypeInv, LinkInv, LifeInv, ReasonInv, NEW p \in Requests,
         RequestStep(p) \/ RunEnqueueFails(p)
  PROVE  ReasonInv'
<1> USE DEF At
<1>0. p \in Handlers /\ frames[p] \in Frame
  BY LifeTypes DEF Handlers
<1>1. CASE DispatchStep(p)
  BY <1>0, <1>1, DispatchStepReason
<1>2. CASE ReportSave(p)
  BY <1>2, ReportSaveReason
<1>3. CASE RunCreate(p)
  <2> DEFINE f == [Idle EXCEPT
                     !.step = IF QueueEnabled THEN "run.enqueue" ELSE "dispatch.load",
                     !.workflow = frames[p].workflow, !.job = created + 1]
  <2>1. frames[p].workflow \in Workflows
    BY <1>0, <1>3 DEF RunCreate, LinkInv, FramesLinked, Linked
  <2>2. /\ created' \in JobIds /\ jobs'[created'] = NewJob(frames[p].workflow, "queued")
        /\ jobs[created'].errorMessage = Null
        /\ \A j \in JobIds : j # created' => jobs'[j] = jobs[j]
    BY <1>3, <2>1, NewJobIsBlank DEF RunCreate, JobStatuses
  <2>3. frames'[p] = f /\ Moves(p) /\ UNCHANGED <<queue, reports>>
    BY <1>0, <1>3, BecomeOnly DEF RunCreate, Moves, n8n
  <2>4. frames'[p].step \in {"run.enqueue", "dispatch.load"}
    BY <2>3 DEF Idle
  <2>5. \A j \in JobIds : /\ HasReason(jobs'[j])
                          /\ jobs[j].errorMessage # Null => jobs'[j].errorMessage # Null
    BY <2>2 DEF ReasonInv, HasReason, NewJob
  <2>6. SavesReason(frames[p])'
    BY <2>4 DEF SavesReason, SavingDispatch
  <2> HIDE DEF f
  <2> QED
    BY <1>0, <2>3, <2>4, <2>5, <2>6, LifeTypes, MoveKeepsReason DEF ReasonInv, NoRedelivery
<1>4. CASE RunEnqueue(p)
  <2>1. /\ queue' = [queue EXCEPT ![frames[p].job] = Added] /\ frames[p].job \in JobIds
        /\ Moves(p) /\ UNCHANGED <<jobs, reports>> /\ frames'[p].step = "idle"
    BY <1>0, <1>4, BecomeOnly, EndFrames, LifeTypes DEF RunEnqueue, CarrySteps, Moves, n8n
  <2>2. NoRedelivery'
    BY <2>1, LifeTypes DEF NoRedelivery, ReasonInv, Added, NoEntry
  <2> QED BY <1>0, <2>1, <2>2, PlainMoveKeepsReason DEF SavingDispatch
<1>5. CASE ReportLatest(p)
  BY <1>0, <1>5 DEF ReportLatest, LifeInv, FrameLife
<1>6. CASE RunReload(p) \/ ReportCount(p)
  <2> DEFINE f(o) == Finishing(frames[p], o, FALSE)
  <2>1. \A o : f(o).step = "finish.load"
    BY DEF Finishing, Idle
  <2> HIDE DEF f
  <2>2. /\ UNCHANGED <<jobs, reports, queue>>
        /\ (Become(p, Idle) \/ \E o : Become(p, f(o)))
    BY <1>6 DEF RunReload, ReportCount, store, n8n, f
  <2>3. Moves(p) /\ frames'[p].step \in {"finish.load", "idle"}
    BY <1>0, <2>1, <2>2, BecomeOnly, EndFrames DEF Moves
  <2> QED
    BY <1>0, <2>2, <2>3, PlainMoveKeepsReason DEF SavingDispatch, ReasonInv, NoRedelivery
<1>7. CASE RunMark(p) \/ RunReread(p) \/ StatusSave(p) \/ TriggerAnswered(p)
  <2> DEFINE f == [Idle EXCEPT !.step = "run.reread", !.workflow = frames[p].workflow]
  <2>1. f.step = "run.reread"
    BY DEF Idle
  <2> HIDE DEF f
  <2>2. /\ UNCHANGED <<jobs, reports, queue>>
        /\ Become(p, f) \/ Become(p, Idle) \/ Goto(p, "run.create")
    BY <1>7 DEF RunMark, RunReread, StatusSave, TriggerAnswered, store, n8n, f
  <2>3. Moves(p) /\ frames'[p].step \in {"run.reread", "run.create", "idle"}
    BY <1>0, <2>1, <2>2, BecomeOnly, EndFrames DEF Moves, Goto, Frame
  <2> QED
    BY <1>0, <2>2, <2>3, PlainMoveKeepsReason DEF SavingDispatch, ReasonInv, NoRedelivery
<1>8. CASE RunEnqueueFails(p)
  <2>1. faults \in Nat /\ faults < 0
    BY <1>8 DEF RunEnqueueFails, ReportedOnce, TypeInv, TypeOK
  <2> QED BY <2>1
<1> QED
  BY <1>1, <1>2, <1>3, <1>4, <1>5, <1>6, <1>7, <1>8 DEF RequestStep

LEMMA ReasonStep ==
  ASSUME ReportedOnce, TypeInv, LinkInv, LifeInv, ReasonInv, [Next]_vars
  PROVE  ReasonInv'
<1> USE DEF At
<1>0. Worker \in Handlers
  BY DEF Handlers
<1>1. ASSUME NEW p \in Requests, Arrival(p) \/ RequestStep(p) \/ RunEnqueueFails(p)
      PROVE  ReasonInv'
  BY <1>1, ArrivalReason, RequestReason
<1>2. CASE DispatchStep(Worker)
  BY <1>0, <1>2, DispatchStepReason
<1>3. CASE WorkerAck \/ WorkerNack \/ \E j \in JobIds : WorkerTake(j)
  <2>1. \A e \in Entry : /\ Taken(e).stalls = e.stalls /\ Completed(e).stalls = e.stalls
                         /\ Rejected(e).stalls = e.stalls
    BY DEF Taken, Completed, Rejected, Entry
  <2>2. ASSUME NEW j, NEW i \in JobIds,
               \/ queue' = [queue EXCEPT ![j] = Taken(queue[j])]
               \/ queue' = [queue EXCEPT ![j] = Completed(queue[j])]
               \/ queue' = [queue EXCEPT ![j] = Rejected(queue[j])]
        PROVE  queue'[i].stalls = queue[i].stalls
    BY <2>1, <2>2, LifeTypes
  <2>3. NoRedelivery'
    BY <1>3, <2>2 DEF NoRedelivery, ReasonInv, WorkerTake, WorkerAck, WorkerNack
  <2> DEFINE f(j) == [Idle EXCEPT !.step = "dispatch.load", !.job = j,
                                  !.workflow = jobs[j].workflowId]
  <2>4. \A i : f(i).step = "dispatch.load"
    BY DEF Idle
  <2> HIDE DEF f
  <2>5. UNCHANGED <<jobs, reports>> /\ (Become(Worker, Idle) \/ \E i : Become(Worker, f(i)))
    BY <1>3 DEF WorkerTake, WorkerAck, WorkerNack, n8n, f
  <2>6. Moves(Worker) /\ frames'[Worker].step \in {"idle", "dispatch.load"}
    BY <1>0, <2>4, <2>5, BecomeOnly, EndFrames DEF Moves
  <2> QED BY <1>0, <2>3, <2>5, <2>6, PlainMoveKeepsReason DEF SavingDispatch
<1>4. CASE Crash
  <2>1. faults \in Nat /\ faults < 0
    BY <1>4 DEF Crash, ReportedOnce, TypeInv, TypeOK
  <2> QED BY <2>1
<1>5. ASSUME NEW w \in Workflows, CreateDraft(w) PROVE ReasonInv'
  <2>1. /\ created' \in JobIds /\ jobs'[created'] = NewJob(w, "draft")
        /\ jobs[created'].errorMessage = Null
        /\ \A j \in JobIds : j # created' => jobs'[j] = jobs[j]
    BY <1>5, NewJobIsBlank DEF CreateDraft, JobStatuses
  <2>2. UNCHANGED <<frames, reports, queue>>
    BY <1>5 DEF CreateDraft, n8n
  <2>3. \A j \in JobIds : /\ HasReason(jobs'[j])
                          /\ jobs[j].errorMessage # Null => jobs'[j].errorMessage # Null
    BY <2>1 DEF ReasonInv, HasReason, NewJob
  <2>4. ASSUME NEW q \in Handlers PROVE SavesReason(frames[q])'
    <3>1. frames[q].step = "report.save" => frames[q].job \in JobIds
      BY LifeTypes
    <3> QED BY <2>2, <2>3, <3>1 DEF ReasonInv, SavesReason
  <2> QED BY <2>2, <2>3, <2>4 DEF ReasonInv, NoRedelivery, OneReport
<1>6. CASE (\E w \in Workflows : Remove(w)) \/ UNCHANGED vars
  <2>1. UNCHANGED <<jobs, frames, reports, queue>>
    BY <1>6 DEF Remove, vars, store, n8n
  <2> QED BY <2>1 DEF ReasonInv, NoRedelivery, SavesReason, OneReport
<1> QED
  BY <1>1, <1>2, <1>3, <1>4, <1>5, <1>6 DEF Next, WorkerStep

(* While n8n reports an execution at most once and the process does not die, a
   failed job says why, whichever of the webhook's answer and the report is
   saved first and however stale what each of them had loaded. *)
THEOREM FailuresHaveReasons == ReportedOnce => (Spec => []FailedHasReason)
<1> SUFFICES ASSUME ReportedOnce PROVE Spec => []FailedHasReason
  OBVIOUS
<1>1. Init => ReasonInv
  <2> SUFFICES ASSUME Init PROVE ReasonInv
    OBVIOUS
  <2>1. \A p \in Handlers : frames[p].step = "idle"
    BY EndFrames DEF Init
  <2> QED
    BY <2>1 DEF Init, ReasonInv, NoRedelivery, NoEntry, HasReason, NoJobDoc, SavesReason,
       SavingDispatch, OneReport
<1>2. TypeInv /\ LinkInv /\ LifeInv /\ ReasonInv /\ [Next]_vars => ReasonInv'
  BY ReasonStep
<1>3. ReasonInv => FailedHasReason
  BY DEF ReasonInv, HasReason, FailedHasReason
<1>4. Spec => []LifeInv
  BY LifeInvariant DEF ReportedOnce
<1> QED
  BY <1>1, <1>2, <1>3, <1>4, TypeInvariant, LinkInvariant, PTL DEF Spec
=============================================================================
