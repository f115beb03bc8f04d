-------------------------- MODULE JobRunsProperties --------------------------
(* What the run of a job must guarantee, stated over the model of JobRuns. *)
EXTENDS JobRuns

(* Every variable stays in its domain: the documents have the fields and the
   enum values of their Mongoose schemas, a frame names one of the steps. *)
TypeOK ==
    /\ workflows \in [Workflows -> WorkflowDoc]
    /\ live \subseteq Workflows
    /\ jobs \in [JobIds -> JobDoc]
    /\ created \in 0..MaxJobs
    /\ queue \in [JobIds -> Entry]
    /\ frames \in [Handlers -> Frame]
    /\ posts \in [JobIds -> Nat]
    /\ reports \in [JobIds -> Nat]
    /\ succeeded \subseteq JobIds
    /\ direct \in [Workflows -> Nat]
    /\ directReports \in [Workflows -> Nat]
    /\ interrupted \subseteq Workflows \cup {NoWorkflow}
    /\ abandoned \subseteq 0..MaxJobs
    /\ faults \in Nat

(* ------------------------------------------------------------------------ *)
(* The run status of a workflow *)

(* markAsRunning never remembers "Running" as the status to go back to, however
   many runs overlap: a finished run could otherwise leave the workflow running
   for ever. *)
NeverRestoresRunning ==
    \A w \in Workflows : workflows[w].statusBeforeRun # "Running"

(* A handler is about to finish the run of w: it has not read the workflow yet,
   or it read "Running" and its save will replace it. *)
AboutToFinish(p, w) ==
    /\ frames[p].workflow = w
    /\ \/ frames[p].step \in {"report.count", "finish.load"}
       \/ At(p, "finish.save") /\ frames[p].workflowDoc.status = "Running"

(* A handler of run has marked w and not created its job yet. *)
AboutToStart(p, w) ==
    frames[p].workflow = w /\ frames[p].step \in {"run.reread", "run.create"}

(* Job j is on its way to an end: its entry waits in the queue, a handler has it
   in hand, or n8n has accepted it and not reported all it may report. *)
Carried(j) ==
    \/ queue[j].state = "waiting"
    \/ \E p \in Handlers : frames[p].job = j /\ frames[p].step \in InHand
    \/ reports[j] < posts[j] * ReportsPerExecution

(* Nothing will process job j any more: its attempts are used up, queue.add failed,
   dispatch threw out of a run without a queue, or the request died that had it. *)
GivenUp(j) == queue[j].state = "failed" \/ j \in abandoned

(* A workflow shown as Running has something that will end it: a run that is
   starting, a handler about to finish a run, or an unfinished job on its way.
   On the side of the backend two things strand it, and only they do: a crash
   between two writes, and an unfinished job that was given up, which dispatch and
   run leave as it is.  (Besides them n8n may keep a report it owes.) *)
RunningIsAccounted ==
    \A w \in live \ interrupted :
        workflows[w].status = "Running" =>
            \/ \E p \in Handlers : AboutToStart(p, w) \/ AboutToFinish(p, w)
            \/ \E j \in ActiveJobs(w) : Carried(j) \/ GivenUp(j)

(* Finishing runs that never failed gives every workflow back a status its
   users chose. *)
RestoresUserStatus ==
    (\A j \in JobIds : jobs[j].status # "failed") =>
        \A w \in live : workflows[w].status \in UserStatuses \cup {"Running"}

(* ------------------------------------------------------------------------ *)
(* The queue *)

(* With the queue, a job in status queued is never forgotten: run is about to
   enqueue it, its entry is still to be processed, its attempts are used up, or
   it never got an entry because queue.add or its request failed.  In particular
   no entry is done while its job is still queued.  (That a failed entry leaves its
   job queued is what the code does, and is allowed.) *)
QueuedJobIsCarried ==
    QueueEnabled =>
        \A j \in JobIds : jobs[j].status = "queued" =>
            \/ queue[j].state \in {"waiting", "active", "failed"}
            \/ \E p \in Requests : At(p, "run.enqueue") /\ frames[p].job = j
            \/ j \in abandoned /\ queue[j].state = "none"

(* The retries of the queue never execute an automation twice: dispatch throws
   only before its webhook call or once the workflow is gone.  Only an entry
   that stalled in a crash is posted again. *)
AtMostOnePost == \A j \in JobIds : posts[j] <= 1 + queue[j].stalls

(* ------------------------------------------------------------------------ *)
(* The outcome of a job *)

(* A job is completed only by a report that calls this job successful. *)
CompletedOnlyIfReported ==
    \A j \in JobIds : jobs[j].status = "completed" => j \in succeeded

(* A failed job says why, whichever of the webhook's answer and a report comes
   first: no stale save clears the error text of a job that ends up failed.
   (Only when n8n reports an execution once.  Of two contradicting reports saves
   write the fields they change, and mix a status and an error text.) *)
FailedHasReason ==
    \A j \in JobIds : jobs[j].status = "failed" => jobs[j].errorMessage # Null

(* A job that has ended never starts again, retries and late answers of the
   webhook included, unless a crash has made the queue deliver it again. *)
EndedStaysEnded ==
    [][\A j \in JobIds : jobs[j].status \in TerminalStatuses /\ queue[j].stalls = 0 =>
            jobs'[j].status \in TerminalStatuses]_vars

(* Handlers, documents, queue, retries and crashes together implement the life
   of a job as RunLifecycle tells it.  (As long as reports name their job: one
   that names only the workflow may end a job that was never executed.) *)
Lifecycle == INSTANCE RunLifecycle WITH
    Jobs <- JobIds,
    MaxRedeliveries <- MaxStalls + 1,
    phase <- [j \in JobIds |-> jobs[j].status],
    executions <- posts,
    redeliveries <- [j \in JobIds |-> queue[j].stalls]

ImplementsLifecycle == Lifecycle!LifecycleSpec

(* ------------------------------------------------------------------------ *)
(* The trigger counter *)

Counting(w) == {p \in Handlers : At(p, "report.count") /\ frames[p].workflow = w}
CompletedJobs(w) == {j \in JobsOf(w) : jobs[j].status = "completed"}

(* Every completed job has been counted on its workflow, or is about to be: no
   increment is lost to another handler saving the workflow meanwhile.  (An
   inequality: a job that two overlapping reports count twice is not caught.) *)
CompletedIsCounted ==
    \A w \in live \ interrupted :
        Cardinality(CompletedJobs(w)) <= workflows[w].triggers + Cardinality(Counting(w))

(* When n8n reports every execution once, each job is counted at most once, and
   only if a report called it successful.  Direct triggers may be counted twice,
   by their answer and again by their report, which names no job; a workflow
   that has had none shows no more than its successful jobs. *)
TriggersAreEarned ==
    \A w \in live :
        workflows[w].triggers + Cardinality(Counting(w))
            <= Cardinality(JobsOf(w) \cap succeeded) + 2 * direct[w]

(* ------------------------------------------------------------------------ *)
(* Progress *)

(* Every queue entry is worked off, by success or by using up its attempts; in the
   second case its job may stay queued. *)
EntriesAreWorkedOff ==
    \A j \in JobIds : queue[j].state = "waiting" ~> queue[j].state \in {"done", "failed"}

(* When n8n reports every execution and the credentials stay, no workflow is
   shown as Running for ever. *)
RunsFinish ==
    \A w \in Workflows : (w \in live /\ workflows[w].status = "Running") ~> (w \notin live \/ workflows[w].status # "Running")
=============================================================================
