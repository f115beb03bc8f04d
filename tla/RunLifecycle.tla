---------------------------- MODULE RunLifecycle ----------------------------
(* What the backend promises about jobs, without handlers, documents or queue:
   a job is asked for, started, executed by n8n and ended.  It is executed once,
   and once more each time the queue delivers it again after a crash; it ends by
   the report of an execution or because the execution could not be started or
   followed; once ended it starts again only when delivered again.

   JobRuns implements this specification, see Lifecycle in JobRunsProperties. *)
EXTENDS Naturals

CONSTANTS Jobs,            \* job ids
          MaxRedeliveries  \* how often the queue may deliver a job again

VARIABLES
    phase,         \* per job: the status the API returns, "none" before it is created
    executions,    \* per job: executions n8n has started
    redeliveries,  \* per job: deliveries after a crash
    succeeded      \* the jobs n8n has reported a success of

lifecycle == <<phase, executions, redeliveries, succeeded>>

Ended(j) == phase[j] \in {"completed", "failed"}

(* A delivery of the job has not been executed yet. *)
Due(j) == executions[j] <= redeliveries[j]

(* The job can be worked on: it is under way, or delivered again. *)
Open(j, phases) == phase[j] \in phases \/ (Ended(j) /\ redeliveries[j] > 0)

BecomesPhase(j, new) == phase' = [phase EXCEPT ![j] = new]

LifecycleInit ==
    /\ phase = [j \in Jobs |-> "none"]
    /\ executions = [j \in Jobs |-> 0]
    /\ redeliveries = [j \in Jobs |-> 0]
    /\ succeeded = {}

Create(j) ==
    /\ phase[j] = "none"
    /\ BecomesPhase(j, "draft") \/ BecomesPhase(j, "queued")
    /\ UNCHANGED <<executions, redeliveries, succeeded>>

Start(j) ==
    /\ Due(j)
    /\ Open(j, {"queued"})
    /\ BecomesPhase(j, "processing")
    /\ UNCHANGED <<executions, redeliveries, succeeded>>

Execute(j) ==
    /\ Due(j)
    /\ Open(j, {"processing"})
    /\ executions' = [executions EXCEPT ![j] = @ + 1]
    /\ UNCHANGED <<phase, redeliveries, succeeded>>

(* n8n calls an execution of the job successful. *)
Succeed(j) ==
    /\ executions[j] > 0
    /\ succeeded' = succeeded \cup {j}
    /\ UNCHANGED <<phase, executions, redeliveries>>

Complete(j) ==
    /\ j \in succeeded
    /\ phase[j] = "processing" \/ Ended(j)
    /\ BecomesPhase(j, "completed")
    /\ UNCHANGED <<executions, redeliveries, succeeded>>

Fail(j) ==
    /\ phase[j] = "processing" \/ (Ended(j) /\ executions[j] > 0)
    /\ BecomesPhase(j, "failed")
    /\ UNCHANGED <<executions, redeliveries, succeeded>>

Redeliver(j) ==
    /\ phase[j] \notin {"none", "draft"}
    /\ redeliveries[j] < MaxRedeliveries
    /\ redeliveries' = [redeliveries EXCEPT ![j] = @ + 1]
    /\ UNCHANGED <<phase, executions, succeeded>>

JobStep(j) ==
    \/ Create(j) \/ Start(j) \/ Execute(j) \/ Succeed(j) \/ Complete(j) \/ Fail(j)
    \/ Redeliver(j)

LifecycleSpec == LifecycleInit /\ [][\E j \in Jobs : JobStep(j)]_lifecycle
=============================================================================
