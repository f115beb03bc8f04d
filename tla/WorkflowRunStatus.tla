-------------------------- MODULE WorkflowRunStatus --------------------------
(* The fields of a workflow document that a run changes, and the two methods of
   AutomationsService that change them on a loaded document: markAsRunning
   remembers the status it replaces, markRunFinished puts it back. *)
EXTENDS Documents, Naturals

WorkflowStatuses == {"Active", "Paused", "Draft", "Running", "Failed"}

WorkflowDoc ==
    [status : WorkflowStatuses,
     statusBeforeRun : WorkflowStatuses \cup {Null},
     triggers : Nat]

(* Mutant: the status is remembered without looking whether it is Running. *)
MarkAsRunningAlways(doc) ==
    [doc EXCEPT !.status = "Running", !.statusBeforeRun = doc.status]

(* The assignments of markAsRunning: a workflow that is running already keeps
   the status remembered by the run that started first. *)
MarkAsRunning(doc) ==
    [doc EXCEPT !.status = "Running",
                !.statusBeforeRun =
                    IF doc.status # "Running" THEN doc.status ELSE @]

(* Mutant: no default. *)
StatusToRestoreOrNull(doc) == doc.statusBeforeRun

(* `statusBeforeRun ?? 'Active'`. *)
StatusToRestore(doc) ==
    IF doc.statusBeforeRun = Null THEN "Active" ELSE doc.statusBeforeRun

(* The assignments of markRunFinished. *)
MarkRunFinished(doc, outcome) ==
    [doc EXCEPT !.status = IF outcome = "completed" THEN StatusToRestore(doc) ELSE "Failed",
                !.statusBeforeRun = Null]

(* Mutant: the whole document is written. *)
ReplaceWorkflow(doc, loaded, stored) == doc

(* workflow.save(): the stored document after saving `doc`, loaded as `loaded`.
   No method assigns `triggers` on a loaded document. *)
SaveWorkflow(doc, loaded, stored) ==
    [status |-> Written(doc.status, loaded.status, stored.status),
     statusBeforeRun |->
        Written(doc.statusBeforeRun, loaded.statusBeforeRun, stored.statusBeforeRun),
     triggers |-> Written(doc.triggers, loaded.triggers, stored.triggers)]

(* updateOne({ id }, { $inc: { triggers: 1 } }): atomic, on the stored document. *)
IncrementTriggers(stored) == [stored EXCEPT !.triggers = @ + 1]
=============================================================================
