------------------------------ MODULE JobEvents ------------------------------
(* The events JobsGateway pushes to the rooms of a job, composed with the
   handlers of JobRuns.  A handler emits its own copy of the job as soon as its
   save has resolved: other handlers may have saved the job since the copy was
   loaded, and may save it between the save and the event.  Edits of a job's
   configuration are here as well: they never write the status, but the event
   they emit carries the one they loaded.

   A crash ends the sockets of all subscribers, who read the job again when they
   are back; the steps of this module leave it out. *)
EXTENDS JobRunsProperties

VARIABLES
    editing,     \* per request slot: the job an edit has loaded
    announcing,  \* per slot: the event its handler emits next
    shown,       \* per job: the status of the last event
    announced,   \* per job: the ends its events told of
    overlapped   \* the jobs saved by one handler while another one held a copy

push == <<editing, announcing, shown, announced, overlapped>>

(* Of an event's fields only those that identify the job and its status. *)
NoEvent == [job |-> NoJob, status |-> "none"]

InitEvents ==
    /\ Init
    /\ editing = [p \in Requests |-> NoEvent]
    /\ announcing = [p \in Handlers |-> NoEvent]
    /\ shown = [j \in JobIds |-> "none"]
    /\ announced = [j \in JobIds |-> {}]
    /\ overlapped = {}

(* The slots free for another request. *)
Vacant(p) == Free(p) /\ announcing[p] = NoEvent /\ editing[p] = NoEvent

Push(j, status) ==
    /\ shown' = [shown EXCEPT ![j] = status]
    /\ announced' = [announced EXCEPT ![j] = @ \cup ({status} \cap TerminalStatuses)]

(* emitJobStatus: the event reaches the job's, the site's and the user's room. *)
Emit(p) ==
    /\ announcing[p] # NoEvent
    /\ Push(announcing[p].job, announcing[p].status)
    /\ announcing' = [announcing EXCEPT ![p] = NoEvent]
    /\ UNCHANGED <<vars, editing, overlapped>>

------------------------------------------------------------------------------
(* The saves of JobRuns *)

(* Slot p holds a copy of job j that it will emit. *)
HoldsCopy(p, j) ==
    \/ /\ frames[p].job = j
       /\ frames[p].step \in {"dispatch.start", "dispatch.post", "dispatch.await",
                              "dispatch.fail", "report.save"}
    \/ announcing[p].job = j
    \/ p \in Requests /\ editing[p].job = j

EventIf(cond, j, status) == IF cond THEN [job |-> j, status |-> status] ELSE NoEvent

(* Mutants: a failed call, or a report, is saved without its event. *)
EventAfterSilentFail(p) ==
    LET f == frames[p]
        step == frames'[p].step
    IN  CASE f.step = "dispatch.start" -> EventIf(step = "dispatch.post", f.job, "processing")
          [] f.step = "dispatch.await" ->
                 EventIf(step \notin {"dispatch.await", "dispatch.fail"}, f.job, f.jobDoc.status)
          [] f.step = "report.save" -> EventIf(step # f.step, f.job, f.outcome)
          [] f.step = "run.create" -> EventIf(step # f.step, created', "queued")
          [] OTHER -> NoEvent

EventAfterSilentReport(p) ==
    LET f == frames[p]
        step == frames'[p].step
    IN  CASE f.step = "dispatch.start" -> EventIf(step = "dispatch.post", f.job, "processing")
          [] f.step = "dispatch.await" ->
                 EventIf(step \notin {"dispatch.await", "dispatch.fail"}, f.job, f.jobDoc.status)
          [] f.step = "dispatch.fail" -> EventIf(step # f.step, f.job, "failed")
          [] f.step = "run.create" -> EventIf(step # f.step, created', "queued")
          [] OTHER -> NoEvent

(* The event of the save slot p has just done, if it did one: its own copy of
   the job.  After the webhook's answer that is the copy dispatch loaded, with
   the status it gave it. *)
EventAfter(p) ==
    LET f == frames[p]
        step == frames'[p].step
    IN  CASE f.step = "dispatch.start" -> EventIf(step = "dispatch.post", f.job, "processing")
          [] f.step = "dispatch.await" ->
                 EventIf(step \notin {"dispatch.await", "dispatch.fail"}, f.job, f.jobDoc.status)
          [] f.step = "dispatch.fail" -> EventIf(step # f.step, f.job, "failed")
          [] f.step = "report.save" -> EventIf(step # f.step, f.job, f.outcome)
          [] f.step = "run.create" -> EventIf(step # f.step, created', "queued")
          [] OTHER -> NoEvent

(* Draft jobs are created and announced in one go: nobody knows them before. *)
NewDrafts == {j \in JobIds : jobs'[j].status = "draft" /\ jobs[j].status = "none"}

RunsStep ==
    /\ Next
    /\ UNCHANGED faults
    /\ \A p \in Handlers : frames'[p] # frames[p] =>
           announcing[p] = NoEvent /\ (p \in Requests => editing[p] = NoEvent)
    /\ announcing' = [p \in Handlers |->
                         IF frames'[p] = frames[p] THEN announcing[p] ELSE EventAfter(p)]
    /\ overlapped' = overlapped \cup
           {j \in JobIds : /\ jobs'[j] # jobs[j]
                           /\ \E p \in Handlers : frames'[p] = frames[p] /\ HoldsCopy(p, j)}
    /\ IF NewDrafts = {} THEN UNCHANGED <<shown, announced>>
       ELSE \E j \in NewDrafts : Push(j, "draft")
    /\ UNCHANGED editing

------------------------------------------------------------------------------
(* JobsService.updateNodeConfig, as far as events are concerned: it loads the
   job and, several awaits later, saves everything but its status, or throws. *)

EditLoad(p, j) ==
    /\ Vacant(p)
    /\ jobs[j].status # "none"
    /\ editing' = [editing EXCEPT ![p] = [job |-> j, status |-> jobs[j].status]]
    /\ UNCHANGED <<vars, announcing, shown, announced, overlapped>>

(* The save does not write the status, so it is one step with the event. *)
EditSave(p) ==
    /\ editing[p] # NoEvent
    /\ Push(editing[p].job, editing[p].status)
    /\ editing' = [editing EXCEPT ![p] = NoEvent]
    /\ UNCHANGED <<vars, announcing, overlapped>>

EditThrows(p) ==
    /\ editing[p] # NoEvent
    /\ editing' = [editing EXCEPT ![p] = NoEvent]
    /\ UNCHANGED <<vars, announcing, shown, announced, overlapped>>

NextEvents ==
    \/ RunsStep
    \/ \E p \in Handlers : Emit(p)
    \/ \E p \in Requests, j \in JobIds : EditLoad(p, j)
    \/ \E p \in Requests : EditSave(p) \/ EditThrows(p)

EventsSpec == InitEvents /\ [][NextEvents]_<<vars, push>>

------------------------------------------------------------------------------
(* The properties *)

Pending(j) == {announcing[p].status : p \in {q \in Handlers : announcing[q].job = j}}

(* No end of a job passes in silence: whoever saves it, dispatch or a report,
   the rooms of the job have been told of it, or are about to be. *)
EndIsAnnounced ==
    \A j \in JobIds : jobs[j].status \in TerminalStatuses =>
        jobs[j].status \in announced[j] \cup Pending(j)

(* Once every event is out, subscribers see the status the job has.  It is the
   stale copies that break this, and nothing else: a job reported ended before
   dispatch had the webhook's answer, or edited meanwhile, may be shown as
   processing for ever. *)
StaleOnlyWhenOverlapped ==
    \A j \in JobIds \ overlapped :
        jobs[j].status # "none" /\ Pending(j) = {} => shown[j] = jobs[j].status
=============================================================================
