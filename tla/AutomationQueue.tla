--------------------------- MODULE AutomationQueue ---------------------------
(* The life of one entry of the BullMQ queue 'automation-jobs' under the options
   JobsService.run gives it: how often it is tried, and what becomes of it when
   the processor returns, throws, or dies with the process.  BullMQ itself is
   outside the repository; time (the back-off) is abstracted, so an entry that
   waits for its back-off is simply "waiting". *)
EXTENDS Naturals

CONSTANTS MaxAttempts,  \* the `attempts` option of queue.add
          MaxStalls     \* BullMQ's maxStalledCount

ASSUME AttemptsAssumption == MaxAttempts \in Nat \ {0}
ASSUME StallsAssumption == MaxStalls \in Nat

EntryStates == {"none", "waiting", "active", "done", "failed"}

Entry == [state : EntryStates, attempts : Nat, stalls : Nat]

NoEntry == [state |-> "none", attempts |-> 0, stalls |-> 0]

(* queue.add *)
Added == [NoEntry EXCEPT !.state = "waiting"]

(* The worker locks the entry and calls the processor. *)
Taken(entry) == [entry EXCEPT !.state = "active"]

(* The processor's promise is fulfilled. *)
Completed(entry) == [entry EXCEPT !.state = "done"]

(* Mutant: attempts are not counted. *)
RejectedForever(entry) == [entry EXCEPT !.state = "waiting"]

(* The processor's promise is rejected: back to waiting until the attempts are
   used up. *)
Rejected(entry) ==
    [entry EXCEPT !.attempts = @ + 1,
                  !.state = IF entry.attempts + 1 < MaxAttempts THEN "waiting" ELSE "failed"]

(* The process died while the entry was active: its lock expires and the next
   worker finds the entry stalled. *)
Stalled(entry) ==
    [entry EXCEPT !.stalls = @ + 1,
                  !.state = IF entry.stalls < MaxStalls THEN "waiting" ELSE "failed"]
=============================================================================
