---------------------------- MODULE SchedulerPort ----------------------------
(***************************************************************************)
(* The promise of core.ports.Scheduler: a view-model submits a coroutine   *)
(* and its on_success or on_error is called once, with that coroutine's    *)
(* own outcome.  submit() raises RuntimeError when the scheduler is not    *)
(* started; a job accepted by a scheduler that is stopped before the job   *)
(* ends is never answered.  How the coroutine reaches a loop and how the   *)
(* callback reaches the GTK main thread is the implementation's business.  *)
(***************************************************************************)
EXTENDS Naturals

CONSTANT Job        \* the coroutines ever submitted, each one at most once

VARIABLES
    status,         \* what the submitter knows of each job
    outcome,        \* how each coroutine ended, "none" while it has not
    calls           \* number of callbacks each job has received

vars == <<status, outcome, calls>>

Status == {"unused", "refused", "accepted", "answered"}
Outcome == {"ok", "error"}      \* on_success or on_error

Init ==
    /\ status = [j \in Job |-> "unused"]
    /\ outcome = [j \in Job |-> "none"]
    /\ calls = [j \in Job |-> 0]

\* submit(): either the coroutine is taken, or RuntimeError is raised.
Submit(j) ==
    /\ status[j] = "unused"
    /\ \E s \in {"accepted", "refused"} : status' = [status EXCEPT ![j] = s]
    /\ UNCHANGED <<outcome, calls>>

\* The coroutine returns or raises.
Finish(j) ==
    /\ status[j] = "accepted"
    /\ outcome[j] = "none"
    /\ \E o \in Outcome : outcome' = [outcome EXCEPT ![j] = o]
    /\ UNCHANGED <<status, calls>>

\* The one callback of a finished job.
Answer(j) ==
    /\ status[j] = "accepted"
    /\ outcome[j] # "none"
    /\ status' = [status EXCEPT ![j] = "answered"]
    /\ calls' = [calls EXCEPT ![j] = @ + 1]
    /\ UNCHANGED outcome

Next == \E j \in Job : Submit(j) \/ Finish(j) \/ Answer(j)

Spec == Init /\ [][Next]_vars
=============================================================================
