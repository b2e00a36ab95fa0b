--------------------------- MODULE NativeScheduler ---------------------------
(***************************************************************************)
(* platform.scheduler.GLibEventLoopScheduler: asyncio on the GLib main     *)
(* loop.  There is one thread; a handle of the loop is a source of the     *)
(* main context, so it runs between two other sources and never inside a   *)
(* callback.  stop() only forgets the loop and restores the asyncio        *)
(* policy: handles already on the main context still run if the            *)
(* application keeps iterating it.                                         *)
(***************************************************************************)
EXTENDS Naturals, Sequences

CONSTANTS
    Job,            \* coroutines, each submitted at most once
    MaxStarts,      \* bound: calls of start()
    MaxAwaits       \* bound: awaits that really suspend, per coroutine

ASSUME BoundAssumption == MaxStarts \in Nat /\ MaxAwaits \in Nat

VARIABLES
    started,        \* self._loop is not None
    policy,         \* the process-wide asyncio policy: "default" or "gi"
    starts,         \* calls of start() so far
    handles,        \* handles of the loop on the main context, FIFO
    phase, outcome, awaits, calls,
    order           \* history: the accepted jobs, in the order of submit()

vars == <<started, policy, starts, handles, phase, outcome, awaits, calls, order>>

Handle(j, k) == [job |-> j, kind |-> k]

Init ==
    /\ started = FALSE /\ policy = "default" /\ starts = 0
    /\ handles = <<>>
    /\ phase = [j \in Job |-> "unused"]
    /\ outcome = [j \in Job |-> "none"]
    /\ awaits = [j \in Job |-> 0]
    /\ calls = [j \in Job |-> 0]
    /\ order = <<>>

\* start(), called by main() on a scheduler that is not started.
Start ==
    /\ ~started /\ starts < MaxStarts
    /\ started' = TRUE /\ policy' = "gi" /\ starts' = starts + 1
    /\ UNCHANGED <<handles, phase, outcome, awaits, calls, order>>

\* Mutant: stop() forgets to restore the policy.
StopKeepingPolicy ==
    /\ started
    /\ started' = FALSE
    /\ UNCHANGED <<policy, starts, handles, phase, outcome, awaits, calls, order>>

Stop ==
    /\ started
    /\ started' = FALSE /\ policy' = "default"
    /\ UNCHANGED <<starts, handles, phase, outcome, awaits, calls, order>>

\* submit(): RuntimeError when not started, else create_task on the loop.
Submit(j) ==
    /\ phase[j] = "unused"
    /\ IF started
         THEN /\ phase' = [phase EXCEPT ![j] = "stepping"]
              /\ handles' = Append(handles, Handle(j, "step"))
              /\ order' = Append(order, j)
         ELSE /\ phase' = [phase EXCEPT ![j] = "refused"]
              /\ UNCHANGED <<handles, order>>
    /\ UNCHANGED <<started, policy, starts, outcome, awaits, calls>>

Pops(h) == handles # <<>> /\ Head(handles) = h

StepSuspends(j) ==
    /\ Pops(Handle(j, "step")) /\ awaits[j] < MaxAwaits
    /\ handles' = Tail(handles)
    /\ awaits' = [awaits EXCEPT ![j] = @ + 1]
    /\ phase' = [phase EXCEPT ![j] = "waiting"]
    /\ UNCHANGED <<started, policy, starts, outcome, calls, order>>

\* The task ends: add_done_callback's _done is scheduled behind the rest.
StepEnds(j) ==
    /\ Pops(Handle(j, "step"))
    /\ handles' = Append(Tail(handles), Handle(j, "done"))
    /\ \E o \in {"ok", "error"} : outcome' = [outcome EXCEPT ![j] = o]
    /\ phase' = [phase EXCEPT ![j] = "done"]
    /\ UNCHANGED <<started, policy, starts, awaits, calls, order>>

\* The awaited I/O completes; the next step goes on the main context.
Resume(j) ==
    /\ phase[j] = "waiting"
    /\ handles' = Append(handles, Handle(j, "step"))
    /\ phase' = [phase EXCEPT ![j] = "stepping"]
    /\ UNCHANGED <<started, policy, starts, outcome, awaits, calls, order>>

\* Mutant: _done leaves its handle on the context.
DoneAgain(j) ==
    /\ Pops(Handle(j, "done"))
    /\ phase' = [phase EXCEPT ![j] = "called"]
    /\ calls' = [calls EXCEPT ![j] = @ + 1]
    /\ UNCHANGED <<started, policy, starts, handles, outcome, awaits, order>>

\* _done: on_error or on_success, on the main thread already.
Done(j) ==
    /\ Pops(Handle(j, "done"))
    /\ handles' = Tail(handles)
    /\ phase' = [phase EXCEPT ![j] = "called"]
    /\ calls' = [calls EXCEPT ![j] = @ + 1]
    /\ UNCHANGED <<started, policy, starts, outcome, awaits, order>>

MainContext == \E j \in Job : StepSuspends(j) \/ StepEnds(j) \/ Done(j)

Next ==
    \/ Start \/ Stop \/ MainContext
    \/ \E j \in Job : Submit(j) \/ Resume(j)

Spec == Init /\ [][Next]_vars

-----------------------------------------------------------------------------
TypeOK ==
    /\ started \in BOOLEAN /\ policy \in {"default", "gi"} /\ starts \in 0 .. MaxStarts
    /\ handles \in Seq([job : Job, kind : {"step", "done"}])
    /\ phase \in [Job -> {"unused", "refused", "stepping", "waiting", "done", "called"}]
    /\ outcome \in [Job -> {"none", "ok", "error"}]
    /\ awaits \in [Job -> 0 .. MaxAwaits]
    /\ calls \in [Job -> Nat]
    /\ order \in Seq(Job)

\* stop()'s comment: the asyncio policy is process-global and must be
\* restored; outside start()..stop() the process has its own policy back.
PolicyRestored == ~started => policy = "default"

\* The same port as ThreadLoopScheduler, hence at most one callback per job.
StatusOf(j) ==
    CASE phase[j] = "unused"  -> "unused"
      [] phase[j] = "refused" -> "refused"
      [] phase[j] = "called"  -> "answered"
      [] OTHER                -> "accepted"

Port == INSTANCE SchedulerPort WITH status <- [j \in Job |-> StatusOf(j)]

ImplementsPort == Port!Spec
=============================================================================
