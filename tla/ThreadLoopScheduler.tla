------------------------- MODULE ThreadLoopScheduler -------------------------
(***************************************************************************)
(* platform.scheduler.ThreadLoopScheduler: the GTK main thread, and one    *)
(* daemon thread per start() that runs a plain asyncio loop.  Coroutines   *)
(* go in with run_coroutine_threadsafe, callbacks come back with           *)
(* GLib.idle_add.                                                          *)
(*                                                                         *)
(* The asyncio loop is modelled as the code relies on it: a FIFO of        *)
(* handles consumed in batches; loop.stop() lets the current batch end;    *)
(* closing the loop drops what is left.  A job is three handles on that    *)
(* FIFO: "create" the task, "step" it (once per segment between two        *)
(* awaits), and "settle" the future run_coroutine_threadsafe returned,     *)
(* whose done-callback is _dispatch.                                       *)
(***************************************************************************)
EXTENDS Integers, Sequences

CONSTANTS
    Job,            \* coroutines, each submitted at most once
    MaxStarts,      \* bound: loop threads ever created by start()
    MaxAwaits       \* bound: awaits that really suspend, per coroutine

ASSUME BoundAssumption == MaxStarts \in Nat /\ MaxAwaits \in Nat

VARIABLES
    main,           \* what the main thread is in: "idle", "starting", "joining"
    thread,         \* self._thread: the thread number, 0 for None
    loop,           \* self._loop: the thread whose loop it is, 0 for None
    ready,          \* self._ready
    born,           \* threads created so far
    tpc,            \* where each loop thread is in _run
    readyQ,         \* handles each loop still has to run
    todo,           \* handles left in the batch each loop is running
    stopping,       \* loop.stop(): "no", "queued", "set" (asyncio _stopping)
    phase,          \* how far each job is
    home,           \* the loop each job was submitted to
    outcome,        \* how each coroutine ended
    awaits,         \* suspensions of each coroutine so far
    idle,           \* GLib idle sources: the jobs whose _deliver is pending
    calls,          \* callbacks each job has received
    order           \* history: the accepted jobs, in the order of submit()

threadVars == <<main, thread, loop, ready, born, tpc>>
loopVars == <<readyQ, todo, stopping>>
jobVars == <<phase, home, outcome, awaits>>
vars == <<main, thread, loop, ready, born, tpc, readyQ, todo, stopping,
          phase, home, outcome, awaits, idle, calls, order>>

Thread == 1 .. MaxStarts
Outcome == {"ok", "error"}
Phase == {"unused", "refused", "creating", "stepping", "waiting", "settling",
          "posted", "called"}
Kind == {"create", "step", "settle"}
StopHandle == [job |-> "none", kind |-> "stop"]
Handle(j, k) == [job |-> j, kind |-> k]
JobHandle == {Handle(j, k) : j \in Job, k \in Kind}

Init ==
    /\ main = "idle" /\ thread = 0 /\ loop = 0 /\ ready = FALSE /\ born = 0
    /\ tpc = [t \in Thread |-> "none"]
    /\ readyQ = [t \in Thread |-> <<>>]
    /\ todo = [t \in Thread |-> 0]
    /\ stopping = [t \in Thread |-> "no"]
    /\ phase = [j \in Job |-> "unused"]
    /\ home = [j \in Job |-> 0]
    /\ outcome = [j \in Job |-> "none"]
    /\ awaits = [j \in Job |-> 0]
    /\ idle = <<>>
    /\ calls = [j \in Job |-> 0]
    /\ order = <<>>

Enqueue(t, h) == readyQ' = [readyQ EXCEPT ![t] = Append(@, h)]

-----------------------------------------------------------------------------
(* The GTK main thread.                                                    *)

\* start(): a no-op when a thread exists; otherwise create it, then wait.
Start ==
    /\ main = "idle" /\ thread = 0 /\ born < MaxStarts
    /\ born' = born + 1
    /\ thread' = born + 1
    /\ tpc' = [tpc EXCEPT ![born + 1] = "new"]
    /\ main' = "starting"
    /\ UNCHANGED <<loop, ready, loopVars, jobVars, idle, calls, order>>

\* _ready.wait(timeout=5) returns, or times out and start() raises; the
\* thread and the attributes stay as they are.
StartReturns ==
    /\ main = "starting" /\ ready
    /\ main' = "idle"
    /\ UNCHANGED <<thread, loop, ready, born, tpc, loopVars, jobVars, idle, calls, order>>

StartTimesOut ==
    /\ main = "starting" /\ ~ready
    /\ main' = "idle"
    /\ UNCHANGED <<thread, loop, ready, born, tpc, loopVars, jobVars, idle, calls, order>>

\* stop(): ask the current loop to stop, then join the current thread.
Stop ==
    /\ main = "idle" /\ thread # 0
    /\ main' = "joining"
    /\ IF loop # 0
         THEN /\ Enqueue(loop, StopHandle)
              /\ stopping' = [stopping EXCEPT ![loop] = "queued"]
         ELSE UNCHANGED <<readyQ, stopping>>
    /\ UNCHANGED <<thread, loop, ready, born, tpc, todo, jobVars, idle, calls, order>>

\* Mutant: stop() keeps self._loop.
JoinReturnsKeepingLoop ==
    /\ main = "joining"
    /\ main' = "idle"
    /\ thread' = 0 /\ ready' = FALSE
    /\ UNCHANGED <<loop, born, tpc, loopVars, jobVars, idle, calls, order>>

\* join(timeout=5) returns because the thread ended or because a handle
\* still blocks it; the attributes are reset either way.
JoinReturns ==
    /\ main = "joining"
    /\ main' = "idle"
    /\ thread' = 0 /\ loop' = 0 /\ ready' = FALSE
    /\ UNCHANGED <<born, tpc, loopVars, jobVars, idle, calls, order>>

\* submit(): RuntimeError without a loop, else run_coroutine_threadsafe.
Submit(j) ==
    /\ main = "idle" /\ phase[j] = "unused"
    /\ IF loop = 0
         THEN /\ phase' = [phase EXCEPT ![j] = "refused"]
              /\ UNCHANGED <<readyQ, home, order>>
         ELSE /\ phase' = [phase EXCEPT ![j] = "creating"]
              /\ home' = [home EXCEPT ![j] = loop]
              /\ order' = Append(order, j)
              /\ Enqueue(loop, Handle(j, "create"))
    /\ UNCHANGED <<threadVars, todo, stopping, outcome, awaits, idle, calls>>

\* The main loop runs the next idle source: _deliver, then on_success or
\* on_error; the source removes itself.
Deliver ==
    /\ main = "idle" /\ idle # <<>>
    /\ idle' = Tail(idle)
    /\ phase' = [phase EXCEPT ![Head(idle)] = "called"]
    /\ calls' = [calls EXCEPT ![Head(idle)] = @ + 1]
    /\ UNCHANGED <<threadVars, loopVars, home, outcome, awaits, order>>

-----------------------------------------------------------------------------
(* Loop thread t: _run.                                                    *)

SetLoop(t) ==
    /\ tpc[t] = "new"
    /\ loop' = t
    /\ tpc' = [tpc EXCEPT ![t] = "set"]
    /\ UNCHANGED <<main, thread, ready, born, loopVars, jobVars, idle, calls, order>>

SetReady(t) ==
    /\ tpc[t] = "set"
    /\ ready' = TRUE
    /\ tpc' = [tpc EXCEPT ![t] = "running"]
    /\ UNCHANGED <<main, thread, loop, born, loopVars, jobVars, idle, calls, order>>

\* run_forever takes the handles that are on the FIFO as the next batch.
TakeBatch(t) ==
    /\ tpc[t] = "running" /\ todo[t] = 0 /\ stopping[t] # "set"
    /\ readyQ[t] # <<>>
    /\ todo' = [todo EXCEPT ![t] = Len(readyQ[t])]
    /\ UNCHANGED <<threadVars, readyQ, stopping, jobVars, idle, calls, order>>

\* After a batch, a loop that was stopped leaves run_forever and is closed.
Close(t) ==
    /\ tpc[t] = "running" /\ todo[t] = 0 /\ stopping[t] = "set"
    /\ tpc' = [tpc EXCEPT ![t] = "closed"]
    /\ readyQ' = [readyQ EXCEPT ![t] = <<>>]
    /\ UNCHANGED <<main, thread, loop, ready, born, todo, stopping, jobVars, idle, calls, order>>

\* What every handle of a batch has in common: it is popped.
Pops(t, h) ==
    /\ tpc[t] = "running" /\ todo[t] > 0
    /\ readyQ[t] # <<>> /\ Head(readyQ[t]) = h
    /\ todo' = [todo EXCEPT ![t] = @ - 1]

RunStop(t) ==
    /\ Pops(t, StopHandle)
    /\ readyQ' = [readyQ EXCEPT ![t] = Tail(@)]
    /\ stopping' = [stopping EXCEPT ![t] = "set"]
    /\ UNCHANGED <<threadVars, jobVars, idle, calls, order>>

\* The task is created; its first step goes to the end of the FIFO.
RunCreate(t, j) ==
    /\ Pops(t, Handle(j, "create"))
    /\ readyQ' = [readyQ EXCEPT ![t] = Append(Tail(@), Handle(j, "step"))]
    /\ phase' = [phase EXCEPT ![j] = "stepping"]
    /\ UNCHANGED <<threadVars, stopping, home, outcome, awaits, idle, calls, order>>

\* Mutant: the done-callback is attached to the first suspension.
RunStepSuspendsPosting(t, j) ==
    /\ Pops(t, Handle(j, "step"))
    /\ awaits[j] < MaxAwaits
    /\ awaits' = [awaits EXCEPT ![j] = @ + 1]
    /\ readyQ' = [readyQ EXCEPT ![t] = Tail(@)]
    /\ idle' = Append(idle, j)
    /\ phase' = [phase EXCEPT ![j] = "posted"]
    /\ UNCHANGED <<threadVars, stopping, home, outcome, calls, order>>

\* A segment of the coroutine ends at an await that suspends it ...
RunStepSuspends(t, j) ==
    /\ Pops(t, Handle(j, "step"))
    /\ awaits[j] < MaxAwaits
    /\ awaits' = [awaits EXCEPT ![j] = @ + 1]
    /\ readyQ' = [readyQ EXCEPT ![t] = Tail(@)]
    /\ phase' = [phase EXCEPT ![j] = "waiting"]
    /\ UNCHANGED <<threadVars, stopping, home, outcome, idle, calls, order>>

\* ... or ends the coroutine, which schedules the future's settlement.
RunStepEnds(t, j) ==
    /\ Pops(t, Handle(j, "step"))
    /\ \E o \in Outcome : outcome' = [outcome EXCEPT ![j] = o]
    /\ readyQ' = [readyQ EXCEPT ![t] = Append(Tail(@), Handle(j, "settle"))]
    /\ phase' = [phase EXCEPT ![j] = "settling"]
    /\ UNCHANGED <<threadVars, stopping, home, awaits, idle, calls, order>>

\* Mutant: idle sources are added at a higher priority than older ones.
RunSettleFirst(t, j) ==
    /\ Pops(t, Handle(j, "settle"))
    /\ readyQ' = [readyQ EXCEPT ![t] = Tail(@)]
    /\ idle' = <<j>> \o idle
    /\ phase' = [phase EXCEPT ![j] = "posted"]
    /\ UNCHANGED <<threadVars, stopping, home, outcome, awaits, calls, order>>

\* Mutant: the callback of a failed coroutine is not posted.
RunSettleOnlySuccess(t, j) ==
    /\ Pops(t, Handle(j, "settle"))
    /\ readyQ' = [readyQ EXCEPT ![t] = Tail(@)]
    /\ idle' = IF outcome[j] = "ok" THEN Append(idle, j) ELSE idle
    /\ phase' = [phase EXCEPT ![j] = "posted"]
    /\ UNCHANGED <<threadVars, stopping, home, outcome, awaits, calls, order>>

\* _dispatch on the loop thread: GLib.idle_add(_deliver).
RunSettle(t, j) ==
    /\ Pops(t, Handle(j, "settle"))
    /\ readyQ' = [readyQ EXCEPT ![t] = Tail(@)]
    /\ idle' = Append(idle, j)
    /\ phase' = [phase EXCEPT ![j] = "posted"]
    /\ UNCHANGED <<threadVars, stopping, home, outcome, awaits, calls, order>>

\* The I/O a suspended coroutine awaits completes: its next step is queued,
\* unless its loop is closed (call_soon raises there and the job is lost).
Resume(j) ==
    /\ phase[j] = "waiting" /\ tpc[home[j]] = "running"
    /\ Enqueue(home[j], Handle(j, "step"))
    /\ phase' = [phase EXCEPT ![j] = "stepping"]
    /\ UNCHANGED <<threadVars, todo, stopping, home, outcome, awaits, idle, calls, order>>

-----------------------------------------------------------------------------
RunHandle(t) ==
    \/ RunStop(t)
    \/ \E j \in Job : \/ RunCreate(t, j) \/ RunStepSuspends(t, j)
                      \/ RunStepEnds(t, j) \/ RunSettle(t, j)

LoopThread(t) ==
    SetLoop(t) \/ SetReady(t) \/ TakeBatch(t) \/ Close(t) \/ RunHandle(t)

MainThread ==
    \/ Start \/ StartReturns \/ StartTimesOut \/ Stop \/ JoinReturns \/ Deliver
    \/ \E j \in Job : Submit(j)

Next == MainThread \/ (\E t \in Thread : LoopThread(t)) \/ (\E j \in Job : Resume(j))

Spec == Init /\ [][Next]_vars

\* The loop threads and the GTK main loop keep running and awaited I/O
\* completes; whether start(), stop() and submit() are called, and whether
\* a wait times out, is nobody's obligation.
Fairness ==
    /\ \A t \in Thread : WF_vars(LoopThread(t))
    /\ \A j \in Job : WF_vars(Resume(j))
    /\ WF_vars(Deliver) /\ WF_vars(StartReturns) /\ WF_vars(JoinReturns)

FairSpec == Spec /\ Fairness

-----------------------------------------------------------------------------
(* What the scheduler must guarantee.                                      *)

TypeOK ==
    /\ main \in {"idle", "starting", "joining"}
    /\ thread \in 0 .. MaxStarts /\ loop \in 0 .. MaxStarts
    /\ ready \in BOOLEAN /\ born \in 0 .. MaxStarts
    /\ tpc \in [Thread -> {"none", "new", "set", "running", "closed"}]
    /\ readyQ \in [Thread -> Seq(JobHandle \cup {StopHandle})]
    /\ todo \in [Thread -> Nat]
    /\ stopping \in [Thread -> {"no", "queued", "set"}]
    /\ phase \in [Job -> Phase]
    /\ home \in [Job -> 0 .. MaxStarts]
    /\ outcome \in [Job -> Outcome \cup {"none"}]
    /\ awaits \in [Job -> 0 .. MaxAwaits]
    /\ idle \in Seq(Job)
    /\ calls \in [Job -> Nat]
    /\ order \in Seq(Job)

\* core/ports.py, Scheduler: "receive exactly one callback".  Whatever the
\* order of submissions, batches, stops and restarts, no job is answered
\* twice.
AtMostOnce == \A j \in Job : calls[j] =< 1

\* While the main thread may call submit(), self._loop is a loop that will
\* run what is put on it: one that is not closed and was not asked to stop,
\* even after a start() or a join() timed out and left a thread behind.
LoopAcceptsJobs ==
    main = "idle" /\ loop # 0 =>
        tpc[loop] \in {"set", "running"} /\ stopping[loop] = "no"

\* Two jobs of one loop that never suspend are answered in the order they
\* were submitted; the view-models rely on it when several reads of one
\* page are in flight and the last result wins.
AnsweredInOrder ==
    \A i, k \in 1 .. Len(order) :
        /\ i < k /\ home[order[i]] = home[order[k]]
        /\ awaits[order[i]] = 0 /\ awaits[order[k]] = 0
        /\ phase[order[k]] = "called"
        => phase[order[i]] = "called"

\* Every accepted job is answered unless its loop is asked to stop.
EveryJobAnswered ==
    \A j \in Job :
        phase[j] = "creating"
            ~> phase[j] = "called" \/ (home[j] # 0 /\ stopping[home[j]] # "no")

\* The scheduler implements the port the view-models are written against.
StatusOf(j) ==
    CASE phase[j] = "unused"  -> "unused"
      [] phase[j] = "refused" -> "refused"
      [] phase[j] = "called"  -> "answered"
      [] OTHER                -> "accepted"

Port == INSTANCE SchedulerPort WITH status <- [j \in Job |-> StatusOf(j)]

ImplementsPort == Port!Spec
=============================================================================
