----------------------------- MODULE FirmwarePage -----------------------------
(***************************************************************************)
(* The firmware page: FirmwareViewModel, the FwupdGir provider it calls,   *)
(* the scheduler that runs the provider's coroutines, and the fwupd daemon *)
(* with its D-Bus signals.                                                 *)
(*                                                                         *)
(* The device list is abstracted to one firmware device whose condition    *)
(* (plugged in or not, releases offered, reboot pending) changes on its    *)
(* own or because of an install.  A page "shows" conditions by their       *)
(* number in the daemon's history, so that a stale page is visible.        *)
(*                                                                         *)
(* Threaded says which scheduler runs: TRUE for ThreadLoopScheduler, whose *)
(* loop runs beside the main thread, FALSE for GLibEventLoopScheduler,     *)
(* where coroutine segments and main-thread callbacks exclude each other.  *)
(***************************************************************************)
EXTENDS Naturals, Sequences

CONSTANTS
    Threaded,       \* which scheduler create_scheduler() picked
    Release,        \* firmware release versions
    Conditions,     \* conditions the device can be in
    MaxJobs,        \* bound: jobs in flight at one time
    MaxChanges,     \* bound: changes of the device's condition
    MaxSignals      \* bound: D-Bus signals not yet dispatched

ASSUME ThreadedAssumption == Threaded \in BOOLEAN
ASSUME BoundAssumption ==
    /\ MaxJobs \in Nat \ {0} /\ MaxChanges \in Nat /\ MaxSignals \in Nat
ASSUME ConditionsAssumption ==
    /\ Conditions # {}
    /\ Conditions \subseteq
         [present : BOOLEAN, offered : SUBSET Release, reboot : BOOLEAN]
    /\ \A c \in Conditions : ~c.present => c.offered = {} /\ ~c.reboot

VARIABLES
    world,          \* fwupd: the conditions the device went through, last is now
    signals,        \* fwupd's signals queued on the main context
    subscribed,     \* FwupdGir.subscribe() succeeded
    onProgress,     \* FwupdGir._on_progress is not None
    typeError,      \* a None _on_progress was called
    jobs,           \* the scheduler's jobs, one record per slot
    loopQ,          \* jobs ready to run on the asyncio loop, FIFO
    doneQ,          \* jobs whose callback waits on the main context, FIFO
    main,           \* where the main thread is
    state,          \* PageViewModel.state
    shown,          \* the cards: history numbers of the two reads behind them
    rebootBanner,   \* reboot_banner is not empty
    flow,           \* flow_banner: "none" (empty), "battery" or "failed"
    busy,           \* busy_text: "none" (empty), "refresh" or "install"
    installing,     \* _installing
    reloadPending,  \* _reload_pending
    timers,         \* _reload timeouts armed with GLib.timeout_add
    missed          \* history: a change signal was lost and no reload promised

daemonVars == <<world, signals>>
provVars == <<subscribed, onProgress, typeError>>
schedVars == <<jobs, loopQ, doneQ>>
pageVars == <<state, shown, rebootBanner>>
flowVars == <<flow, busy, installing>>
timerVars == <<reloadPending, timers>>
vars == <<world, signals, subscribed, onProgress, typeError, jobs, loopQ, doneQ,
          main, state, shown, rebootBanner, flow, busy, installing,
          reloadPending, timers, missed>>

-----------------------------------------------------------------------------
(* Jobs.  "listed" is a gather between list_devices and list_upgrades;     *)
(* "flashing" an install whose install_release runs on its worker thread;  *)
(* "resumed" an install whose worker is done; "done" waits for delivery.   *)

Job == 1 .. MaxJobs
Now == Len(world)
NoRelease == "no release"
Kind == {"gather", "refresh", "install"}
JobPhase == {"free", "queued", "listed", "flashing", "resumed", "done"}
Out == {"none", "ok", "unreachable", "parse", "gone", "failed", "denied"}
FreeJob == [phase |-> "free", kind |-> "gather", release |-> NoRelease,
            dev |-> 0, rel |-> 0, out |-> "none"]
NewJob(k, r) == [phase |-> "queued", kind |-> k, release |-> r,
                 dev |-> 0, rel |-> 0, out |-> "none"]

\* Job j moves to phase p, with an outcome and the reads behind its result.
Moves(j, p, o, dev, rel) ==
    jobs' = [jobs EXCEPT ![j] = [phase |-> p, kind |-> jobs[j].kind,
                                 release |-> jobs[j].release,
                                 dev |-> dev, rel |-> rel, out |-> o]]

\* Scheduler.submit from a handler that is not itself a job's callback.
Submit(k, r) ==
    \E j \in Job :
        /\ jobs[j].phase = "free" /\ \A i \in 1 .. j - 1 : jobs[i].phase # "free"
        /\ jobs' = [jobs EXCEPT ![j] = NewJob(k, r)]
        /\ loopQ' = Append(loopQ, j)
        /\ UNCHANGED doneQ

\* The native loop and the main thread are one thread: a segment of a
\* coroutine starts only when the main thread is between two sources, and
\* while a gather is between its two blocking reads nothing else runs.
LoopBusy == \E j \in Job : jobs[j].phase = "listed"
LoopMayRun == ~LoopBusy /\ (Threaded \/ main = "idle")
MainMayRun == Threaded \/ ~LoopBusy
MainIdle == main = "idle" /\ MainMayRun

Init ==
    /\ \E c \in Conditions : world = <<c>>
    /\ signals = <<>> /\ subscribed = FALSE
    /\ onProgress = FALSE /\ typeError = FALSE
    /\ jobs = [j \in Job |-> FreeJob] /\ loopQ = <<>> /\ doneQ = <<>>
    /\ main = "new" /\ state = "loading" /\ shown = [dev |-> 0, rel |-> 0]
    /\ rebootBanner = FALSE /\ flow = "none" /\ busy = "none"
    /\ installing = FALSE /\ reloadPending = FALSE /\ timers = 0
    /\ missed = FALSE

-----------------------------------------------------------------------------
(* The fwupd daemon (external).                                            *)

\* A signal reaches the main context only once subscribe() asked for it.
Emit(s) ==
    IF subscribed
      THEN Len(signals) < MaxSignals /\ signals' = Append(signals, s)
      ELSE UNCHANGED signals

\* The condition becomes c; DeviceChanged, DeviceAdded or DeviceRemoved.
Becomes(c) ==
    /\ Now < MaxChanges + 1
    /\ world' = Append(world, c)
    /\ Emit("changed")
    /\ missed' = (missed \/ ~subscribed)

\* Hardware is plugged or unplugged, or another client updates it.
DaemonChange ==
    /\ \E c \in Conditions : Becomes(c)
    /\ UNCHANGED <<provVars, schedVars, main, pageVars, flowVars, timerVars>>

\* fwupd announces a change more than once ("a storm of DeviceChanged").
DaemonStorm ==
    /\ subscribed /\ Emit("changed")
    /\ UNCHANGED <<world, provVars, schedVars, main, pageVars, flowVars, timerVars, missed>>

Flashing(j) == jobs[j].kind = "install" /\ jobs[j].phase = "flashing"

\* Percentage and Status change while an install runs.
DaemonProgress ==
    /\ subscribed /\ \E j \in Job : Flashing(j)
    /\ Emit("progress")
    /\ UNCHANGED <<world, provVars, schedVars, main, pageVars, flowVars, timerVars, missed>>

\* install_release ends on its worker thread; the loop will resume install().
WorkerEnds(j) ==
    /\ Flashing(j)
    /\ \/ /\ \E c \in Conditions :
               /\ c.present /\ jobs[j].release \notin c.offered
               /\ Becomes(c)
          /\ Moves(j, "resumed", "ok", 0, 0)
       \/ /\ \E o \in {"failed", "denied"} : Moves(j, "resumed", o, 0, 0)
          /\ UNCHANGED <<world, signals, missed>>
    /\ loopQ' = Append(loopQ, j)
    /\ UNCHANGED <<provVars, doneQ, main, pageVars, flowVars, timerVars>>

-----------------------------------------------------------------------------
(* Coroutines on the asyncio loop.                                         *)

\* Job j is next on the loop.
Runs(j, k, p) ==
    /\ LoopMayRun /\ loopQ # <<>> /\ Head(loopQ) = j
    /\ jobs[j].kind = k /\ jobs[j].phase = p
    /\ loopQ' = Tail(loopQ)

\* Mutant: callbacks are posted ahead of those that wait.
EndsFirst(j, o, dev, rel) ==
    /\ Moves(j, "done", o, dev, rel)
    /\ doneQ' = <<j>> \o doneQ

\* The coroutine of j ends and its callback is posted to the main context.
Ends(j, o, dev, rel) ==
    /\ Moves(j, "done", o, dev, rel)
    /\ doneQ' = Append(doneQ, j)

\* _gather, first read: list_devices fails, is empty, or has the device.
GatherDevices(j) ==
    /\ Runs(j, "gather", "queued")
    /\ \/ /\ \E o \in {"unreachable", "parse"} : Ends(j, o, 0, 0)
          /\ UNCHANGED missed
       \/ /\ ~world[Now].present
          /\ Ends(j, "ok", Now, Now)
          /\ missed' = FALSE
       \/ /\ world[Now].present
          /\ Moves(j, "listed", "none", Now, 0)
          /\ missed' = FALSE
          /\ UNCHANGED doneQ
    /\ UNCHANGED <<daemonVars, provVars, main, pageVars, flowVars, timerVars>>

\* _gather, second read: list_upgrades, or a note on the card if it fails.
GatherUpgrades(j) ==
    /\ jobs[j].phase = "listed"
    /\ \E rel \in {Now, 0} : Ends(j, "ok", jobs[j].dev, rel)
    /\ UNCHANGED <<daemonVars, provVars, loopQ, main, pageVars, flowVars, timerVars, missed>>

\* FwupdGir.refresh_metadata: every remote failed, or at least one did not.
RefreshRemotes(j) ==
    /\ Runs(j, "refresh", "queued")
    /\ \E o \in {"ok", "unreachable"} : Ends(j, o, 0, 0)
    /\ UNCHANGED <<daemonVars, provVars, main, pageVars, flowVars, timerVars, missed>>

\* FwupdGir.install up to its await: any GLib.Error of the two lookups is
\* ProviderUnavailable ("gone": the device is not there or has nothing to
\* offer), a release that is not among the upgrades is a failed install.
InstallResolves(j) ==
    /\ Runs(j, "install", "queued")
    /\ \/ Ends(j, "unreachable", 0, 0) /\ UNCHANGED onProgress
       \/ /\ world[Now].offered = {}
          /\ Ends(j, "gone", 0, 0) /\ UNCHANGED onProgress
       \/ /\ world[Now].offered # {} /\ jobs[j].release \notin world[Now].offered
          /\ Ends(j, "failed", 0, 0) /\ UNCHANGED onProgress
       \/ /\ jobs[j].release \in world[Now].offered
          /\ Moves(j, "flashing", "none", 0, 0)
          /\ onProgress' = TRUE
          /\ UNCHANGED doneQ
    /\ UNCHANGED <<daemonVars, subscribed, typeError, main, pageVars, flowVars, timerVars, missed>>

\* Mutant: _on_progress is cleared on success only, not in a finally.
InstallReturnsNoFinally(j) ==
    /\ Runs(j, "install", "resumed")
    /\ onProgress' = (jobs[j].out # "ok")
    /\ Ends(j, jobs[j].out, 0, 0)
    /\ UNCHANGED <<daemonVars, subscribed, typeError, main, pageVars, flowVars, timerVars, missed>>

\* FwupdGir.install after its await: the finally clause, then the outcome.
InstallReturns(j) ==
    /\ Runs(j, "install", "resumed")
    /\ onProgress' = FALSE
    /\ Ends(j, jobs[j].out, 0, 0)
    /\ UNCHANGED <<daemonVars, subscribed, typeError, main, pageVars, flowVars, timerVars, missed>>

-----------------------------------------------------------------------------
(* The view and the view-model, on the main thread.                        *)

\* FirmwareView.__init__: load() ...
Load ==
    /\ main = "new" /\ MainMayRun
    /\ main' = "loaded" /\ state' = "loading"
    /\ Submit("gather", NoRelease)
    /\ UNCHANGED <<daemonVars, provVars, shown, rebootBanner, flowVars, timerVars, missed>>

\* ... then start_live_updates(), which tolerates a missing bus.
StartLiveUpdates ==
    /\ main = "loaded" /\ MainMayRun
    /\ main' = "idle" /\ subscribed' \in BOOLEAN
    /\ UNCHANGED <<daemonVars, onProgress, typeError, schedVars, pageVars,
                   flowVars, timerVars, missed>>

Takes(s) ==
    /\ MainIdle /\ signals # <<>> /\ Head(signals) = s
    /\ signals' = Tail(signals)

\* Mutant: no debounce.
OnChangedEachTime ==
    /\ Takes("changed")
    /\ IF installing
         THEN /\ UNCHANGED timerVars
              /\ missed' = TRUE
         ELSE /\ reloadPending' = TRUE /\ timers' = timers + 1
              /\ UNCHANGED missed
    /\ UNCHANGED <<world, provVars, schedVars, main, pageVars, flowVars>>

\* _on_changed: ignored while a reload is armed or an install runs.
OnChanged ==
    /\ Takes("changed")
    /\ IF reloadPending \/ installing
         THEN /\ UNCHANGED timerVars
              /\ missed' = (missed \/ ~reloadPending)
         ELSE /\ reloadPending' = TRUE /\ timers' = timers + 1
              /\ UNCHANGED missed
    /\ UNCHANGED <<world, provVars, schedVars, main, pageVars, flowVars>>

\* Mutant: _reload forgets to clear _reload_pending.
ReloadTimeoutStaysPending ==
    /\ MainIdle /\ timers > 0
    /\ timers' = timers - 1
    /\ IF installing
         THEN missed' = TRUE /\ UNCHANGED schedVars
         ELSE Submit("gather", NoRelease) /\ UNCHANGED missed
    /\ UNCHANGED <<daemonVars, provVars, main, pageVars, flowVars, reloadPending>>

\* The debounce timeout fires: _reload.
ReloadTimeout ==
    /\ MainIdle /\ timers > 0
    /\ timers' = timers - 1 /\ reloadPending' = FALSE
    /\ IF installing
         THEN missed' = TRUE /\ UNCHANGED schedVars
         ELSE Submit("gather", NoRelease) /\ UNCHANGED missed
    /\ UNCHANGED <<daemonVars, provVars, main, pageVars, flowVars>>

\* Mutant: the listener does not look whether an install wants progress.
ProgressUnchecked ==
    /\ Takes("progress")
    /\ main' = "progress"
    /\ UNCHANGED <<world, provVars, schedVars, pageVars, flowVars, timerVars, missed>>

\* _properties_changed reads self._on_progress ...
ProgressCheck ==
    /\ Takes("progress")
    /\ main' = IF onProgress THEN "progress" ELSE "idle"
    /\ UNCHANGED <<world, provVars, schedVars, pageVars, flowVars, timerVars, missed>>

\* ... and later calls it: TypeError on None, else _on_progress.
ProgressCall ==
    /\ main = "progress"
    /\ main' = "idle"
    /\ typeError' = (typeError \/ ~onProgress)
    /\ busy' = IF onProgress /\ installing THEN "install" ELSE busy
    /\ UNCHANGED <<daemonVars, subscribed, onProgress, schedVars, pageVars,
                   flow, installing, timerVars, missed>>

\* refresh_metadata: the button is on the ready page.
RefreshMetadata ==
    /\ MainIdle /\ state = "ready" /\ busy = "none"
    /\ busy' = "refresh"
    /\ Submit("refresh", NoRelease)
    /\ UNCHANGED <<daemonVars, provVars, main, pageVars, flow, installing, timerVars, missed>>

\* The releases with an Install button: those of the cards, none when the
\* upgrade query of the device failed.
Offered == IF shown.rel = 0 THEN {} ELSE world[shown.rel].offered

\* battery_precondition: the charge against fwupd's threshold, where both can
\* be read (101, no threshold and a failed call are "unknown").
Charge == {"unknown", "below", "enough"}

\* battery_ok_for_update: what cannot be read does not block.
BatteryOk(charge) == charge # "below"

\* Mutant: request_install does not look at busy_text.
RequestInstallWhileBusy(r) ==
    /\ MainIdle /\ state = "ready"
    /\ r \in Offered
    /\ \E charge \in Charge :
         \/ /\ ~BatteryOk(charge) /\ flow' = "battery"
            /\ UNCHANGED <<busy, installing, schedVars>>
         \/ /\ BatteryOk(charge) /\ flow' = "none"
            /\ installing' = TRUE /\ busy' = "install" /\ Submit("install", r)
    /\ UNCHANGED <<daemonVars, provVars, main, pageVars, timerVars, missed>>

\* request_install: battery precondition, then the install job.
RequestInstall(r) ==
    /\ MainIdle /\ state = "ready" /\ busy = "none"
    /\ r \in Offered
    /\ \E charge \in Charge :
         \/ /\ ~BatteryOk(charge) /\ flow' = "battery"
            /\ UNCHANGED <<busy, installing, schedVars>>
         \/ /\ BatteryOk(charge) /\ flow' = "none"
            /\ installing' = TRUE /\ busy' = "install" /\ Submit("install", r)
    /\ UNCHANGED <<daemonVars, provVars, main, pageVars, timerVars, missed>>

-----------------------------------------------------------------------------
(* Callbacks: the next finished job of kind k leaves the scheduler.        *)

Delivers(j, k, outs) ==
    /\ MainIdle /\ doneQ # <<>> /\ Head(doneQ) = j
    /\ jobs[j].kind = k /\ jobs[j].out \in outs
    /\ doneQ' = Tail(doneQ)

Drop(j) == jobs' = [jobs EXCEPT ![j] = FreeJob] /\ UNCHANGED loopQ

\* The callback submits a new gather, which takes the slot it left.
Regather(j) ==
    /\ jobs' = [jobs EXCEPT ![j] = NewJob("gather", NoRelease)]
    /\ loopQ' = Append(loopQ, j)

\* Mutant: the exception's name becomes the page state.
ErrorStateByName(o) == o

\* handle_error: ProviderUnavailable or anything else.
ErrorState(o) == IF o \in {"unreachable", "gone"} THEN "unavailable" ELSE "error"

\* _apply with no device: only the page state changes.
ApplyEmpty(j) ==
    /\ Delivers(j, "gather", {"ok"})
    /\ ~world[jobs[j].dev].present
    /\ state' = "unavailable"
    /\ Drop(j)
    /\ UNCHANGED <<daemonVars, provVars, main, shown, rebootBanner, flowVars, timerVars, missed>>

\* _apply: cards and the reboot banner come from this gather.
Apply(j) ==
    /\ Delivers(j, "gather", {"ok"})
    /\ world[jobs[j].dev].present
    /\ shown' = [dev |-> jobs[j].dev, rel |-> jobs[j].rel]
    /\ rebootBanner' = world[jobs[j].dev].reboot
    /\ state' = "ready"
    /\ Drop(j)
    /\ UNCHANGED <<daemonVars, provVars, main, flowVars, timerVars, missed>>

\* _load_failed.
LoadFailed(j) ==
    /\ Delivers(j, "gather", {"unreachable", "parse"})
    /\ state' = ErrorState(jobs[j].out)
    /\ Drop(j)
    /\ UNCHANGED <<daemonVars, provVars, main, shown, rebootBanner, flowVars, timerVars, missed>>

\* _refresh_done: toast, then a gather.
RefreshDone(j) ==
    /\ Delivers(j, "refresh", {"ok"})
    /\ busy' = "none"
    /\ Regather(j)
    /\ UNCHANGED <<daemonVars, provVars, main, pageVars, flow, installing, timerVars, missed>>

\* Mutant: a failed refresh leaves its busy text.
RefreshFailedStaysBusy(j) ==
    /\ Delivers(j, "refresh", {"unreachable"})
    /\ Drop(j)
    /\ UNCHANGED <<daemonVars, provVars, main, pageVars, flowVars, timerVars, missed>>

\* _refresh_failed: a toast only.
RefreshFailed(j) ==
    /\ Delivers(j, "refresh", {"unreachable"})
    /\ busy' = "none"
    /\ Drop(j)
    /\ UNCHANGED <<daemonVars, provVars, main, pageVars, flow, installing, timerVars, missed>>

\* Mutant: the post-install reload is forgotten.
InstallDoneNoReload(j) ==
    /\ Delivers(j, "install", {"ok"})
    /\ installing' = FALSE /\ busy' = "none" /\ missed' = FALSE
    /\ Drop(j)
    /\ UNCHANGED <<daemonVars, provVars, main, pageVars, flow, timerVars>>

\* _install_done: result text, then a gather.
InstallDone(j) ==
    /\ Delivers(j, "install", {"ok"})
    /\ installing' = FALSE /\ busy' = "none" /\ missed' = FALSE
    /\ Regather(j)
    /\ UNCHANGED <<daemonVars, provVars, main, pageVars, flow, timerVars>>

\* _install_failed on PrivilegedActionDenied: a toast only.
InstallDeclined(j) ==
    /\ Delivers(j, "install", {"denied"})
    /\ installing' = FALSE /\ busy' = "none"
    /\ Drop(j)
    /\ UNCHANGED <<daemonVars, provVars, main, pageVars, flow, timerVars, missed>>

\* _install_failed on FirmwareInstallFailed: banner and a gather.
InstallFailed(j) ==
    /\ Delivers(j, "install", {"failed"})
    /\ installing' = FALSE /\ busy' = "none" /\ flow' = "failed" /\ missed' = FALSE
    /\ Regather(j)
    /\ UNCHANGED <<daemonVars, provVars, main, pageVars, timerVars>>

\* _install_failed on anything else: handle_error, and no gather.
InstallErrors(j) ==
    /\ Delivers(j, "install", {"unreachable", "gone"})
    /\ installing' = FALSE /\ busy' = "none"
    /\ state' = ErrorState(jobs[j].out)
    /\ Drop(j)
    /\ UNCHANGED <<daemonVars, provVars, main, shown, rebootBanner, flow, timerVars, missed>>

-----------------------------------------------------------------------------
Daemon == DaemonChange \/ DaemonStorm \/ DaemonProgress

LoopRuns == \E j \in Job :
    \/ GatherDevices(j) \/ GatherUpgrades(j) \/ RefreshRemotes(j)
    \/ InstallResolves(j) \/ InstallReturns(j)

Callback == \E j \in Job :
    \/ ApplyEmpty(j) \/ Apply(j) \/ LoadFailed(j)
    \/ RefreshDone(j) \/ RefreshFailed(j)
    \/ InstallDone(j) \/ InstallDeclined(j) \/ InstallFailed(j) \/ InstallErrors(j)

Signals == OnChanged \/ ProgressCheck \/ ProgressCall

User == RefreshMetadata \/ \E r \in Release : RequestInstall(r)

Next ==
    \/ Daemon \/ (\E j \in Job : WorkerEnds(j)) \/ LoopRuns
    \/ Load \/ StartLiveUpdates \/ ReloadTimeout \/ Signals \/ User \/ Callback

Spec == Init /\ [][Next]_vars

\* Both loops run, armed timeouts fire and fwupd answers an install; the
\* hardware, the user and the progress signals owe nothing.
Fairness ==
    /\ WF_vars(Load) /\ WF_vars(StartLiveUpdates)
    /\ WF_vars(LoopRuns) /\ WF_vars(\E j \in Job : WorkerEnds(j))
    /\ SF_vars(Callback) /\ SF_vars(ReloadTimeout) /\ SF_vars(OnChanged)
    /\ SF_vars(ProgressCheck) /\ WF_vars(ProgressCall)

FairSpec == Spec /\ Fairness

-----------------------------------------------------------------------------
TypeOK ==
    /\ world \in Seq(Conditions) /\ Len(world) > 0
    /\ signals \in Seq({"changed", "progress"})
    /\ subscribed \in BOOLEAN /\ onProgress \in BOOLEAN /\ typeError \in BOOLEAN
    /\ jobs \in [Job -> [phase : JobPhase, kind : Kind,
                         release : Release \cup {NoRelease},
                         dev : 0 .. Len(world), rel : 0 .. Len(world), out : Out]]
    /\ loopQ \in Seq(Job) /\ doneQ \in Seq(Job)
    /\ main \in {"new", "loaded", "idle", "progress"}
    /\ state \in {"loading", "ready", "unavailable", "error"}
    /\ shown \in [dev : 0 .. Len(world), rel : 0 .. Len(world)]
    /\ rebootBanner \in BOOLEAN /\ flow \in {"none", "battery", "failed"}
    /\ busy \in {"none", "refresh", "install"} /\ installing \in BOOLEAN
    /\ reloadPending \in BOOLEAN /\ timers \in Nat /\ missed \in BOOLEAN

Active(k) == {j \in Job : jobs[j].kind = k /\ jobs[j].phase # "free"}

\* busy_text and _installing tell the truth: at most one refresh or install
\* is in flight, busy_text names it, and it is cleared with it.  A progress
\* signal dispatched late must not bring it back.
OneOperation ==
    /\ \A i, j \in Active("refresh") \cup Active("install") : i = j
    /\ busy = "refresh" <=> Active("refresh") # {}
    /\ busy = "install" <=> Active("install") # {}
    /\ installing <=> Active("install") # {}

\* FwupdGir._on_progress points at the callback exactly while an install
\* that owns it is between its await and its finally clause; an earlier
\* install never clears the callback of a later one.
ProgressHasOwner ==
    onProgress <=> \E j \in Active("install") : jobs[j].phase \in {"flashing", "resumed"}

\* _properties_changed never calls a callback that install() has cleared.
ProgressNeverNone == ~typeError

\* At most one debounce timeout is armed, and it is the pending reload.
OneTimer == timers = IF reloadPending THEN 1 ELSE 0

\* Nothing is under way.
Quiet ==
    /\ main = "idle" /\ signals = <<>> /\ ~reloadPending
    /\ \A j \in Job : jobs[j].phase = "free"

\* The ready page shows the device as fwupd has it.
Fresh ==
    /\ shown.dev = Now /\ shown.rel \in {Now, 0}
    /\ rebootBanner = world[Now].reboot

\* _on_changed: "the post-install reload covers those, so skip reloads while
\* one is running": once nothing is under way, a live ready page is fresh.
FreshWhenQuiet == Quiet /\ subscribed /\ state = "ready" => Fresh

\* The same, but for the changes whose signal came before the subscription
\* or while an install ran that ended without the promised reload.
FreshUnlessMissed == Quiet /\ subscribed /\ state = "ready" /\ ~missed => Fresh

\* Several gathers may be in flight; the page never goes back to an older
\* state of the device.
NeverOlder == [][shown'.dev >= shown.dev]_vars

\* A page is turned over to "unavailable" by an install only when fwupd
\* could not be reached: "absence of hardware is NOT this — that's data".
InstallKeepsPage ==
    [][\A j \in Job : InstallErrors(j) => jobs[j].out = "unreachable"]_vars

\* Every operation ends: the page is not left inert by its busy banner.
BusyEnds == busy # "none" ~> busy = "none"

\* A change of the device is eventually shown, unless its signal was missed
\* or a failed read took the page away.
ChangeShown ==
    \A n \in 2 .. MaxChanges + 1 :
        Now = n /\ subscribed
            ~> shown.dev >= n \/ missed \/ state \in {"unavailable", "error"}
=============================================================================
