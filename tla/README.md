# Lapcare in TLA+

A verification development of Lapcare, a GTK desktop application that shows the
health of a laptop: TLA+ modules that model its components, TLC configurations
that check them on small instances, and theorems about them with proofs that
TLAPS checks. Paths below are relative to `src/lapcare/` of the repository
unless they say otherwise.

    tlc -config <X>.cfg <Module>      model-check one run of the table in section 4
    tlapm <Module>Proofs.tla          check the proofs of section 6

## 1. The system

Lapcare is one process with a GTK main thread. A page is a *view* (GTK), a
*view-model* that holds its state and never blocks, and the *providers* it
calls. A view-model hands a provider's coroutine to the *scheduler* and gets
one callback, on the main thread. With PyGObject 3.50 and later the coroutines
run on the GLib main loop itself; before that, on a background thread with a
loop of its own. Reading SMART data is the one operation that leaves the
process: `pkexec` starts a root helper, which starts `smartctl`.

### Components

| Component | State | Operations | Talks to |
|---|---|---|---|
| **Scheduler** `platform/scheduler.py` (port in `core/ports.py`) | the loop, its thread, the ready event, the process's asyncio policy; queued handles and idle sources | `start`, `stop`, `submit`, the loop thread's `_run`, `_dispatch`/`_deliver` or `_done` | called by every view-model on the main thread; calls them back there |
| **Firmware page** `ui/pages/firmware/` | page state, device cards, reboot banner, flow banner, `busy_text`, `_installing`, `_reload_pending` | `load`, `start_live_updates`, `_on_changed`, `_reload`, `refresh_metadata`, `request_install`, `_on_progress`, six callbacks | scheduler, fwupd provider, `GLib.timeout_add` |
| **fwupd provider** `providers/fwupd.py` | the D-Bus subscription, `_on_progress` | `list_devices`, `list_upgrades`, `refresh_metadata`, `install` (its libfwupd call on a worker thread), `subscribe`, the listener of property changes | fwupd over D-Bus; the page through two callbacks |
| **Tool runner** `platform/subprocess.py` | one child process and its timer per call | `run_tool`: start, wait, kill at the timeout, size cap, exit status | providers; the operating system |
| **SMART provider** `providers/storage_smart.py` | none | `list_devices`, `read_smart`, error translation, report parsing | runner, `/sys/block` |
| **Privileged helper** `src/helper/lapcare_helper.py` | none between calls | `smart-report`: device match, node check, smartctl, checks of its output | started by pkexec as root; starts smartctl |
| **Storage page** `ui/pages/storage/` | cards with health rows, note and summary; `busy_text`, toast | `load`, `read_health`, their callbacks | scheduler, SMART provider |
| **Diagnostics engine** `core/diagnostics.py`, `core/battery_analysis.py` | locals of one run | `run`: five sources in turn, five checks, the score | five providers; called by the diagnostics page and the dashboard |
| **Diagnostics page** `ui/pages/diagnostics/` | cards, score and coverage texts, `_last_report`, `busy_text`, the file dialog | `run`, `export`, their callbacks | scheduler, engine, report rendering and writer |
| **Report rendering and writer** `core/report.py`, `report_render.py`, `platform/report.py` | a temporary file | three formats; `write`: mkstemp, write, rename, chmod | the file system |
| **Battery page** `ui/pages/battery/`, `providers/upower.py`, `providers/battery_sysfs.py` | cards, `_reload_pending`, subscription | `load`, `_gather` (merges two providers, records history), live updates | scheduler, UPower signals, wear history |
| **Wear history** `platform/history.py` | an SQLite table, one row per day and battery | `record_wear`, `wear_history` | battery page |
| **Dashboard** `ui/pages/dashboard/` | identity rows, the health card (score, coverage) | `load`, which submits the identity gather and a run of the diagnostics without storage; four callbacks | scheduler, providers, engine |
| **Hardware page** `ui/pages/hardware/`, `providers/pci_usb.py` | rows, two device lists with a note each | `load`, `_gather` (awaits `lspci`, then `lsusb`), `_apply` | scheduler, tool runner |
| **Plain sysfs and procfs providers** `providers/{dmi,hwmon,thinkpad_acpi,disk_usage,os_info}.py` | none | one read each | the kernel's files |
| **Fixture capture** `capture.py` | files in a directory, which outlives the process | copies sysfs, procfs and tool output, with or without identifiers, and writes a README.md with notes | the file system and the tool runner; started by `main` from a terminal |
| **Application** `app.py`, `ui/window.py` | wiring | `main`: scheduler start, resources, the pages one after the other (each loads as it is built), the main loop, scheduler stop | all of the above |
| **Logging, D-Bus connection, widgets** | a cached connection | output | – |

### What is hard

* **Two threads or one.** The same view-model code runs with coroutines beside
  the main thread and with coroutines between its callbacks. `_on_progress` of
  the fwupd provider is shared by the loop and a D-Bus listener without a lock.
* **Signals.** fwupd announces changes in storms, before and after the
  subscription, during installs and between the two reads of a gather; the page
  debounces some and drops others on purpose.
* **Several coroutines of one page in flight**, whose results must be applied in
  order; operations started from widgets that are still on screen.
* **Stale arguments.** An install resolves again a device and a release that the
  button was built from; a SMART read names a disk that may be gone.
* **Three processes, two timers, two size caps** in one SMART read, one of the
  processes root, one waiting for a human.
* **Partial failure**: one of several drives, devices or sources fails; a prompt
  is declined once for all.
* **Crash in the middle of a write**, a disk that fills up, a database that fails
  between two rows, a midnight between two rows.
* **One loop for everything**: the first loads of all pages share one queue; a tool of
  the hardware page takes seconds, another page's gather blocks.
* **A directory used twice** by captures with different options, or killed captures.
* **Thresholds and rounding** in checks that fold over lists whose order nobody
  chose.

### What makes each component correct

* *Scheduler*: at most one callback for an accepted job, its own outcome, in
  order for jobs of one loop that do not suspend; each job answered unless its
  loop is stopped; a restart leaves no half-dead loop; the asyncio policy is
  put back.
* *Firmware page*: one operation at a time and `busy_text` tells which; it ends;
  a page with nothing under way shows the device as fwupd has it; it never goes
  back to an older state; one debounce timer; progress is never delivered to a
  callback that is gone.
* *SMART read*: one answer, in bounded time; a failing disk's report is data, not
  an error; the missing piece that is blamed is the missing one.
* *Storage page*: each card tells what the last run learned of its own disk; a
  failed run changes nothing; a declined prompt is not repeated.
* *Diagnostics*: the verdicts are the calibration table's for whatever was
  gathered; skipped checks say why and do not lower the score; no unasked prompt.
* *Export*: the document is what the user saw; the chosen file is never half
  written; "exported" is only said of a file that is.
* *Battery page and history*: a day that is over keeps its rows; a card's chart
  ends in the reading the card shows; live updates end in a fresh page.
* *Application, dashboard, hardware page*: every page leaves its spinner; the
  dashboard's rows come first and do not depend on the score; one inventory's
  failure costs its own panel only; `main` gives the process its asyncio policy back.
* *Capture*: no capture without the flag adds an identifier; the notes tell what the
  capture they are of did.

## 2. The modules

| Module | Models | How |
|---|---|---|
| `SchedulerPort` | the promise of `core.ports.Scheduler` | abstract: a job is accepted or refused, finishes, is answered once |
| `ThreadLoopScheduler` | `platform.scheduler.ThreadLoopScheduler` | main thread, one loop thread per `start`, FIFO of asyncio handles taken in batches, GLib idle sources; implements `SchedulerPort` |
| `NativeScheduler` | `platform.scheduler.GLibEventLoopScheduler` | handles are sources of the main context; implements `SchedulerPort` |
| `FirmwarePage`, `MCFirmwarePage` | view, view-model and fwupd provider of the firmware page, with fwupd | `Threaded` chooses which scheduler's interleavings exist |
| `Application` | `main`, `do_activate`, the dashboard and the hardware page, and that the other pages load beside them | extends `NativeScheduler`, whose jobs are the pages' six first loads |
| `JobQueues` | – | lemmas on FIFO queues of distinct jobs, for the three modules below |
| `FirmwarePageProofs` | – | proofs |
| `ThreadLoopProofs` | – | proofs about `ThreadLoopScheduler`, the refinement among them |
| `SchedulerProofs` | – | proofs about `NativeScheduler` and `Application` |
| `SmartAnswers` | what `read_smart` may answer | vocabulary of the four modules below |
| `SmartRead` | the promise of `StorageProvider.read_smart` | abstract: one question, one answer |
| `PrivilegedRead` | provider, runner, pkexec, helper, smartctl of one read | processes, exit codes, two clocks; implements `SmartRead` |
| `StoragePage` | view-model and view of the storage page | a read is one step that answers as `SmartRead` allows |
| `StorageProofs` | – | proofs about `PrivilegedRead` and `StoragePage`, the refinement among them |
| `DiagnosticChecks` | the five checks, the score, and the two providers whose lists are a choice (`disk_usage`, `hwmon`) | pure functions, folds over lists |
| `DiagnosticsRun`, `MCDiagnosticsRun` | `core.diagnostics.run` | one step per source answer; a drive answers as `SmartRead` allows |
| `DiagnosticsPage` | view-model and view of the diagnostics page, export, report writer | one step per system call of `write`; the program may be killed between any two |
| `BatteryPage`, `MCBatteryPage` | view-model and view of the battery page, its providers, the wear history | one step per battery recorded; swaps, signals, midnights and restarts in between |
| `Capture` | `capture.py`, over several captures into one directory | one step per source; killed anywhere |
| `DiagnosticsProofs` | – | proofs about `DiagnosticsRun`, with the loops of `DiagnosticChecks`, and `DiagnosticsPage` |
| `BatteryPageProofs`, `CaptureProofs` | – | proofs |

Two modules are extended by a proof module beside another specification:
`StoragePage` and `DiagnosticsPage` call theirs `PageInit`, `PageNext`, `PageSpec`.

The map of every definition to its lines is in `PROJECT.json`. A few
correspondences are worth spelling out.

**Scheduler.** A job of `ThreadLoopScheduler` is three handles on its loop's
FIFO, as `run_coroutine_threadsafe` makes them: create the task, step it once
per segment between awaits, settle the future whose done-callback is
`_dispatch`. `loop.stop()` ends the loop after the batch that contains it; what
is left on the FIFO is dropped, and so is a job that suspended. `join` and
`_ready.wait` have timeouts in the code, so in the model they return with or
without the thread having got there. `GLib.idle_add` is `idle`, a FIFO. asyncio
and GLib are external: they are modelled by the order guarantees the code uses.

**Firmware page.** The device list is one device whose *condition* (plugged in,
releases offered, reboot pending) moves through a history, `world`; a gather
remembers the history numbers of its two reads, and the page the numbers it
shows. That is all that is needed to say that a page is stale. `_gather` is two
actions because the daemon may change between `list_devices` and
`list_upgrades`; `install` is two because of its `await`. Without threads
(`LoopMayRun`, `MainMayRun`) no callback runs between the two blocking reads of a
gather, with threads anything may. `missed` is a history variable: a change
signal was dropped with no reload promised.

**SMART read.** `child` is the pkexec process through its lives: as the user
(`pkexec`, `dialog`), then as root (`match`, `node`, `tool`, `smartctl`,
`killing`), then gone. `TimesOut` is `run_tool`'s `except TimeoutError`: `kill`
of a process that became root raises `PermissionError`, which is not caught;
of one that exited it may raise `ProcessLookupError`. Disk contents are
abstracted to a verdict and to whether any other field is reported; smartctl's
output to its exit bits, its kind of JSON and its size.

**Storage page.** The cards are functions of the disk, `EmptyCard` before the first
report; `results` is the dictionary `_gather_health` fills. `shown` is a history
variable: the answers of the last run that was delivered.

**Diagnostics.** Quantities are compared as fractions of integers, without
floating point: at each threshold the doubles of the code agree (0.85 and 0.70
round so that the wear test at exactly 15 % and 30 % is met, as in the model).
A sensor's label and all wording are left out. The disk check starts from the lines
of `/proc/mounts`, which `ListUsage` reduces to one per device. `answers` and
`mounts` are history variables.

**Diagnostics page and writer.** `dialog` holds what was on the page when the file
dialog was opened. File contents are *absent*, *old*, *part* or *whole*. The JSON
document is made from `_last_report`, the readable ones from the cards; that both
are the same report is a property.

**Battery page.** Gathers wait in `queued`, run one at a time in `gather` (no coroutine
here suspends) and wait for their callback in `doneQ`. A battery's reading is its
wear, *absent* or *unread*. A chart is a set of points (day, wear), its order being
that of the days. `read_status` is a call whose failure costs the charge texts only;
the texts and the note about it steer nothing and are left out. `_connect` and its
transaction are within one step: SQLite commits a row or does not, so a failed
`_gather` has recorded any number of batteries. `missed` is a history variable: a
change before the subscription.

**Application.** Every action is one of `NativeScheduler` with what the code of that job
does beside it, so the port's promise carries over. `order`, the scheduler's list of
submissions, tells how many pages are built. Of all first loads only the hardware
page's suspends, once per tool that is installed: a missing one raises
`ToolNotFound` before a child is started. `tools` is what each tool comes to on this
machine (a list, a failure, a missing package), fixed from the start; `gathered` are
the locals of `_gather`, `panel` what the page got. The diagnostics page and the
reference page submit nothing while they are built. Afterwards each page goes the way
of its own module.

**Capture.** The directory is `by` (which capture wrote the files of a source), `real`
(whose files hold identifiers) and `readme`. A source stands for all files of its
kind. A file that cannot be read leaves what an earlier capture put there; a killed
write leaves an empty file. `machine` is the slug, which may differ from one capture
to the next, in which case the earlier files lie beside the later ones.

## 3. Order of the work

Modelled in this order, the most important behaviour first: the scheduler that
everything runs on, the firmware page (signals, two threads, installs), the
privileged read (three processes), its callers (storage page, diagnostics), the
export, the battery page with its history, the capture, and the composition of the
pages' first loads with the scheduler. Each component's proofs followed its run.

Every invariant and action property of a passing run, and every refinement, is now
proved for all values of the constants. What the liveness properties say beyond
fairness is proved of the schedulers, the application, the firmware page, the
battery page and the privileged read: no job is lost, a banner or spinner stands for a
job that goes on, a page with nothing under way is fresh, a read has a bounded number of
steps to take and never waits for the user or smartctl alone. What is left is the
liveness itself, which the prover cannot state.

The runs are kept to a dozen, each a question of its own. A new component's run
takes the place of one of the violation runs, whose property then joins the table
at the end of section 5.

## 4. What the runs check

| Run | Module, configuration | Question and answer |
|---|---|---|
| `sched_thread` | `ThreadLoopScheduler` | Does the thread-loop scheduler keep the port's promise through start, stop, a second start and timeouts of both waits? Yes: at most one callback with the job's own outcome (`ImplementsPort`), jobs that do not suspend answered in order, no job lost unless its loop is stopped, no submission to a loop that is closed. |
| `application` | `Application` | The native scheduler under the pages' first loads, from `main`'s first line to its `finally`: does it implement the same port and give the process its asyncio policy back, with and without resources? Yes. Do all pages leave their spinners, does the dashboard come first and keep its state apart from the score, does one tool's failure stay with its panel? Yes. |
| `fw_native` | `MCFirmwarePage`, `MCFirmware_native.cfg` | One operation at a time that the banner names, one timer, an owned progress callback that is never gone when called; every operation ends, every change is shown. Holds on the native loop. |
| `fw_threaded` | `MCFirmwarePage`, `MCFirmware_threaded.cfg` | Is the page ever older than it was, or stale with nothing under way? Not with the interleavings of two threads, which include the native ones, except where a signal was dropped with no reload promised. |
| `read_smart` | `PrivilegedRead` | One read: implements `SmartRead`, keeps a failing disk's report, blames the right package, ends. |
| `read_kill` | `PrivilegedRead`, `PrivilegedRead_kill.cfg` | *Violation.* A read that gives up on a root child ends in `PermissionError`, not in a timeout. |
| `storage_page` | `StoragePage` | Cards against the last run's answers, over hotplug and failing disks; declined once; the page stays ready; the run ends. |
| `diag_run` | `MCDiagnosticsRun` | The checks and the score against the calibration table stated independently, over lists on both sides of every threshold; prompts, skip codes, evidence; file systems mounted once, twice or behind a stale mount point. |
| `diag_failing` | `MCDiagnosticsRun`, `MCDiagnosticsRun_failing.cfg` | *Violation.* A failing drive is not critical when another drive cannot be read. |
| `diag_page` | `DiagnosticsPage` | Exports against what was shown, over runs, a failing file system and a program killed anywhere. |
| `battery_page` | `MCBatteryPage` | Charts against cards and database, past days, and a page that ends up fresh, over swapped batteries, storms of signals, midnights, restarts and a failing database. |
| `capture` | `Capture` | Two captures into one directory, of one machine or two, with or without identifiers, killed anywhere: the notes are those of what the last capture did, and no capture without the flag adds an identifier. |

Every property of a passing run has a mutant in `PROJECT.json`, a plausible bug
of the mapped code that makes TLC find the property violated with the same
configuration. The mutated operators stand directly before their originals in
the modules, marked `Mutant`; nothing refers to them.

### Bounds, and why they are enough

| Constant | Value | Why |
|---|---|---|
| `Job` of `ThreadLoopScheduler` | 2 | order and interference are between two jobs; handles of one loop are interleaved by kind, not by number |
| `Job` of `Application` | 6 | every job the pages submit while they are built |
| `MaxStarts` | 2; 1 in `Application` | a loop left behind by a timed-out `join` beside its successor; the application starts once |
| `MaxAwaits` | 1; 2 in `Application` | a coroutine that suspends, and one that does not; the hardware page awaits two tools |
| `MaxJobs` of `FirmwarePage` | 2 | a gather beside an operation, or two gathers in flight; a handler that would submit a third waits (the bound is a guard) |
| `MaxChanges`, `MaxSignals` | 1, 1 | one change before, between or after the reads; signals of an install and storms refill the queue as often as they like |
| `Conditions` | 3 or 4 | absent, offering, superseded by another release, flashed |
| `ClientTimeout`, `ToolTimeout` | 3, 2 | the code's 120 s and 25 s: only their order and that a dialog of any length precedes smartctl matter; every phase can meet either limit |
| `HelperCap`, `RunnerCap`, `MaxSize` | 1, 2, 3 | output below both caps, between and above them (4 MiB and 8 MiB in the code) |
| `Disks` | 2 | a read after a failed read; an answer on the wrong card |
| `Machines` | lists of up to 2, two devices of up to 2 mount points | each threshold from both sides, in both orders. The checks are folds whose state is a verdict and a best element, so two elements show any dependence on order |
| `Days`, `Limit` | 3, 2 | a limit that bites, and a day before the ones it keeps; 365 in the code |
| `Contents` | 3 | two good batteries, one of them without capacities, none |
| `MaxJobs`, `MaxSignals` of `BatteryPage` | 2, 1 | a gather behind another, a signal while one is under way |
| `Report` | 2 | the report that was shown and the one that replaced it |
| `Machine`, `MaxCaptures` of `Capture` | 2, 2 | files of an earlier capture under the same slug and under another one; a third capture meets nothing that the second does not |

Symmetry is not used: the liveness runs forbid it and the others do not need it.
`CHECK_DEADLOCK FALSE` is set where the system may stop: a scheduler whose jobs
are all answered, a page nobody touches, a read or run that is over.

### Fairness, and why the code justifies it

* *Thread-loop scheduler.* Weak fairness of each loop thread, of `Deliver`, of the returns of
  the waits, of awaited I/O. Threads are scheduled, the GTK main loop iterates.
  Nothing is assumed of `Start`, `Stop`, `Submit` or the timeouts of the waits.
* *Application.* Weak fairness of the main loop as a whole, one FIFO of handles being
  all it serves in the model, and of the tools' ends: `run_tool` gives up after its
  timeout. None of the user, who may quit at any moment.
* *Firmware page.* Weak fairness of `load`, of the loop and of the worker (libfwupd
  calls return: they are local D-Bus calls with GLib's own timeout); strong
  fairness of callbacks, the debounce timeout and signal dispatch, because another
  source or, natively, a segment of a gather disables them again and again, and
  GLib dispatches ready sources of one priority in order. Nothing is assumed of
  the daemon, the hardware or the user.
* *SMART read.* Weak fairness of the runner, of the helper's timer and of time; none
  of the user, polkit, the disk or smartctl. `ReadEnds` is the runner's own timeout.
* *Battery page.* Weak fairness of the loop, the callbacks and signal dispatch; strong
  fairness of the debounce timeout, because the bound on gathers in flight disables
  it again and again. Nothing is assumed of batteries, UPower, the clock or restarts.
* *Capture.* None: only safety is stated.
* *Storage page, diagnostics page.* Weak fairness of what was submitted; `ReadEnds`
  is why a read ends. None of the user.

## 5. Findings

Each is a run marked *violation* with its trace.

1. **`platform/subprocess.py:86`** (`read_kill`). `proc.kill()` on a child that
   became root raises `PermissionError`, which no caller handles.
2. **`core/diagnostics.py:249`** (`diag_failing`). One try block spans all drives; a
   failed read discards the report of a failing one. `docs/health-score-calibration.md:22`
   says "CRITICAL: any `passed=false`".

Further divergences are stated as properties in the modules and kept out of the
runs, which are few on purpose. Adding the name to the module's configuration
reproduces each one.

| Property | Module | What the code does |
|---|---|---|
| `ProgressNeverNone` | `FirmwarePage` with `Threaded = TRUE` | with `ThreadLoopScheduler`, `install`'s `finally` on the loop thread (`fwupd.py:327`) clears `_on_progress` between the listener's test (`:350`) and its call (`:358`) on the main thread, while `docs/adr/0007-async-integration-per-lts.md:51-52` promises thread-safety at one boundary only. The native loop excludes it, which is proved. |
| `IdentityNotDelayed` | `Application` | "The health score loads independently so a slow signal source never delays the identity rows" (`dashboard/view_model.py:91-92`): none of the sources suspends, so on the native loop the whole run of the diagnostics, and every other page's first read, comes before the callback of the identity rows. |
| `ReadmeTruthful` | `Capture` | a default capture into the directory of one with identifiers notes "identifiers redacted" (`capture.py:117`) and leaves the identifier files, while the checklist of `docs/testing.md:39-40` takes README.md as the sign that there are none. |
| `FreshWhenQuiet` | `FirmwarePage` | `_on_changed` skips reloads during an install because "the post-install reload covers those" (`firmware/view_model.py:105-106`); a declined or erroneous install makes none (`:242-254`) and the page stays stale. `FreshUnlessMissed` shows that this and a change before the subscription are the only causes. |
| `InstallKeepsPage` | `FirmwarePage` | any error of the two lookups in `install` is `ProviderUnavailable` (`fwupd.py:303`), so a device that was unplugged turns the page into "install the fwupd package", while `core/errors.py:22` says "Absence of hardware is NOT this". |
| `MissingHelperNamed` | `PrivilegedRead` | pkexec exits 127 for a missing program as for a refused authorization, so a missing helper may be reported as declined (`storage_smart.py:133`). |
| `FailingLooksFailing` | `StoragePage` | the summary of a failing disk with no other field is not shown (`storage/view.py:69`), against "A failing drive is flagged" of `docs/user-guide.md`. |
| `FailedReadIsNoted` | `StoragePage` | after one good read, a later failed one leaves the old values on screen and its note hidden (`storage/view.py:69`). |
| `NeverRaises` | `DiagnosticsRun` | the `PermissionError` of finding 1 leaves `run()`, whose docstring (`core/diagnostics.py:6-8`) says "never an exception to the caller". |
| `DayNotSpoiled` | `BatteryPage` | `INSERT OR REPLACE` (`platform/history.py:57`) "makes the daily snapshot idempotent" (`:5`), but a gather that could not read the capacities replaces the day's good row by one without wear. |
| `JsonKeepsEvidence` | `DiagnosticsRun` | `dict(result.metrics)` keeps the last of equal keys: of two failing drives the JSON document names one (`core/report.py:61`). |

## 6. What is proved

### Firmware page (`FirmwarePageProofs`)

For every set of releases and conditions, any number of jobs, signals and
changes, and both schedulers: `TypeOK`, `OneOperation`, `ProgressHasOwner`,
`OneTimer`, `NeverOlder`, `FreshUnlessMissed`; and `ProgressNeverNone` under
`~Threaded`. Assumptions: the three named `ASSUME`s of `FirmwarePage` (Boolean,
bounds, shape of conditions), which every run evaluates.

The first four are not inductive alone. `OneOperation` says that `busy_text` names
the refresh or install in flight; that a callback clears the right one needs
the job it delivers to be a finished one and the only one of its kind, that is:
each queue holds exactly the jobs of its phase, each once (`QueuesOK`, in terms
of `Lists` of `JobQueues`). That a resumed job is an install, and one between
two reads a gather, is `KindOK`. `_apply` reads the condition a gather named,
which must exist (`DevRead`) for the reboot banner to be typed. `NativeOK` adds
that with one thread a checked callback is still there when it is called. The
invariant `Inv` is the conjunction of these. Its preservation is split by what a
step does to the job table: it submits a job, moves one, delivers one or leaves
all alone; one lemma each gives the effect on queues and on the sets of active
jobs (`SubmitStep`, `MovesStep`, `DeliversStep`, `SameJobs`), and the actions cite
them. Types are preserved separately (`TypeStep`), since the history of
conditions grows and every number recorded in a job must stay in range.

`NeverOlder` needs an order on the reads (`ReadOrder`): at most one gather is between
its two reads, what it read is no older than what waits in `doneQ`, what waits there
is in the order of its reads, and nothing there is older than the cards. It holds
because a gather reads and is posted on one loop; two gathers reading on two threads
would break it. `FreshUnlessMissed` needs the converse: the last read is of the device
as it is, or a change signal, the debounce timeout or a queued gather promises a later
one (`Kept`). A gather's first read makes it true again, a change makes a promise, and
where the page takes none or breaks one, `missed` is set. The reboot
banner comes from the same read as the card (`BannerOK`).

`BusyGoesOn` (`BusyGoesOnHolds`) is what `BusyEnds` says without fairness: the operation
that `busy_text` names is in a queue or at libfwupd, and ends in an outcome that one of
its callbacks takes (`OutOK`), so no finished job blocks the callbacks behind it.

### SMART read (`StorageProofs`)

For every pair of time limits and every size limits with `HelperCap <= RunnerCap`
(`CapAssumption`): `TypeOK`, `FailingDiskIsData`, `BlameRightPiece`, and that the
read implements `SmartRead` (`ReadImplementsContract`). The strengthening is
`ChildFits`: what the state of the child, its exit code and smartctl's output
imply of each other and of what is installed, and that nothing but a timeout
answers before the child has ended. The assumption on the caps is what the
second property rests on: with a larger cap in the helper, output that the
helper passes would be reported as a missing package. The refinement maps
`reaping` to `asked`; `ReadSmart` maps to `Ask` or `Reply`, `Communicate`, `Reaped`
and the raising timeouts to `Reply`, everything else to a stutter.

What `ReadEnds` says without fairness is proved in two halves, from `ChildFits` and that
smartctl's clock runs only while smartctl does (`Timers`). While a read is under way one
of the steps `FairSpec` is fair to can be taken: the answer, the runner's timer, the
helper's, a tick, or the reaping of a killed child, so no wait is for the user, polkit or
smartctl alone (`ReadGoesOn`; it states the guards, because ENABLED is out of the prover's
reach). And `StepsLeft`, a sum over the coroutine, the child, the disk and the two
clocks, starts at no more than `ClientTimeout + ToolTimeout + 12` and decreases with every
step (`ReadIsBounded`, `ReadRunsOut`). A runner that waits for a root child it cannot kill
(the mutant of `ReadEnds`) breaks the first half.

### Thread-loop scheduler (`ThreadLoopProofs`)

For any jobs, loop threads and awaits, and every interleaving of the main thread with
them, waits that time out included: it implements `SchedulerPort`
(`ThreadLoopImplementsPort`), `AtMostOnce`, `LoopAcceptsJobs`, `AnsweredInOrder`, and that
no accepted job is lost before its loop is asked to stop (`ThreadLoopLosesNoJob`).
The invariant says of each loop that is not closed that its FIFO lists one handle for
each job that can go on there, of the kind its phase calls for, and a stop handle while
one is due (`QueuesOK`); that a closed loop was stopped; and that `_loop` names, outside
`stop()`, a loop nobody has stopped (`LoopsOK`), which is `LoopAcceptsJobs`. A loop left
behind by a `join` that timed out keeps its own FIFO and cannot disturb its successor's.

`AnsweredInOrder` goes through four queues: of two jobs of one loop that did not suspend,
the first submitted is at a later stage, or at the same stage and in front of the other
in that stage's queue (`Ahead`). Each step moves the head of one queue to the end of the
next, which keeps it. A suspended job leaves the relation, which is why the property
speaks of jobs that do not suspend.

### Native scheduler and application (`SchedulerProofs`)

For any jobs, starts and awaits: `NativeScheduler` implements `SchedulerPort`
(`NativeImplementsPort`), so a job is answered at most once, with its own outcome. The
strengthening is `HandlesOK`, in terms of `Lists` of `JobQueues`: each job that can
go on has exactly one handle on the main context, of the kind its phase calls for. A
second handle of a job would be a second callback. Every step of `Application` is a
step of the scheduler or leaves its variables alone (`AppUsesScheduler`), so the
application keeps the port's promise (`AppImplementsPort`) and restores the policy
(`AppRestoresPolicy`). The theorems of `Application` assume that the jobs are the pages'.

Two more are about the pages. `PanelsDegradeAlone` (`AppDegradesPerPanel`) follows
from what a gather that ended well knows (`PanelsInv`). `DashboardWhole`
(`AppShowsIdentityFirst`) needs the order of the handles as well as their kinds: as
long as the identity rows' job has not been called back, its handle is at the head, or
it is a callback with nothing but steps in front of it (`IdentityFirst`,
`BehindSteps`). A job submitted first that suspended even once would break this.

`SpinnersHaveJobs` (`AppSpinnersHaveJobs`) is what `PagesSettle` says without fairness. It
needs that the main loop starts with all loads submitted and none refused, that only
the hardware page's suspends, and that a page's callback takes it off its spinner
(`LoadsOK`).

### Storage page (`StorageProofs`)

For any number of disks: `CardsTellTheRun`, `DeclinedOnce`, `ReadyStays`. A run's results
are needed on the way: while it goes on it has read every card's disk before `next`
and no other (`RunSoFar`), none of these answers having ended it; an answer that
declined is the one the run ended with (`Declined`). A page that is loading has shown
nothing yet (`Loading`), which makes new cards agree with `shown`.

### Diagnostics engine (`DiagnosticsProofs`)

For any machines, with lists of any length: `TypeOK`, `VerdictsMatchTable`, `ScoreIsMean`,
`PromptsWhenAsked`, `SkipSaysWhy`, `EvidenceIsComplete`. `MachinesAssumption` says that the
sources return values of their types, which `Machine` spells out; nothing is assumed of
the numbers in them.

The checks are folds over lists. Each is shown to be a sequence of turns `h[0]`, `h[1]`,
..., where turn `i` looks at one element, from the definition of `FoldLeft` and the
well-foundedness of the naturals (a least position at which the turns and the fold
would differ); what it computes is an invariant of the turns: the verdict is the worst
of the elements seen, the evidence is of the one that decided it. The battery
check compares fractions, which are products of two variables: a few lemmas about these
are all the nonlinear arithmetic. The table states the verdicts with quantifiers
over the list, so that the theorem also says that the order of a list does not matter.
The score is proved of the sum and the number of the measured checks, which are the two
components of the fold in `score`.

The run's invariant follows the storage block: the disks are read in the order they are
listed, and as long as the block goes on every one so far has answered (`AllAnswered`);
a failure ends it and drops what was read, and the skip code is that of the last answer
(`GivenUp`, `StorageOK`). `OutcomeOK` says that the report is that of the checks on what was
gathered.

### Diagnostics page and writer (`DiagnosticsProofs`)

For any set of reports: `ExportsWhatWasShown`, `TargetWhole`, `ExportedMeansWritten`. The
argument is that the dialog is modal and `busy_text` names the coroutine (`JobOK`):
no run can end between the click and the rename, so `_last_report`, the cards, the
dialog and the document are of one report (`OneReport`, `DocumentOK`).

### Battery page (`BatteryPageProofs`)

For any batteries, contents, number of days and limit: `ChartEndsInCard`,
`PastDaysKept`. The strengthening follows a chart from the query to the card:
in the gather, in each result that waits, on the page, it ends in the reading it
was made with and agrees with the table before today (`EndsIn`, `Kept`). The first
rests on `NothingAhead`, no row of a day to come, by which today's row is within any
limit (`HistoryFits`); the second on `PastStep`, that a step leaves the rows of days
that are over alone, however many results lie between query and card.

`QuietPageIsFresh` is what `FreshInTheEnd` says without fairness: a ready page with
nothing under way shows the batteries as they are (`FreshWhenQuiet`). As on the firmware
page, the last read is of the batteries as they are, or a signal, a timeout or a queued
gather promises another (`UpToDate`). A gather reads all batteries before it records the
first, so a swap while it records is a later change and has a signal of its own.

### Capture (`CaptureProofs`)

For any slugs and number of captures: `NotesTellTheRun` (`ReadmeTellsTheRun`) and
`NeverAddsIdentifiers` (`RedactsByDefault`). The first needs that what a step has
written stays as it is until README.md (`Passed`), that the hostname is redacted once
its step is over (`Redacted`), and that README.md is of an earlier capture until its own
one writes it (`Earlier`).

### Model-checked only

Liveness (`EveryJobAnswered`, `BusyEnds` of three pages, `ChangeShown`, `ReadEnds`,
`FreshInTheEnd`, `PagesSettle`): the prover does not do fairness. The safety halves above say that nothing
is lost; that it is then served rests on the runs. Which devices `ListFirmware`
selects from its list stays opaque to the prover, because `SelectSeq` is recursive; no
proved property depends on it. The two findings and
the divergences of section 5 are counterexamples, which runs show.

## 7. What is not modelled

* **Window navigation and the reference page**: GTK's own stack, and a page without a
  provider.
* **The thread-loop scheduler under the application**: its own run has start, stop and
  two jobs; what the pages do with each other is modelled on the native loop.
* **Wording, layout, formatting, logging, widgets, translations**: no property
  is about them.
* **Field mapping of fwupd, hwmon, DMI, PCI and UPower records**: stateless
  parsing without consequences for control; the tests cover it.
* **Several firmware devices**: the page applies a gather as a whole, so one device
  whose condition changes shows every staleness; a failed `list_upgrades` on one
  device of many is in `DiagnosticsRun`.
* **asyncio, GLib, D-Bus, polkit, smartctl, the kernel**: external, modelled by the
  guarantees the code relies on.
* **A helper killed by a signal, failures of `fork`, power loss**: the first two end
  like the failures that are modelled; what a file holds after a power loss
  without `fsync` is up to the file system.
* **The allowlist and environment of the tool runner**: fixed before the child
  starts, constant over a call.
