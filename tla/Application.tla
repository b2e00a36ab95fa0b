----------------------------- MODULE Application -----------------------------
(***************************************************************************)
(* The composition root over the native scheduler: main() starts the       *)
(* scheduler, builds the window, whose pages each load once, runs the main  *)
(* loop until the user quits, and stops the scheduler.  The dashboard and   *)
(* the hardware page are modelled whole; of the other pages only that they  *)
(* load beside them.  The jobs of NativeScheduler are the six coroutines    *)
(* the pages submit while they are built.                                   *)
(***************************************************************************)
EXTENDS NativeScheduler

\* Mutant: the dashboard submits the run of the diagnostics first.
LoadsHealthFirst == <<"health", "identity", "battery", "hardware", "firmware", "storage">>

\* In the order of the pages in do_activate; the dashboard submits two.
Loads == <<"identity", "health", "battery", "hardware", "firmware", "storage">>
\* The job that decides a page's state; the health job decides none.
PageJob == {"identity", "battery", "hardware", "firmware", "storage"}

VARIABLES
    app,        \* how far main() is
    state,      \* PageViewModel.state of each page, by its job
    tools,      \* what lspci, 1, and lsusb, 2, come to on this machine
    tool,       \* the tool the hardware page awaits, 0 before the first
    gathered,   \* locals of its _gather: what became of each inventory
    panel,      \* what its two expanders show
    card        \* the dashboard's health card: title and subtitle set

pageVars == <<state, panel, card>>
hardwareVars == <<tool, gathered>>
appVars == <<app, tools, pageVars, hardwareVars, vars>>

Tool == 1 .. 2
\* An inventory, a read that failed, or a tool whose package is missing.
Inventory == {"devices", "could not be read", "install package"}
\* A tool that is on the machine is run and awaited, for its list or its failure.
Installed == {t \in Tool : tools[t] # "install package"}
NoCard == [score |-> "none", coverage |-> "none"]

AppInit ==
    /\ Init /\ app = "launched"
    /\ state = [p \in PageJob |-> "loading"]
    /\ tools \in [Tool -> Inventory]
    /\ tool = 0 /\ gathered = [t \in Tool |-> "none"]
    /\ panel = [t \in Tool |-> "none"] /\ card = NoCard

-----------------------------------------------------------------------------
(* main() and do_activate.                                                 *)

MainStarts ==
    /\ app = "launched" /\ app' = "building"
    /\ Start
    /\ UNCHANGED <<tools, pageVars, hardwareVars>>

\* The next page's __init__: it connects and loads.  Nothing else runs while
\* do_activate builds the window.
BuildPage ==
    /\ app = "building" /\ Len(order) < Len(Loads)
    /\ Submit(Loads[Len(order) + 1])
    /\ app' = IF Len(order) + 1 = Len(Loads) THEN "running" ELSE app
    /\ UNCHANGED <<tools, pageVars, hardwareVars>>

\* _load_resources finds no bundle, and _build_application raises.
ResourcesMissing ==
    /\ app = "building" /\ order = <<>>
    /\ app' = "returned"
    /\ UNCHANGED <<tools, pageVars, hardwareVars, vars>>

\* The user quits, or LAPCARE_AUTO_QUIT_MS are over.
Quit ==
    /\ app = "running" /\ app' = "returned"
    /\ UNCHANGED <<tools, pageVars, hardwareVars, vars>>

\* The finally of main().
MainEnds ==
    /\ app = "returned" /\ app' = "ended"
    /\ Stop
    /\ UNCHANGED <<tools, pageVars, hardwareVars>>

-----------------------------------------------------------------------------
(* The coroutines.                                                         *)

\* Every coroutine but the hardware page's ends in its first step.  An absent
\* file is a field without a value; only what the port allows beyond that, or
\* an unexpected exception, fails the reads of the dashboard.
LoadRuns(j) ==
    /\ app = "running" /\ j # "hardware"
    /\ StepEnds(j)
    /\ UNCHANGED <<app, tools, pageVars, hardwareVars>>

\* Mutant: one try block for both inventories.
OutcomeOfBoth(t) ==
    [i \in Tool |-> IF i < t /\ \E k \in Tool : k < t /\ tools[k] # "devices"
                      THEN "could not be read" ELSE IF i < t THEN tools[i] ELSE "none"]

\* What _gather knows once it is done with the tools before t: the list each
\* printed, or a note.
Outcome(t) == [i \in Tool |-> IF i < t THEN tools[i] ELSE "none"]

\* _gather goes on to the next tool there is, and awaits it.
HardwareAwaits ==
    /\ app = "running"
    /\ \E t \in Installed :
         /\ t > tool /\ \A i \in Installed : i > tool => t <= i
         /\ gathered' = Outcome(t) /\ tool' = t
    /\ StepSuspends("hardware")
    /\ UNCHANGED <<app, tools, pageVars>>

\* No tool is left; or an exception that is no LapcareError, or one of the
\* identity and CPU reads before the first tool, ends the coroutine.
HardwareEnds ==
    /\ app = "running"
    /\ StepEnds("hardware")
    /\ IF outcome'["hardware"] = "error"
         THEN UNCHANGED hardwareVars
         ELSE (\A i \in Installed : i <= tool) /\ gathered' = Outcome(3) /\ UNCHANGED tool
    /\ UNCHANGED <<app, tools, pageVars>>

\* A tool ends, or run_tool's timer does.
ToolAnswers ==
    /\ app = "running"
    /\ Resume("hardware")
    /\ UNCHANGED <<app, tools, pageVars, hardwareVars>>

-----------------------------------------------------------------------------
(* The callbacks.                                                          *)

Delivers(j) ==
    /\ app = "running" /\ Done(j)
    /\ UNCHANGED <<app, tools, hardwareVars>>

\* handle_error.
FailsPage(j) == \E s \in {"unavailable", "error"} : state' = [state EXCEPT ![j] = s]

\* _apply of the dashboard, or handle_error.
DashboardAnswered ==
    /\ Delivers("identity")
    /\ IF outcome["identity"] = "ok" THEN state' = [state EXCEPT !["identity"] = "ready"]
                                     ELSE FailsPage("identity")
    /\ UNCHANGED <<panel, card>>

\* Mutant: the score, whose notification fills the card, is set first.
CardScoreFirst(old) == [score |-> "measured", coverage |-> old.coverage]

\* The view fills the card when the score is set, with the coverage it finds.
CardOf(old) == [score |-> "measured", coverage |-> "measured"]

\* _apply_health, where no signal may have been measured, or _health_failed.
HealthAnswered ==
    /\ Delivers("health")
    /\ \/ UNCHANGED card
       \/ outcome["health"] = "ok" /\ card' = CardOf(card)
    /\ UNCHANGED <<state, panel>>

\* Mutant: _apply fills the panels and stays on the loading page.
HardwareStaysLoading ==
    /\ Delivers("hardware")
    /\ IF outcome["hardware"] = "ok" THEN panel' = gathered /\ UNCHANGED state
                                     ELSE FailsPage("hardware") /\ UNCHANGED panel
    /\ UNCHANGED card

\* _apply of the hardware page, or handle_error.
HardwareAnswered ==
    /\ Delivers("hardware")
    /\ IF outcome["hardware"] = "ok"
         THEN panel' = gathered /\ state' = [state EXCEPT !["hardware"] = "ready"]
         ELSE FailsPage("hardware") /\ UNCHANGED panel
    /\ UNCHANGED card

\* The other pages: an empty result is unavailable as well.
PageAnswered(j) ==
    /\ j \in {"battery", "firmware", "storage"} /\ Delivers(j)
    /\ \/ outcome[j] = "ok" /\ state' = [state EXCEPT ![j] = "ready"]
       \/ FailsPage(j)
    /\ UNCHANGED <<panel, card>>

-----------------------------------------------------------------------------
MainLoop ==
    \/ HardwareAwaits \/ HardwareEnds
    \/ DashboardAnswered \/ HealthAnswered \/ HardwareAnswered
    \/ \E j \in Job : LoadRuns(j) \/ PageAnswered(j)

AppNext ==
    \/ MainStarts \/ ResourcesMissing \/ BuildPage \/ Quit \/ MainEnds
    \/ ToolAnswers \/ MainLoop

\* The main loop runs and tools end, at run_tool's timeout at the latest.
AppSpec == AppInit /\ [][AppNext]_appVars /\ WF_appVars(MainLoop) /\ WF_appVars(ToolAnswers)

-----------------------------------------------------------------------------
\* The comment on the notes in hardware/view_model.py: degradation is per
\* panel, whole-page only for identity.  Neither inventory's failure costs the
\* other, and a missing package is named whatever the other tool does.
PanelsDegradeAlone ==
    state["hardware"] = "ready" => panel = tools

\* The dashboard is what the user sees first, and its score is a bonus card: no
\* callback runs before that of the identity rows, however slow or quick the
\* sources of the other pages are; the page's state is that of these rows
\* alone; and a card that is visible names the coverage of its score.
DashboardWhole ==
    /\ (\E j \in Job : phase[j] = "called") => phase["identity"] = "called"
    /\ phase["identity"] = "called" =>
           (state["identity"] = "ready" <=> outcome["identity"] = "ok")
    /\ card.score = card.coverage

\* No page stays on its spinner, whatever its neighbours do, until the user
\* quits.
PagesSettle ==
    \A p \in PageJob :
        (app = "running" /\ state[p] = "loading") ~> (state[p] # "loading" \/ app # "running")

\* load()'s comment in dashboard/view_model.py: the health score loads
\* independently, so a slow signal source never delays the identity rows.  Not
\* so: the identity callback is queued behind the first step of every load, and
\* none of those steps but the hardware page's suspends.
IdentityNotDelayed == phase["health"] \in {"done", "called"} => phase["identity"] = "called"
=============================================================================
