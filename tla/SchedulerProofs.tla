--------------------------- MODULE SchedulerProofs ---------------------------
(***************************************************************************)
(* Proofs about NativeScheduler, for any set of jobs, any number of starts *)
(* and awaits, and any order of start, stop and submit: it implements      *)
(* SchedulerPort and gives the asyncio policy back.  Application, whose     *)
(* every step is a step of the scheduler or leaves it alone, inherits both; *)
(* its pages degrade alone, the dashboard's rows are answered first, and    *)
(* no page is left on its spinner without a job.                            *)
(***************************************************************************)
EXTENDS Application, JobQueues

HandleOf(j) == IF phase[j] = "done" THEN Handle(j, "done") ELSE Handle(j, "step")
Runnable == {j \in Job : phase[j] \in {"stepping", "done"}}
OnContext == {HandleOf(j) : j \in Runnable}

\* Every job that can go on has one handle on the main context, of the kind
\* that its phase calls for, and no other job has any.
HandlesOK == Lists(handles, OnContext)

\* A job has an outcome once its coroutine has ended.
OutcomeOK == \A j \in Job : outcome[j] = "none" <=> phase[j] \notin {"done", "called"}

Inv == TypeOK /\ HandlesOK /\ OutcomeOK /\ PolicyRestored

LEMMA InitInv == Init => Inv
  <1> SUFFICES ASSUME Init PROVE Inv
    OBVIOUS
  <1>1. OnContext = {}
    BY DEF Init, OnContext, Runnable
  <1>2. HandlesOK
    BY <1>1, EmptyLists DEF Init, HandlesOK
  <1>3. TypeOK
    <2>1. started \in BOOLEAN
      BY Zenon DEF Init
    <2>2. handles \in Seq([job : Job, kind : {"step", "done"}]) /\ order \in Seq(Job)
      BY DEF Init
    <2>3. QED
      BY <2>1, <2>2, BoundAssumption DEF Init, TypeOK
  <1>4. QED
    BY <1>2, <1>3 DEF Init, Inv, OutcomeOK, PolicyRestored

\* The handle at the head is that of a job in the phase it calls for.
LEMMA HeadPhase ==
  ASSUME Inv, NEW j \in Job, NEW k \in {"step", "done"}, Pops(Handle(j, k))
  PROVE  /\ phase[j] = IF k = "done" THEN "done" ELSE "stepping"
         /\ Lists(Tail(handles), OnContext \ {Handle(j, k)})
  <1>1. handles # <<>> /\ Head(handles) = Handle(j, k)
    BY DEF Pops
  <1>2. Handle(j, k) \in OnContext /\ Lists(Tail(handles), OnContext \ {Handle(j, k)})
    BY <1>1, TailLists DEF Inv, HandlesOK
  <1>3. PICK i \in Runnable : HandleOf(i) = Handle(j, k)
    BY <1>2 DEF OnContext
  <1>4. i = j /\ k = IF phase[i] = "done" THEN "done" ELSE "step"
    BY <1>3 DEF HandleOf, Handle
  <1>5. QED
    BY <1>2, <1>4 DEF Runnable

-----------------------------------------------------------------------------
(* What a step does to the handles.                                        *)

\* The handles of the other jobs.
Others(j) == {HandleOf(i) : i \in Runnable \ {j}}

LEMMA ContextSplit ==
  ASSUME NEW j \in Job
  PROVE  /\ OnContext = IF j \in Runnable THEN Others(j) \cup {HandleOf(j)} ELSE Others(j)
         /\ \A k : Handle(j, k) \notin Others(j)
  BY DEF OnContext, Others, HandleOf, Handle, Runnable

LEMMA OthersStay ==
  ASSUME TypeOK, NEW j \in Job, NEW ph, phase' = [phase EXCEPT ![j] = ph]
  PROVE  Others(j)' = Others(j)
  <1>1. \A i \in Job : i # j => phase'[i] = phase[i]
    BY DEF TypeOK
  <1>2. (Runnable \ {j})' = Runnable \ {j}
    BY <1>1 DEF Runnable
  <1>3. \A i \in Runnable \ {j} : HandleOf(i)' = HandleOf(i)
    BY <1>1 DEF HandleOf, Runnable
  <1>4. QED
    BY <1>2, <1>3 DEF Others

\* A job that was not on the context goes on it.
LEMMA Enters ==
  ASSUME Inv, NEW j \in Job, j \notin Runnable, phase' = [phase EXCEPT ![j] = "stepping"],
         handles' = Append(handles, Handle(j, "step"))
  PROVE  HandlesOK'
  <1>1. Lists(handles, Others(j)) /\ Handle(j, "step") \notin Others(j)
    BY ContextSplit DEF Inv, HandlesOK
  <1>2. phase'[j] = "stepping"
    BY DEF Inv, TypeOK
  <1>3. OnContext' = Others(j)' \cup {Handle(j, "step")}
    BY <1>2, ContextSplit DEF Runnable, OnContext, Others, HandleOf, Handle
  <1>4. QED
    BY <1>1, <1>3, AppendLists, OthersStay DEF Inv, HandlesOK

\* The job at the head leaves the context.
LEMMA Leaves ==
  ASSUME Inv, NEW j \in Job, NEW k \in {"step", "done"}, Pops(Handle(j, k)),
         NEW ph \in {"waiting", "called"}, phase' = [phase EXCEPT ![j] = ph],
         handles' = Tail(handles)
  PROVE  HandlesOK'
  <1>1. j \in Runnable /\ HandleOf(j) = Handle(j, k)
    BY HeadPhase DEF Runnable, HandleOf
  <1>2. OnContext \ {Handle(j, k)} = Others(j)
    BY <1>1, ContextSplit
  <1>3. Lists(handles', Others(j))
    BY <1>2, HeadPhase
  <1>4. phase'[j] = ph
    BY DEF Inv, TypeOK
  <1>5. OnContext' = Others(j)'
    BY <1>4 DEF Runnable, OnContext, Others
  <1>6. QED
    BY <1>3, <1>5, OthersStay DEF Inv, HandlesOK

\* The coroutine at the head ends; its callback goes to the end of the queue.
LEMMA Turns ==
  ASSUME Inv, NEW j \in Job, Pops(Handle(j, "step")), phase' = [phase EXCEPT ![j] = "done"],
         handles' = Append(Tail(handles), Handle(j, "done"))
  PROVE  HandlesOK'
  <1>1. j \in Runnable /\ HandleOf(j) = Handle(j, "step")
    BY HeadPhase DEF Runnable, HandleOf
  <1>2. OnContext \ {Handle(j, "step")} = Others(j)
    BY <1>1, ContextSplit
  <1>3. Lists(Tail(handles), Others(j)) /\ Handle(j, "done") \notin Others(j)
    BY <1>2, HeadPhase, ContextSplit
  <1>4. phase'[j] = "done"
    BY DEF Inv, TypeOK
  <1>5. OnContext' = Others(j)' \cup {Handle(j, "done")}
    BY <1>4 DEF Runnable, OnContext, Others, HandleOf, Handle
  <1>6. QED
    BY <1>3, <1>5, AppendLists, OthersStay DEF Inv, HandlesOK

-----------------------------------------------------------------------------
(* The invariant, and each step as a step of the port.                     *)

HandleSet == [job : Job, kind : {"step", "done"}]

LEMMA TypeStep == ASSUME TypeOK, [Next]_vars PROVE TypeOK'
  <1>1. ASSUME NEW j \in Job
        PROVE  /\ Handle(j, "step") \in HandleSet /\ Handle(j, "done") \in HandleSet
               /\ \A q \in Seq(HandleSet) : Append(q, Handle(j, "step")) \in Seq(HandleSet)
               /\ \A q \in Seq(HandleSet) : Append(q, Handle(j, "done")) \in Seq(HandleSet)
    BY DEF Handle, HandleSet
  <1>2. handles \in Seq(HandleSet) /\ (handles # <<>> => Tail(handles) \in Seq(HandleSet))
    BY DEF TypeOK, HandleSet
  <1>3. CASE Start
    BY <1>3, BoundAssumption DEF Start, TypeOK
  <1>4. CASE Stop
    BY <1>4 DEF Stop, TypeOK
  <1>5. ASSUME NEW j \in Job, Submit(j) PROVE TypeOK'
    <2>1. handles' \in Seq(HandleSet) /\ order' \in Seq(Job)
      <3>1. order \in Seq(Job) /\ Append(order, j) \in Seq(Job)
        BY DEF TypeOK
      <3>2. handles' = handles \/ handles' = Append(handles, Handle(j, "step"))
        BY <1>5 DEF Submit
      <3>3. order' = order \/ order' = Append(order, j)
        BY <1>5 DEF Submit
      <3>4. QED
        BY <1>1, <1>2, <3>1, <3>2, <3>3
    <2>2. phase' \in [Job -> {"unused", "refused", "stepping", "waiting", "done", "called"}]
      BY <1>5 DEF Submit, TypeOK
    <2>3. QED
      BY <1>5, <2>1, <2>2 DEF Submit, TypeOK, HandleSet
  <1>6. ASSUME NEW j \in Job, Resume(j) PROVE TypeOK'
    BY <1>1, <1>2, <1>6 DEF Resume, TypeOK, HandleSet
  <1>7. ASSUME NEW j \in Job, StepSuspends(j) PROVE TypeOK'
    <2>1. awaits' \in [Job -> 0 .. MaxAwaits]
      <3>1. awaits[j] + 1 \in 0 .. MaxAwaits
        BY <1>7, BoundAssumption DEF StepSuspends, TypeOK
      <3>2. QED
        BY <1>7, <3>1 DEF StepSuspends, TypeOK
    <2>2. QED
      BY <1>2, <1>7, <2>1 DEF StepSuspends, Pops, TypeOK, HandleSet
  <1>8. ASSUME NEW j \in Job, StepEnds(j) PROVE TypeOK'
    <2>1. handles' \in Seq(HandleSet)
      BY <1>1, <1>2, <1>8 DEF StepEnds, Pops
    <2>2. QED
      BY <1>8, <2>1 DEF StepEnds, TypeOK, HandleSet
  <1>9. ASSUME NEW j \in Job, Done(j) PROVE TypeOK'
    <2>1. handles' \in Seq(HandleSet)
      BY <1>2, <1>9 DEF Done, Pops
    <2>2. /\ phase' \in [Job -> {"unused", "refused", "stepping", "waiting", "done", "called"}]
          /\ calls' \in [Job -> Nat]
      BY <1>9 DEF Done, TypeOK
    <2>3. UNCHANGED <<started, policy, starts, outcome, awaits, order>>
      BY <1>9 DEF Done
    <2>4. QED
      BY <2>1, <2>2, <2>3 DEF TypeOK, HandleSet
  <1>10. CASE UNCHANGED vars
    BY <1>10 DEF vars, TypeOK
  <1>11. QED
    BY <1>3, <1>4, <1>5, <1>6, <1>7, <1>8, <1>9, <1>10 DEF Next, MainContext

LEMMA InvStep == ASSUME Inv, [Next]_vars PROVE Inv'
  <1>1. TypeOK'
    BY TypeStep DEF Inv
  <1>2. CASE Start \/ Stop \/ UNCHANGED vars
    <2>1. UNCHANGED <<handles, phase, outcome>>
      BY <1>2 DEF Start, Stop, vars
    <2>2. HandlesOK' /\ OutcomeOK'
      BY <2>1 DEF Inv, HandlesOK, OnContext, Runnable, HandleOf, OutcomeOK
    <2>3. PolicyRestored'
      BY <1>2 DEF Start, Stop, vars, Inv, PolicyRestored
    <2>4. QED
      BY <1>1, <2>2, <2>3 DEF Inv
  <1>3. ASSUME NEW j \in Job, Submit(j) PROVE HandlesOK' /\ OutcomeOK'
    <2>1. OutcomeOK'
      BY <1>3 DEF Submit, Inv, OutcomeOK, TypeOK
    <2>2. CASE started
      BY <1>3, <2>1, <2>2, Enters DEF Submit, Runnable
    <2>3. CASE ~started
      <3>1. phase' = [phase EXCEPT ![j] = "refused"] /\ handles' = handles
        BY <1>3, <2>3 DEF Submit
      <3>2. j \notin Runnable /\ phase'[j] = "refused"
        BY <1>3, <3>1 DEF Submit, Runnable, Inv, TypeOK
      <3>3. OnContext = Others(j) /\ OnContext' = Others(j)'
        BY <3>2 DEF OnContext, Others, Runnable
      <3>4. QED
        BY <2>1, <3>1, <3>3, OthersStay DEF Inv, HandlesOK
    <2>4. QED
      BY <2>2, <2>3
  <1>4. ASSUME NEW j \in Job, Resume(j) PROVE HandlesOK' /\ OutcomeOK'
    BY <1>4, Enters DEF Resume, Runnable, Inv, OutcomeOK, TypeOK
  <1>5. ASSUME NEW j \in Job, StepSuspends(j) PROVE HandlesOK' /\ OutcomeOK'
    <2>1. phase[j] = "stepping"
      BY <1>5, HeadPhase DEF StepSuspends
    <2>2. QED
      BY <1>5, <2>1, Leaves DEF StepSuspends, Inv, OutcomeOK, TypeOK
  <1>6. ASSUME NEW j \in Job, StepEnds(j) PROVE HandlesOK' /\ OutcomeOK'
    BY <1>6, Turns DEF StepEnds, Inv, OutcomeOK, TypeOK
  <1>7. ASSUME NEW j \in Job, Done(j) PROVE HandlesOK' /\ OutcomeOK'
    <2>1. phase[j] = "done"
      BY <1>7, HeadPhase DEF Done
    <2>2. QED
      BY <1>7, <2>1, Leaves DEF Done, Inv, OutcomeOK, TypeOK
  <1>8. CASE (\E j \in Job : Submit(j) \/ Resume(j)) \/ MainContext
    <2>1. HandlesOK' /\ OutcomeOK'
      BY <1>3, <1>4, <1>5, <1>6, <1>7, <1>8 DEF MainContext
    <2>2. PolicyRestored'
      BY <1>8 DEF MainContext, Submit, Resume, StepSuspends, StepEnds, Done, Inv, PolicyRestored
    <2>3. QED
      BY <1>1, <2>1, <2>2 DEF Inv
  <1>9. QED
    BY <1>2, <1>8 DEF Next

\* The status the port sees of the other jobs is left alone.
LEMMA StatusStep ==
  ASSUME TypeOK, NEW j \in Job, NEW ph, phase' = [phase EXCEPT ![j] = ph]
  PROVE  /\ phase'[j] = ph
         /\ [i \in Job |-> StatusOf(i)'] = [[i \in Job |-> StatusOf(i)] EXCEPT ![j] = StatusOf(j)']
  BY DEF TypeOK, StatusOf

LEMMA PortStep ==
  ASSUME Inv, [Next]_vars
  PROVE  [Port!Next]_(Port!vars)
  <1> DEFINE status == [i \in Job |-> StatusOf(i)]
  <1>1. ASSUME NEW j \in Job, Submit(j) PROVE Port!Submit(j)
    <2>1. PICK ph \in {"stepping", "refused"} : phase' = [phase EXCEPT ![j] = ph]
      BY <1>1 DEF Submit
    <2>2. StatusOf(j) = "unused" /\ StatusOf(j)' \in {"accepted", "refused"}
      BY <1>1, <2>1, StatusStep DEF Submit, StatusOf, Inv
    <2>3. QED
      BY <1>1, <2>1, <2>2, StatusStep DEF Submit, Port!Submit, Inv
  <1>2. ASSUME NEW j \in Job, StepEnds(j) PROVE Port!Finish(j)
    <2>1. phase[j] = "stepping" /\ outcome[j] = "none"
      BY <1>2, HeadPhase DEF StepEnds, Inv, OutcomeOK
    <2>2. status' = status
      BY <1>2, <2>1, StatusStep DEF StepEnds, StatusOf, Inv, TypeOK
    <2>3. StatusOf(j) = "accepted"
      BY <2>1 DEF StatusOf
    <2>4. QED
      BY <1>2, <2>1, <2>2, <2>3 DEF StepEnds, Port!Finish, Port!Outcome
  <1>3. ASSUME NEW j \in Job, Done(j) PROVE Port!Answer(j)
    <2>1. phase[j] = "done" /\ outcome[j] # "none"
      BY <1>3, HeadPhase DEF Done, Inv, OutcomeOK
    <2>2. phase'[j] = "called"
      BY <1>3, StatusStep DEF Done, Inv
    <2>3. StatusOf(j) = "accepted" /\ StatusOf(j)' = "answered"
      BY <2>1, <2>2 DEF StatusOf
    <2>4. QED
      BY <1>3, <2>1, <2>3, StatusStep DEF Done, Port!Answer, Inv
  <1>4. ASSUME NEW j \in Job, StepSuspends(j) \/ Resume(j) PROVE UNCHANGED Port!vars
    <2>1. phase[j] \in {"stepping", "waiting"}
      BY <1>4, HeadPhase DEF StepSuspends, Resume
    <2>2. status' = status
      BY <1>4, <2>1, StatusStep DEF StepSuspends, Resume, StatusOf, Inv, TypeOK
    <2>3. QED
      BY <1>4, <2>2 DEF StepSuspends, Resume, Port!vars
  <1>5. CASE Start \/ Stop \/ UNCHANGED vars
    <2>1. UNCHANGED <<phase, outcome, calls>>
      BY <1>5 DEF Start, Stop, vars
    <2>2. QED
      BY <2>1 DEF Port!vars, StatusOf
  <1>6. QED
    BY <1>1, <1>2, <1>3, <1>4, <1>5 DEF Next, MainContext, Port!Next

LEMMA InvAlways == Spec => []Inv
  BY InitInv, InvStep, PTL DEF Spec

\* The native scheduler keeps the promise of core.ports.Scheduler: a job is
\* refused or accepted, ends once, and only then is answered, once, over any
\* number of starts and stops.
THEOREM NativeImplementsPort == Spec => ImplementsPort
  <1>1. Init => Port!Init
    BY DEF Init, Port!Init, StatusOf
  <1>2. Inv /\ [Next]_vars => [Port!Next]_(Port!vars)
    BY PortStep
  <1>3. QED
    BY <1>1, <1>2, InvAlways, PTL DEF Spec, ImplementsPort, Port!Spec

-----------------------------------------------------------------------------
(* The application.                                                        *)

LEMMA AppStep ==
  ASSUME Job = PageJob \cup {"health"}, Inv, [AppNext]_appVars
  PROVE  [Next]_vars
  <1>1. CASE BuildPage
    <2>1. Len(order) + 1 \in 1 .. 6
      BY <1>1 DEF BuildPage, Loads, Inv, TypeOK
    <2>2. Loads[Len(order) + 1] \in Job
      BY <2>1 DEF Loads, PageJob
    <2>3. QED
      BY <1>1, <2>2 DEF BuildPage, Next
  <1>2. CASE MainStarts \/ MainEnds \/ ResourcesMissing \/ Quit
    BY <1>2 DEF MainStarts, MainEnds, ResourcesMissing, Quit, Next, vars
  <1>3. CASE ToolAnswers
    BY <1>3 DEF ToolAnswers, Next, PageJob
  <1>4. CASE MainLoop
    <2>1. \E j \in Job : StepSuspends(j) \/ StepEnds(j) \/ Done(j)
      BY <1>4 DEF MainLoop, HardwareAwaits, HardwareEnds, DashboardAnswered, HealthAnswered,
        HardwareAnswered, LoadRuns, PageAnswered, Delivers, PageJob
    <2>2. QED
      BY <2>1 DEF Next, MainContext
  <1>5. CASE UNCHANGED appVars
    BY <1>5 DEF appVars, vars
  <1>6. QED
    BY <1>1, <1>2, <1>3, <1>4, <1>5 DEF AppNext

\* Whatever the pages submit and whenever the user quits, the application uses
\* the scheduler as its specification allows.
LEMMA AppUsesScheduler ==
  ASSUME Job = PageJob \cup {"health"}
  PROVE  AppSpec => Spec
  <1>1. AppInit => Init
    BY DEF AppInit
  <1>2. Inv /\ [AppNext]_appVars => [Next]_vars /\ Inv'
    BY AppStep, InvStep
  <1>3. QED
    BY <1>1, <1>2, InitInv, PTL DEF AppSpec, Spec

\* The pages' callbacks come at most once, with their own coroutine's outcome.
THEOREM AppImplementsPort ==
  ASSUME Job = PageJob \cup {"health"}
  PROVE  AppSpec => ImplementsPort
  BY AppUsesScheduler, NativeImplementsPort, PTL

\* Outside start() and stop() the process has its own asyncio policy back: the
\* finally of main() runs stop() whether the window was built or not.
THEOREM AppRestoresPolicy ==
  ASSUME Job = PageJob \cup {"health"}
  PROVE  AppSpec => []PolicyRestored
  <1>1. Inv => PolicyRestored
    BY DEF Inv
  <1>2. QED
    BY <1>1, AppUsesScheduler, InvAlways, PTL

-----------------------------------------------------------------------------
(* The hardware page's panels.                                             *)

\* A gather that ended well knows what became of both tools, and a page that
\* is ready shows it; nothing but its own job changes either.
PanelsInv ==
    /\ tools \in [Tool -> Inventory]
    /\ state \in [PageJob -> {"loading", "ready", "unavailable", "error"}]
    /\ outcome["hardware"] = "ok" => gathered = tools
    /\ PanelsDegradeAlone

\* A callback of another page leaves the hardware page alone.
LEMMA OtherPages ==
  ASSUME PanelsInv, NEW p \in PageJob, p # "hardware", NEW s,
         state' = [state EXCEPT ![p] = s], UNCHANGED <<panel, tools, gathered, outcome>>,
         s \in {"ready", "unavailable", "error"}
  PROVE  PanelsInv'
  BY DEF PanelsInv, PanelsDegradeAlone

LEMMA PanelsStep ==
  ASSUME Job = PageJob \cup {"health"}, Inv, PanelsInv, [AppNext]_appVars
  PROVE  PanelsInv'
  <1> USE DEF PageJob
  <1>1. CASE MainStarts \/ ResourcesMissing \/ BuildPage \/ Quit \/ MainEnds \/ ToolAnswers
             \/ UNCHANGED appVars
    <2>1. UNCHANGED <<tools, state, panel, gathered, outcome>>
      BY <1>1 DEF MainStarts, ResourcesMissing, BuildPage, Quit, MainEnds, ToolAnswers, Start,
        Stop, Submit, Resume, appVars, pageVars, hardwareVars, vars
    <2>2. QED
      BY <2>1 DEF PanelsInv, PanelsDegradeAlone
  <1>2. CASE HardwareAwaits
    <2>1. outcome["hardware"] = "none"
      BY <1>2, HeadPhase DEF HardwareAwaits, StepSuspends, Inv, OutcomeOK
    <2>2. QED
      BY <1>2, <2>1 DEF HardwareAwaits, StepSuspends, pageVars, PanelsInv, PanelsDegradeAlone
  <1>3. CASE HardwareEnds
    <2>1. PICK o \in {"ok", "error"} : outcome' = [outcome EXCEPT !["hardware"] = o]
      BY <1>3 DEF HardwareEnds, StepEnds
    <2>2. outcome'["hardware"] = o
      BY <2>1 DEF Inv, TypeOK
    <2>3. Outcome(3) = tools
      BY DEF Outcome, Tool, PanelsInv
    <2>4. QED
      BY <1>3, <2>2, <2>3 DEF HardwareEnds, pageVars, PanelsInv, PanelsDegradeAlone
  <1>4. ASSUME NEW j \in Job, LoadRuns(j) PROVE PanelsInv'
    <2>1. outcome'["hardware"] = outcome["hardware"]
      BY <1>4 DEF LoadRuns, StepEnds, Inv, TypeOK
    <2>2. QED
      BY <1>4, <2>1 DEF LoadRuns, pageVars, hardwareVars, PanelsInv, PanelsDegradeAlone
  <1>5. CASE HardwareAnswered
    <2>1. UNCHANGED <<tools, gathered, outcome>>
      BY <1>5 DEF HardwareAnswered, Delivers, Done, hardwareVars
    <2>2. CASE outcome["hardware"] = "ok"
      BY <1>5, <2>1, <2>2 DEF HardwareAnswered, PanelsInv, PanelsDegradeAlone
    <2>3. CASE outcome["hardware"] # "ok"
      BY <1>5, <2>1, <2>3 DEF HardwareAnswered, FailsPage, PanelsInv, PanelsDegradeAlone
    <2>4. QED
      BY <2>2, <2>3
  <1>6. CASE DashboardAnswered
    <2>1. PICK s \in {"ready", "unavailable", "error"} : state' = [state EXCEPT !["identity"] = s]
      BY <1>6 DEF DashboardAnswered, FailsPage
    <2>2. QED
      BY <1>6, <2>1, OtherPages DEF DashboardAnswered, Delivers, Done, hardwareVars
  <1>7. CASE HealthAnswered
    BY <1>7 DEF HealthAnswered, Delivers, Done, hardwareVars, PanelsInv, PanelsDegradeAlone
  <1>8. ASSUME NEW j \in Job, PageAnswered(j) PROVE PanelsInv'
    <2>1. PICK s \in {"ready", "unavailable", "error"} : state' = [state EXCEPT ![j] = s]
      BY <1>8 DEF PageAnswered, FailsPage
    <2>2. QED
      BY <1>8, <2>1, OtherPages DEF PageAnswered, Delivers, Done, hardwareVars
  <1>9. QED
    BY <1>1, <1>2, <1>3, <1>4, <1>5, <1>6, <1>7, <1>8 DEF AppNext, MainLoop

\* A hardware page that is ready shows, for each tool, its list or its own
\* failure: a missing or failing tool costs the other one nothing.
THEOREM AppDegradesPerPanel ==
  ASSUME Job = PageJob \cup {"health"}
  PROVE  AppSpec => []PanelsDegradeAlone
  <1>1. AppInit => PanelsInv
    BY DEF AppInit, Init, PageJob, PanelsInv, PanelsDegradeAlone
  <1>2. Inv /\ PanelsInv /\ [AppNext]_appVars => PanelsInv'
    BY PanelsStep
  <1>3. PanelsInv => PanelsDegradeAlone
    BY DEF PanelsInv
  <1>4. QED
    BY <1>1, <1>2, <1>3, AppUsesScheduler, InvAlways, PTL DEF AppSpec

-----------------------------------------------------------------------------
(* The dashboard's identity rows.                                          *)

\* Handle h is in the queue q, with nothing but steps in front of it.
BehindSteps(q, h) ==
    \E n \in 1 .. Len(q) : q[n] = h /\ \A m \in 1 .. n - 1 : q[m].kind = "step"

\* The identity rows' job is submitted first and ends in its first step, so
\* that no job runs before it and no callback is queued in front of its own.
IdentityFirst ==
    /\ app = "building" => started
    /\ order = <<>> <=> phase["identity"] = "unused"
    /\ phase["identity"] \in {"unused", "stepping", "done", "called"}
    /\ phase["identity"] = "unused" => \A j \in Job : phase[j] = "unused"
    /\ phase["identity"] = "stepping" =>
           Pops(Handle("identity", "step")) /\ \A j \in Job : phase[j] \in {"unused", "stepping"}
    /\ phase["identity"] = "done" =>
           BehindSteps(handles, Handle("identity", "done")) /\ \A j \in Job : phase[j] # "called"

\* The page's state is that of its rows, and the card's two texts go together.
RowsDecide ==
    /\ phase["identity"] = "called" =>
           (state["identity"] = "ready" <=> outcome["identity"] = "ok")
    /\ card.score = card.coverage

AppInv == Inv /\ PanelsInv /\ IdentityFirst /\ RowsDecide

\* While a job is not done, no handle on the main context is a callback of it.
LEMMA OnlySteps ==
  ASSUME Inv, \A j \in Job : phase[j] # "done", NEW n \in 1 .. Len(handles)
  PROVE  handles[n].kind = "step"
  <1>1. handles[n] \in OnContext
    BY DEF Inv, HandlesOK, Lists
  <1>2. QED
    BY <1>1 DEF OnContext, HandleOf, Handle, Runnable

\* No job can go on, and no handle is on the main context.
LEMMA EmptyContext ==
  ASSUME Inv, \A j \in Job : phase[j] = "unused"
  PROVE  handles = <<>>
  <1>1. OnContext = {}
    BY DEF OnContext, Runnable
  <1>2. handles \in Seq({})
    BY <1>1 DEF Inv, HandlesOK, Lists
  <1>3. QED
    BY <1>2

\* Handles queued behind do not matter.
LEMMA BehindAppend ==
  ASSUME NEW q \in Seq(HandleSet), NEW h, NEW x \in HandleSet, BehindSteps(q, h)
  PROVE  BehindSteps(Append(q, x), h)
  <1> DEFINE r == Append(q, x)
  <1>1. PICK n \in 1 .. Len(q) : q[n] = h /\ \A m \in 1 .. n - 1 : q[m].kind = "step"
    BY DEF BehindSteps
  <1>2. /\ Len(r) \in Nat /\ Len(q) \in Nat /\ Len(q) <= Len(r)
        /\ \A m \in 1 .. Len(q) : r[m] = q[m]
    OBVIOUS
  <1>3. n \in 1 .. Len(r) /\ r[n] = h
    BY <1>1, <1>2
  <1>4. \A m \in 1 .. n - 1 : m \in 1 .. Len(q)
    BY <1>2
  <1>5. QED
    BY <1>1, <1>2, <1>3, <1>4 DEF BehindSteps

\* What is behind steps is at the head or behind a step, which may go.
LEMMA BehindTail ==
  ASSUME NEW q \in Seq(HandleSet), NEW h, BehindSteps(q, h), q # <<>>, Head(q) # h
  PROVE  Head(q).kind = "step" /\ BehindSteps(Tail(q), h)
  <1> DEFINE r == Tail(q)
  <1>1. PICK n \in 1 .. Len(q) : q[n] = h /\ \A m \in 1 .. n - 1 : q[m].kind = "step"
    BY DEF BehindSteps
  <1>2. Len(q) \in Nat \ {0} /\ Head(q) = q[1]
    OBVIOUS
  <1>3. Len(r) = Len(q) - 1 /\ \A m \in 1 .. Len(r) : r[m] = q[m + 1]
    BY <1>2
  <1>4. n # 1 /\ 1 \in 1 .. n - 1
    BY <1>1, <1>2
  <1>5. n - 1 \in 1 .. Len(r) /\ r[n - 1] = h
    <2>1. n - 1 \in 1 .. Len(r) /\ (n - 1) + 1 = n
      BY <1>2, <1>3, <1>4
    <2>2. r[n - 1] = q[(n - 1) + 1]
      BY <1>3, <2>1
    <2>3. QED
      BY <1>1, <2>1, <2>2
  <1>6. \A m \in 1 .. (n - 1) - 1 : r[m].kind = "step"
    <2> TAKE m \in 1 .. (n - 1) - 1
    <2>1. m \in 1 .. Len(r) /\ m + 1 \in 1 .. n - 1
      BY <1>2, <1>3, <1>5
    <2>2. QED
      BY <1>1, <1>3, <2>1
  <1>7. QED
    BY <1>1, <1>2, <1>4, <1>5, <1>6 DEF BehindSteps

\* What is queued later goes behind the identity rows' handle, and what runs
\* before their callback is a step.
LEMMA IdentityFirstStep ==
  ASSUME Job = PageJob \cup {"health"}, Inv, IdentityFirst, [AppNext]_appVars
  PROVE  IdentityFirst'
  <1> "identity" \in Job
    BY DEF PageJob
  <1> DEFINE ofRows(k) == Handle("identity", k)
  <1>1. ASSUME NEW j \in Job, NEW k \in {"step", "done"}
        PROVE  Handle(j, k) \in HandleSet /\ (Handle(j, k) = ofRows(k) => j = "identity")
    BY DEF Handle, HandleSet
  <1>2. CASE MainStarts \/ ResourcesMissing \/ Quit \/ MainEnds \/ UNCHANGED appVars
    <2>1. UNCHANGED <<handles, phase, order>>
      BY <1>2 DEF MainStarts, ResourcesMissing, Quit, MainEnds, Start, Stop, appVars, vars
    <2>2. app' = "building" => started'
      BY <1>2 DEF MainStarts, ResourcesMissing, Quit, MainEnds, Start, appVars, vars, IdentityFirst
    <2>3. QED
      BY <2>1, <2>2 DEF IdentityFirst, BehindSteps, Pops
  <1>3. CASE BuildPage
    <2> DEFINE n == Len(order) + 1
               j == Loads[n]
    <2>1. n \in 1 .. 6 /\ order \in Seq(Job) /\ (order = <<>> <=> n = 1)
      BY <1>3 DEF BuildPage, Loads, Inv, TypeOK
    <2>2. j \in Job /\ (j = "identity" <=> n = 1)
      BY <2>1 DEF Loads, PageJob
    <2>3. /\ started /\ phase[j] = "unused" /\ phase' = [phase EXCEPT ![j] = "stepping"]
          /\ handles' = Append(handles, Handle(j, "step")) /\ order' = Append(order, j)
          /\ app = "building" /\ started'
      BY <1>3 DEF BuildPage, Submit, IdentityFirst
    <2>4. order' # <<>>
      BY <2>1, <2>3
    <2>5. phase'[j] = "stepping" /\ \A i \in Job : i # j => phase'[i] = phase[i]
      BY <2>2, <2>3 DEF Inv, TypeOK
    <2>6. CASE n = 1
      <3>1. \A i \in Job : phase[i] = "unused"
        BY <2>1, <2>6 DEF IdentityFirst
      <3>2. handles = <<>>
        BY <3>1, EmptyContext
      <3>3. Pops(Handle("identity", "step"))'
        BY <2>2, <2>3, <2>6, <3>2 DEF Pops
      <3>4. QED
        BY <2>2, <2>3, <2>4, <2>5, <2>6, <3>1, <3>3 DEF IdentityFirst
    <2>7. CASE n # 1
      <3>1. phase["identity"] # "unused" /\ phase'["identity"] = phase["identity"]
        BY <2>1, <2>2, <2>5, <2>7 DEF IdentityFirst
      <3>2. phase["identity"] = "stepping" => Pops(ofRows("step"))'
        BY <2>3 DEF IdentityFirst, Pops, Inv, TypeOK
      <3>3. phase["identity"] = "done" => BehindSteps(handles', ofRows("done"))
        BY <1>1, <2>2, <2>3, BehindAppend DEF IdentityFirst, Inv, TypeOK, HandleSet
      <3>4. \A i \in Job : phase'[i] = phase[i] \/ phase'[i] = "stepping"
        BY <2>5
      <3>5. QED
        BY <2>3, <2>4, <3>1, <3>2, <3>3, <3>4 DEF IdentityFirst
    <2>8. QED
      BY <2>6, <2>7
  <1>4. CASE ToolAnswers
    <2>1. /\ phase["hardware"] = "waiting" /\ phase' = [phase EXCEPT !["hardware"] = "stepping"]
          /\ handles' = Append(handles, Handle("hardware", "step"))
          /\ UNCHANGED <<app, started, order>>
      BY <1>4 DEF ToolAnswers, Resume
    <2>2. "hardware" \in Job
      BY DEF PageJob
    <2>3. \A i \in Job : i # "hardware" => phase'[i] = phase[i]
      BY <2>1 DEF Inv, TypeOK
    <2>4. phase'["hardware"] = "stepping"
      BY <2>1, <2>2 DEF Inv, TypeOK
    <2>5. phase["identity"] \in {"done", "called"} /\ phase'["identity"] = phase["identity"]
      BY <2>1, <2>2, <2>3 DEF IdentityFirst
    <2>6. phase["identity"] = "done" => BehindSteps(handles', ofRows("done"))
      BY <1>1, <2>1, <2>2, BehindAppend DEF IdentityFirst, Inv, TypeOK, HandleSet
    <2>7. QED
      BY <2>1, <2>3, <2>4, <2>5, <2>6 DEF IdentityFirst
  <1>5. ASSUME NEW j \in Job, j # "identity", Pops(Handle(j, "step")),
               UNCHANGED <<app, started, order>>,
               \/ handles' = Tail(handles) /\ phase' = [phase EXCEPT ![j] = "waiting"]
               \/ /\ handles' = Append(Tail(handles), Handle(j, "done"))
                  /\ phase' = [phase EXCEPT ![j] = "done"]
        PROVE  IdentityFirst'
    <2>1. phase[j] = "stepping" /\ Handle(j, "step") # ofRows("step")
      BY <1>1, <1>5, HeadPhase
    <2>2. phase["identity"] \in {"done", "called"}
      BY <1>5, <2>1 DEF IdentityFirst, Pops
    <2>3. /\ phase'["identity"] = phase["identity"]
          /\ \A i \in Job : phase'[i] = "called" => phase[i] = "called"
      BY <1>5 DEF Inv, TypeOK
    <2>4. CASE phase["identity"] = "called"
      BY <1>5, <2>3, <2>4 DEF IdentityFirst
    <2>5. CASE phase["identity"] = "done"
      <3>1. BehindSteps(handles, ofRows("done")) /\ handles # <<>> /\ Head(handles) # ofRows("done")
        BY <1>5, <2>5 DEF IdentityFirst, Pops, Handle
      <3>2. handles \in Seq(HandleSet) /\ Tail(handles) \in Seq(HandleSet)
        BY <3>1 DEF Inv, TypeOK, HandleSet
      <3>3. BehindSteps(handles', ofRows("done"))
        <4>1. BehindSteps(Tail(handles), ofRows("done"))
          BY <3>1, <3>2, BehindTail
        <4>2. BehindSteps(Append(Tail(handles), Handle(j, "done")), ofRows("done"))
          BY <1>1, <3>2, <4>1, BehindAppend
        <4>3. handles' \in {Tail(handles), Append(Tail(handles), Handle(j, "done"))}
          BY <1>5
        <4>4. QED
          BY <4>1, <4>2, <4>3, Zenon
      <3>4. QED
        BY <1>5, <2>3, <2>5, <3>3 DEF IdentityFirst
    <2>6. QED
      BY <2>2, <2>4, <2>5
  <1>6. CASE HardwareAwaits \/ HardwareEnds
    BY <1>5, <1>6 DEF HardwareAwaits, HardwareEnds, StepSuspends, StepEnds, PageJob
  <1>7. ASSUME NEW j \in Job, LoadRuns(j) PROVE IdentityFirst'
    <2>1. CASE j # "identity"
      BY <1>5, <1>7, <2>1 DEF LoadRuns, StepEnds
    <2>2. CASE j = "identity"
      <3>1. /\ Pops(ofRows("step")) /\ handles' = Append(Tail(handles), ofRows("done"))
            /\ phase' = [phase EXCEPT !["identity"] = "done"] /\ UNCHANGED <<app, started, order>>
        BY <1>7, <2>2 DEF LoadRuns, StepEnds
      <3>2. phase["identity"] = "stepping" /\ phase'["identity"] = "done"
        BY <3>1, HeadPhase DEF Inv, TypeOK
      <3>3. \A i \in Job : phase[i] \in {"unused", "stepping"} /\ phase'[i] # "called"
        BY <3>1, <3>2 DEF IdentityFirst, Inv, TypeOK
      <3>4. \A m \in 1 .. Len(handles) : handles[m].kind = "step"
        BY <3>3, OnlySteps
      <3>5. handles \in Seq(HandleSet) /\ handles # <<>>
        BY <3>1 DEF Pops, Inv, TypeOK, HandleSet
      <3>6. Len(handles') = Len(handles) /\ handles'[Len(handles)] = ofRows("done")
        BY <3>1, <3>5
      <3>7. \A m \in 1 .. Len(handles) - 1 : handles'[m] = handles[m + 1]
        BY <3>1, <3>5
      <3>8. Len(handles) \in 1 .. Len(handles) /\ \A m \in 1 .. Len(handles) - 1 : handles'[m].kind = "step"
        BY <3>4, <3>5, <3>7
      <3>9. BehindSteps(handles', ofRows("done"))
        BY <3>6, <3>8 DEF BehindSteps
      <3>10. QED
        BY <3>1, <3>2, <3>3, <3>9 DEF IdentityFirst
    <2>3. QED
      BY <2>1, <2>2
  <1>8. ASSUME NEW j \in Job, Delivers(j) PROVE IdentityFirst'
    <2>1. /\ Pops(Handle(j, "done")) /\ phase' = [phase EXCEPT ![j] = "called"]
          /\ handles' = Tail(handles) /\ UNCHANGED <<app, started, order>>
      BY <1>8 DEF Delivers, Done
    <2>2. phase[j] = "done" /\ phase'[j] = "called" /\ \A i \in Job : i # j => phase'[i] = phase[i]
      BY <2>1, HeadPhase DEF Inv, TypeOK
    <2>3. phase["identity"] \in {"done", "called"}
      BY <2>2 DEF IdentityFirst
    <2>4. phase["identity"] = "done" => j = "identity"
      <3> SUFFICES ASSUME phase["identity"] = "done", j # "identity" PROVE FALSE
        OBVIOUS
      <3>1. BehindSteps(handles, ofRows("done")) /\ handles # <<>> /\ Head(handles) # ofRows("done")
        BY <2>1 DEF IdentityFirst, Pops, Handle
      <3>2. Head(handles).kind = "step"
        BY <3>1, BehindTail DEF Inv, TypeOK, HandleSet
      <3>3. QED
        BY <2>1, <3>2 DEF Pops, Handle
    <2>5. phase'["identity"] = "called"
      BY <2>2, <2>3, <2>4
    <2>6. QED
      BY <2>1, <2>3, <2>5 DEF IdentityFirst
  <1>9. CASE DashboardAnswered \/ HealthAnswered \/ HardwareAnswered \/ \E j \in Job : PageAnswered(j)
    BY <1>8, <1>9 DEF DashboardAnswered, HealthAnswered, HardwareAnswered, PageAnswered, PageJob
  <1>10. QED
    BY <1>2, <1>3, <1>4, <1>6, <1>7, <1>9 DEF AppNext, MainLoop

\* Only their own callback makes a page ready or not, and only with its outcome.
LEMMA RowsDecideStep ==
  ASSUME Job = PageJob \cup {"health"}, AppInv, [AppNext]_appVars
  PROVE  RowsDecide'
  <1> "identity" \in Job
    BY DEF PageJob
  <1>1. CASE MainStarts \/ ResourcesMissing \/ BuildPage \/ Quit \/ MainEnds \/ ToolAnswers
             \/ UNCHANGED appVars
    <2>1. UNCHANGED <<state, card, outcome>>
      BY <1>1 DEF MainStarts, ResourcesMissing, BuildPage, Quit, MainEnds, ToolAnswers, Start,
        Stop, Submit, Resume, appVars, pageVars, vars
    <2>2. phase'["identity"] = "called" => phase["identity"] = "called"
      BY <1>1 DEF MainStarts, ResourcesMissing, BuildPage, Quit, MainEnds, ToolAnswers, Start,
        Stop, Submit, Resume, appVars, vars, AppInv, Inv, TypeOK
    <2>3. QED
      BY <2>1, <2>2 DEF AppInv, RowsDecide
  <1>2. ASSUME NEW j \in Job, StepSuspends(j) \/ StepEnds(j), UNCHANGED <<state, card>>
        PROVE  RowsDecide'
    <2>1. phase[j] = "stepping" /\ phase'[j] # "called" /\ \A i \in Job : i # j => phase'[i] = phase[i]
      BY <1>2, HeadPhase DEF StepSuspends, StepEnds, AppInv, Inv, TypeOK
    <2>2. \A i \in Job : i # j => outcome'[i] = outcome[i]
      BY <1>2 DEF StepSuspends, StepEnds, AppInv, Inv, TypeOK
    <2>3. QED
      BY <1>2, <2>1, <2>2 DEF AppInv, RowsDecide
  <1>3. CASE HardwareAwaits \/ HardwareEnds \/ \E j \in Job : LoadRuns(j)
    BY <1>2, <1>3 DEF HardwareAwaits, HardwareEnds, LoadRuns, pageVars, PageJob
  <1>4. CASE DashboardAnswered
    <2>1. UNCHANGED <<card, outcome>>
      BY <1>4 DEF DashboardAnswered, Delivers, Done
    <2>2. state'["identity"] = "ready" <=> outcome["identity"] = "ok"
      BY <1>4 DEF DashboardAnswered, FailsPage, AppInv, PanelsInv, PageJob
    <2>3. QED
      BY <2>1, <2>2 DEF AppInv, RowsDecide
  <1>5. ASSUME NEW j \in Job, j # "identity", Delivers(j), state'["identity"] = state["identity"],
               card'.score = card'.coverage
        PROVE  RowsDecide'
    <2>1. UNCHANGED outcome /\ phase'["identity"] = phase["identity"]
      BY <1>5 DEF Delivers, Done, AppInv, Inv, TypeOK
    <2>2. QED
      BY <1>5, <2>1 DEF AppInv, RowsDecide
  <1>6. CASE HealthAnswered
    BY <1>5, <1>6 DEF HealthAnswered, CardOf, AppInv, RowsDecide
  <1>7. CASE HardwareAnswered
    <2>1. state'["identity"] = state["identity"]
      BY <1>7 DEF HardwareAnswered, FailsPage, AppInv, PanelsInv, PageJob
    <2>2. QED
      BY <1>5, <1>7, <2>1 DEF HardwareAnswered, PageJob, AppInv, RowsDecide
  <1>8. ASSUME NEW j \in Job, PageAnswered(j) PROVE RowsDecide'
    <2>1. state'["identity"] = state["identity"]
      BY <1>8 DEF PageAnswered, FailsPage, AppInv, PanelsInv, PageJob
    <2>2. QED
      BY <1>5, <1>8, <2>1 DEF PageAnswered, AppInv, RowsDecide
  <1>9. QED
    BY <1>1, <1>3, <1>4, <1>6, <1>7, <1>8 DEF AppNext, MainLoop

\* No callback runs before that of the identity rows, however quick the other
\* pages' sources are; these rows alone decide the dashboard's page; and its
\* health card is shown with the coverage of its score.
THEOREM AppShowsIdentityFirst ==
  ASSUME Job = PageJob \cup {"health"}
  PROVE  AppSpec => []DashboardWhole
  <1> "identity" \in Job
    BY DEF PageJob
  <1>1. AppInit => AppInv
    <2> SUFFICES ASSUME AppInit PROVE AppInv
      OBVIOUS
    <2>1. Inv
      BY InitInv DEF AppInit
    <2>2. PanelsInv
      BY DEF AppInit, Init, PageJob, PanelsInv, PanelsDegradeAlone
    <2>3. IdentityFirst /\ RowsDecide
      BY DEF AppInit, Init, NoCard, IdentityFirst, RowsDecide
    <2>4. QED
      BY <2>1, <2>2, <2>3 DEF AppInv
  <1>2. AppInv /\ [AppNext]_appVars => AppInv'
    BY AppStep, InvStep, PanelsStep, IdentityFirstStep, RowsDecideStep DEF AppInv
  <1>3. AppInv => DashboardWhole
    BY DEF AppInv, IdentityFirst, RowsDecide, DashboardWhole
  <1>4. QED
    BY <1>1, <1>2, <1>3, PTL DEF AppSpec

-----------------------------------------------------------------------------
(* Spinners: the part of PagesSettle that fairness has no say in.          *)

\* A page that is still loading once the window is built has a handle on the
\* main context, or awaits a tool that ends.
SpinnersHaveJobs ==
    app = "running" =>
        \A p \in PageJob :
            state[p] = "loading" =>
                \/ \E n \in 1 .. Len(handles) : handles[n].job = p
                \/ p = "hardware" /\ phase[p] = "waiting"

\* The main loop starts once every page has submitted its load, on a scheduler
\* that refuses none; only the hardware page's suspends; and the callback of a
\* page takes it off its spinner.
LoadsOK ==
    /\ app = "launched" => order = <<>>
    /\ app = "building" => started
    /\ app = "running" => Len(order) = Len(Loads)
    /\ \A i \in 1 .. Len(Loads) : i <= Len(order) => phase[Loads[i]] # "unused"
    /\ \A j \in Job : phase[j] # "refused" /\ (phase[j] = "waiting" => j = "hardware")
    /\ \A p \in PageJob : phase[p] = "called" => state[p] # "loading"

LEMMA LoadsList ==
  /\ Len(Loads) = 6
  /\ \A i \in 1 .. 6 : Loads[i] \in PageJob \cup {"health"}
  /\ \A p \in PageJob : \E i \in 1 .. 6 : Loads[i] = p
  <1>1. /\ Len(Loads) = 6
        /\ Loads[1] = "identity" /\ Loads[2] = "health" /\ Loads[3] = "battery"
        /\ Loads[4] = "hardware" /\ Loads[5] = "firmware" /\ Loads[6] = "storage"
    BY DEF Loads
  <1>2. 1 .. 6 = {1, 2, 3, 4, 5, 6}
    OBVIOUS
  <1>3. QED
    BY <1>1, <1>2 DEF PageJob

\* Only job j goes on, and is neither refused nor answered.
GoesOn(j) ==
    /\ \A i \in Job : i # j => phase'[i] = phase[i]
    /\ phase'[j] \in {"stepping", "done"} \/ (j = "hardware" /\ phase'[j] = "waiting")

LEMMA LoadGoesOn ==
  ASSUME Job = PageJob \cup {"health"}, LoadsOK, NEW j \in Job, GoesOn(j),
         app' = app, order' = order, state' = state, started' = started
  PROVE  LoadsOK'
  <1>1. \A i \in 1 .. Len(Loads) : Loads[i] \in Job
    BY LoadsList
  <1>2. \A i \in 1 .. Len(Loads) : phase'[Loads[i]] = "unused" => phase[Loads[i]] = "unused"
    BY <1>1 DEF GoesOn
  <1>3. \A i \in Job : phase'[i] = "called" => phase[i] = "called"
    BY DEF GoesOn
  <1>4. PageJob \subseteq Job
    OBVIOUS
  <1>5. QED
    BY <1>2, <1>3, <1>4 DEF LoadsOK, GoesOn

\* So does one that is answered, and its page leaves its spinner.
LEMMA LoadAnswered ==
  ASSUME Inv, LoadsOK, NEW j \in Job, Delivers(j), Job = PageJob \cup {"health"},
         j \in PageJob => state'[j] # "loading",
         \A p \in PageJob : p # j => state'[p] = state[p]
  PROVE  LoadsOK'
  <1>1. /\ phase'[j] = "called" /\ \A i \in Job : i # j => phase'[i] = phase[i]
        /\ UNCHANGED <<app, order, started>>
    BY DEF Delivers, Done, Inv, TypeOK
  <1>2. \A i \in 1 .. Len(Loads) : Loads[i] \in Job
    BY LoadsList
  <1>3. \A i \in 1 .. Len(Loads) : phase'[Loads[i]] = "unused" => phase[Loads[i]] = "unused"
    BY <1>1, <1>2
  <1>4. QED
    BY <1>1, <1>3 DEF LoadsOK

LEMMA LoadsStep ==
  ASSUME Job = PageJob \cup {"health"}, Inv, PanelsInv, LoadsOK, [AppNext]_appVars
  PROVE  LoadsOK'
  <1>t. state \in [PageJob -> {"loading", "ready", "unavailable", "error"}]
    BY DEF PanelsInv
  <1>1. CASE MainStarts \/ ResourcesMissing \/ Quit \/ MainEnds \/ UNCHANGED appVars
    <2>1. UNCHANGED <<phase, state, order>>
      BY <1>1 DEF MainStarts, ResourcesMissing, Quit, MainEnds, Start, Stop, appVars, pageVars, vars
    <2>2. /\ app' = "launched" => app = "launched"
          /\ app' = "building" => started'
          /\ app' = "running" => app = "running"
      BY <1>1 DEF MainStarts, ResourcesMissing, Quit, MainEnds, Start, appVars, vars, LoadsOK
    <2>3. QED
      BY <2>1, <2>2 DEF LoadsOK
  <1>2. CASE BuildPage
    <2> DEFINE j == Loads[Len(order) + 1]
    <2>1. started /\ order \in Seq(Job) /\ Len(order) + 1 \in 1 .. 6
      <3>1. app = "building" /\ Len(order) < 6
        BY <1>2, LoadsList DEF BuildPage
      <3>2. started /\ order \in Seq(Job)
        BY <3>1 DEF LoadsOK, Inv, TypeOK
      <3>3. Len(order) \in Nat
        BY <3>2
      <3>4. QED
        BY <3>1, <3>2, <3>3
    <2>2. j \in Job
      BY <2>1, LoadsList
    <2>3. /\ phase'[j] = "stepping" /\ \A i \in Job : i # j => phase'[i] = phase[i]
          /\ order' = Append(order, j) /\ UNCHANGED <<started, state>>
      BY <1>2, <2>1, <2>2 DEF BuildPage, Submit, pageVars, Inv, TypeOK
    <2>4. Len(order') = Len(order) + 1 /\ Len(order) \in Nat
      BY <2>1, <2>2, <2>3
    <2>5. app' = IF Len(order) + 1 = 6 THEN "running" ELSE "building"
      BY <1>2, LoadsList DEF BuildPage
    <2>6. \A i \in 1 .. 6 : i <= Len(order') => phase'[Loads[i]] # "unused"
      <3> SUFFICES ASSUME NEW i \in 1 .. 6, i <= Len(order') PROVE phase'[Loads[i]] # "unused"
        OBVIOUS
      <3>1. CASE Loads[i] = j
        BY <2>3, <3>1
      <3>2. CASE Loads[i] # j
        <4>1. i <= Len(order) /\ Loads[i] \in Job
          BY <2>4, <3>2, LoadsList
        <4>2. phase[Loads[i]] # "unused"
          BY <4>1, LoadsList DEF LoadsOK
        <4>3. QED
          BY <2>3, <3>2, <4>1, <4>2
      <3>3. QED
        BY <3>1, <3>2
    <2>7. /\ \A i \in Job : phase'[i] # "refused" /\ (phase'[i] = "waiting" => i = "hardware")
          /\ \A p \in PageJob : phase'[p] = "called" => state'[p] # "loading"
      BY <2>3 DEF LoadsOK
    <2>8. QED
      BY <2>1, <2>3, <2>4, <2>5, <2>6, <2>7, LoadsList DEF LoadsOK
  <1>3. ASSUME NEW j \in Job, StepEnds(j), UNCHANGED <<app, state>> PROVE LoadsOK'
    <2>1. GoesOn(j)
      <3>1. phase'[j] = "done" /\ \A i \in Job : i # j => phase'[i] = phase[i]
        BY <1>3 DEF StepEnds, Inv, TypeOK
      <3>2. QED
        BY <3>1 DEF GoesOn
    <2>2. app' = app /\ order' = order /\ state' = state /\ started' = started
      BY <1>3 DEF StepEnds
    <2>3. QED
      BY <2>1, <2>2, LoadGoesOn
  <1>4. CASE HardwareAwaits \/ ToolAnswers
    <2>1. /\ "hardware" \in Job
          /\ app' = app /\ order' = order /\ state' = state /\ started' = started
      BY <1>4 DEF HardwareAwaits, ToolAnswers, StepSuspends, Resume, pageVars, PageJob
    <2>2. GoesOn("hardware")
      <3>1. /\ phase'["hardware"] \in {"waiting", "stepping"}
            /\ \A i \in Job : i # "hardware" => phase'[i] = phase[i]
        BY <1>4, <2>1 DEF HardwareAwaits, ToolAnswers, StepSuspends, Resume, Inv, TypeOK
      <3>2. QED
        BY <3>1 DEF GoesOn
    <2>3. QED
      BY <2>1, <2>2, LoadGoesOn
  <1>5. CASE HardwareEnds \/ \E j \in Job : LoadRuns(j)
    BY <1>3, <1>5 DEF HardwareEnds, LoadRuns, pageVars, PageJob
  <1>6. CASE DashboardAnswered
    <2>1. PICK s \in {"ready", "unavailable", "error"} : state' = [state EXCEPT !["identity"] = s]
      BY <1>6 DEF DashboardAnswered, FailsPage
    <2>2. QED
      BY <1>6, <1>t, <2>1, LoadAnswered DEF DashboardAnswered, PageJob
  <1>7. CASE HealthAnswered
    BY <1>7, LoadAnswered DEF HealthAnswered, PageJob
  <1>8. CASE HardwareAnswered
    <2>1. PICK s \in {"ready", "unavailable", "error"} : state' = [state EXCEPT !["hardware"] = s]
      BY <1>8 DEF HardwareAnswered, FailsPage
    <2>2. QED
      BY <1>8, <1>t, <2>1, LoadAnswered DEF HardwareAnswered, PageJob
  <1>9. ASSUME NEW j \in Job, PageAnswered(j) PROVE LoadsOK'
    <2>1. PICK s \in {"ready", "unavailable", "error"} : state' = [state EXCEPT ![j] = s]
      BY <1>9 DEF PageAnswered, FailsPage
    <2>2. QED
      BY <1>9, <1>t, <2>1, LoadAnswered DEF PageAnswered, PageJob
  <1>10. QED
    BY <1>1, <1>2, <1>4, <1>5, <1>6, <1>7, <1>8, <1>9 DEF AppNext, MainLoop

\* The window's pages and the scheduler: whatever the tools and the other
\* pages' reads come to, no page of a running application is left on a spinner
\* that nothing will end.
THEOREM AppSpinnersHaveJobs ==
  ASSUME Job = PageJob \cup {"health"}
  PROVE  AppSpec => []SpinnersHaveJobs
  <1>1. AppInit => PanelsInv /\ LoadsOK
    <2>1. AppInit => PanelsInv
      BY DEF AppInit, Init, PageJob, PanelsInv, PanelsDegradeAlone
    <2>2. AppInit => LoadsOK
      <3> SUFFICES ASSUME AppInit PROVE LoadsOK
        OBVIOUS
      <3>1. Len(order) = 0 /\ order = <<>> /\ app = "launched"
        BY DEF AppInit, Init
      <3>2. \A j \in Job : phase[j] = "unused"
        BY DEF AppInit, Init
      <3>3. PageJob \subseteq Job
        OBVIOUS
      <3>4. QED
        BY <3>1, <3>2, <3>3 DEF LoadsOK
    <2>3. QED
      BY <2>1, <2>2
  <1>2. Inv /\ PanelsInv /\ LoadsOK /\ [AppNext]_appVars => PanelsInv' /\ LoadsOK'
    BY PanelsStep, LoadsStep
  <1>3. Inv /\ LoadsOK => SpinnersHaveJobs
    <2> SUFFICES ASSUME Inv, LoadsOK, app = "running", NEW p \in PageJob, state[p] = "loading",
                        ~(p = "hardware" /\ phase[p] = "waiting")
                 PROVE  \E n \in 1 .. Len(handles) : handles[n].job = p
      BY DEF SpinnersHaveJobs
    <2>1. p \in Job
      OBVIOUS
    <2>2. PICK i \in 1 .. 6 : Loads[i] = p
      BY LoadsList
    <2>3. phase[p] # "unused"
      <3>0. Len(order) = Len(Loads)
        BY DEF LoadsOK
      <3>1. Len(order) = 6 /\ i \in 1 .. Len(Loads) /\ i <= Len(order)
        BY <3>0, LoadsList
      <3>2. QED
        BY <2>2, <3>1 DEF LoadsOK
    <2>4. phase[p] \notin {"refused", "waiting", "called"}
      BY <2>1 DEF LoadsOK
    <2>5. phase[p] \in {"stepping", "done"}
      BY <2>1, <2>3, <2>4 DEF Inv, TypeOK
    <2>6. HandleOf(p) \in OnContext /\ HandleOf(p).job = p
      BY <2>1, <2>5 DEF OnContext, Runnable, HandleOf, Handle
    <2>7. QED
      BY <2>6 DEF Inv, HandlesOK, Lists
  <1>4. QED
    BY <1>1, <1>2, <1>3, AppUsesScheduler, InvAlways, PTL DEF AppSpec
=============================================================================
