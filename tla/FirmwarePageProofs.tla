-------------------------- MODULE FirmwarePageProofs --------------------------
(***************************************************************************)
(* Theorems about FirmwarePage, for any number of jobs, changes, signals   *)
(* and releases, and for both schedulers: the operation in flight and its  *)
(* progress callback, then the reads of the device and what of them the    *)
(* page shows.                                                             *)
(***************************************************************************)
EXTENDS FirmwarePage, JobQueues

JobRecord(n) == [phase : JobPhase, kind : Kind, release : Release \cup {NoRelease},
                 dev : 0 .. n, rel : 0 .. n, out : Out]

\* What type correctness says of the numbers and queues, in the form the
\* steps below use.
LEMMA TypeFacts ==
    ASSUME TypeOK
    PROVE  /\ Len(world) \in Nat
           /\ jobs \in [Job -> JobRecord(Len(world))]
           /\ loopQ \in Seq(Job) /\ doneQ \in Seq(Job)
<1>1. world \in Seq(Conditions)
  BY DEF TypeOK
<1>2. Len(world) \in Nat
  BY <1>1
<1>3. jobs \in [Job -> JobRecord(Len(world))]
  BY DEF TypeOK, JobRecord
<1> QED
  BY <1>2, <1>3 DEF TypeOK

\* The records a handler writes into a job slot are job records.
LEMMA JobRecords ==
    ASSUME NEW n \in Nat
    PROVE  /\ FreeJob \in JobRecord(n)
           /\ \A k \in Kind, r \in Release \cup {NoRelease} : NewJob(k, r) \in JobRecord(n)
           /\ \A m \in Nat : n =< m => JobRecord(n) \subseteq JobRecord(m)
<1>1. FreeJob \in JobRecord(n)
  BY DEF FreeJob, JobRecord, JobPhase, Kind, Out
<1>2. ASSUME NEW k \in Kind, NEW r \in Release \cup {NoRelease}
      PROVE  NewJob(k, r) \in JobRecord(n)
  BY DEF NewJob, FreeJob, JobRecord, JobPhase, Kind, Out
<1>3. ASSUME NEW m \in Nat, n =< m
      PROVE  JobRecord(n) \subseteq JobRecord(m)
  BY <1>3 DEF JobRecord
<1> QED
  BY <1>1, <1>2, <1>3

\* A signal joins the queue, or nobody listens.
LEMMA EmitType ==
    ASSUME TypeOK, NEW s \in {"changed", "progress"}, Emit(s)
    PROVE  signals' \in Seq({"changed", "progress"})
<1>1. signals \in Seq({"changed", "progress"})
  BY DEF TypeOK
<1>2. signals' = signals \/ signals' = Append(signals, s)
  BY DEF Emit
<1> QED
  BY <1>1, <1>2

\* The daemon's history grows: numbers in range stay in range.
LEMMA WorldGrows ==
    ASSUME TypeOK, NEW c \in Conditions, Becomes(c)
    PROVE  /\ world' \in Seq(Conditions) /\ Len(world)' = Len(world) + 1
           /\ 0 .. Len(world) \subseteq 0 .. Len(world)'
           /\ signals' \in Seq({"changed", "progress"})
           /\ missed' \in BOOLEAN
<1>1. world \in Seq(Conditions) /\ world' = Append(world, c)
  BY DEF TypeOK, Becomes
<1>2. world' \in Seq(Conditions) /\ Len(world)' = Len(world) + 1 /\ Len(world) \in Nat
  BY <1>1
<1>3. signals' \in Seq({"changed", "progress"})
  BY EmitType DEF Becomes
<1>4. missed' \in BOOLEAN
  BY DEF TypeOK, Becomes
<1> QED
  BY <1>2, <1>3, <1>4

\* A submitted job is well typed.
LEMMA SubmitType ==
    ASSUME TypeOK, NEW k \in Kind, NEW r \in Release \cup {NoRelease}, Submit(k, r)
    PROVE  /\ jobs' \in [Job -> JobRecord(Len(world))]
           /\ loopQ' \in Seq(Job) /\ doneQ' \in Seq(Job)
<1>1. PICK j \in Job : /\ jobs' = [jobs EXCEPT ![j] = NewJob(k, r)]
                       /\ loopQ' = Append(loopQ, j) /\ doneQ' = doneQ
  BY DEF Submit
<1>2. NewJob(k, r) \in JobRecord(Len(world))
  BY TypeFacts, JobRecords
<1>3. jobs' \in [Job -> JobRecord(Len(world))]
  BY <1>1, <1>2, TypeFacts
<1>4. loopQ' \in Seq(Job) /\ doneQ' \in Seq(Job)
  BY <1>1, TypeFacts
<1> QED
  BY <1>3, <1>4

\* A job that moves stays well typed.
LEMMA MovesType ==
    ASSUME TypeOK, NEW j \in Job, NEW p \in JobPhase, NEW o \in Out,
           NEW dev \in 0 .. Len(world), NEW rel \in 0 .. Len(world),
           Moves(j, p, o, dev, rel)
    PROVE  jobs' \in [Job -> JobRecord(Len(world))]
<1>1. jobs \in [Job -> JobRecord(Len(world))]
  BY TypeFacts
<1>2. jobs[j] \in JobRecord(Len(world))
  BY <1>1
<1>3. [phase |-> p, kind |-> jobs[j].kind, release |-> jobs[j].release,
       dev |-> dev, rel |-> rel, out |-> o] \in JobRecord(Len(world))
  BY <1>2 DEF JobRecord
<1> QED
  BY <1>1, <1>3 DEF Moves

-----------------------------------------------------------------------------
(* Type correctness.                                                       *)

\* Type correctness but for the jobs, their queues and the daemon.
PageType ==
    /\ subscribed \in BOOLEAN /\ onProgress \in BOOLEAN /\ typeError \in BOOLEAN
    /\ main \in {"new", "loaded", "idle", "progress"}
    /\ state \in {"loading", "ready", "unavailable", "error"}
    /\ rebootBanner \in BOOLEAN /\ flow \in {"none", "battery", "failed"}
    /\ busy \in {"none", "refresh", "install"} /\ installing \in BOOLEAN
    /\ reloadPending \in BOOLEAN /\ timers \in Nat /\ missed \in BOOLEAN

\* The result of a gather names a condition the device was in: without it
\* the reboot banner of _apply would not be typed.
DevRead ==
    \A j \in Job :
        \/ jobs[j].phase = "listed"
        \/ jobs[j].kind = "gather" /\ jobs[j].out = "ok"
        => jobs[j].dev \in 1 .. Len(world)

\* Steps that leave every variable of the page alone keep its types.
LEMMA SamePage ==
    ASSUME PageType,
           UNCHANGED <<subscribed, onProgress, typeError, main, state, rebootBanner, flow,
                       busy, installing, reloadPending, timers, missed>>
    PROVE  PageType'
BY DEF PageType

\* Type correctness in two parts: the page's own variables, and the jobs, the
\* queues and the daemon.
LEMMA TypeParts ==
    TypeOK <=> /\ PageType
               /\ world \in Seq(Conditions) /\ Len(world) > 0
               /\ signals \in Seq({"changed", "progress"})
               /\ jobs \in [Job -> JobRecord(Len(world))]
               /\ loopQ \in Seq(Job) /\ doneQ \in Seq(Job)
               /\ shown \in [dev : 0 .. Len(world), rel : 0 .. Len(world)]
BY DEF TypeOK, PageType, JobRecord

\* Every page starts well typed: Init of FirmwareViewModel and FwupdGir.
LEMMA TypeInit == Init => TypeOK
<1> SUFFICES ASSUME Init PROVE TypeOK
  OBVIOUS
<1>1. PICK c \in Conditions : world = <<c>>
  BY DEF Init
<1>2. world \in Seq(Conditions) /\ Len(world) = 1
  BY <1>1
<1>3. jobs \in [Job -> JobRecord(Len(world))]
  BY <1>2, JobRecords DEF Init
<1>4. shown \in [dev : 0 .. Len(world), rel : 0 .. Len(world)]
  <2>1. shown = [dev |-> 0, rel |-> 0]
    BY DEF Init
  <2>2. 0 \in 0 .. Len(world)
    BY <1>2
  <2> QED
    BY <2>1, <2>2
<1>5. PageType
  BY DEF Init, PageType
<1>6. loopQ \in Seq(Job) /\ doneQ \in Seq(Job) /\ signals \in Seq({"changed", "progress"})
  <2>1. loopQ = <<>> /\ doneQ = <<>> /\ signals = <<>>
    BY DEF Init
  <2> QED
    BY <2>1, EmptySeq
<1> QED
  BY <1>2, <1>3, <1>4, <1>5, <1>6, TypeParts

\* Steps that leave the daemon alone.
LEMMA SameWorld ==
    ASSUME TypeOK, UNCHANGED world, PageType',
           jobs' \in [Job -> JobRecord(Len(world))],
           loopQ' \in Seq(Job), doneQ' \in Seq(Job),
           signals' \in Seq({"changed", "progress"}),
           shown' \in [dev : 0 .. Len(world), rel : 0 .. Len(world)]
    PROVE  TypeOK'
<1>1. Len(world)' = Len(world) /\ Len(world) > 0
  BY TypeParts
<1>2. jobs' \in [Job -> JobRecord(Len(world)')] /\ world' \in Seq(Conditions)
  BY <1>1, TypeParts
<1> QED
  BY <1>1, <1>2 DEF TypeOK, PageType, JobRecord

\* Steps that lengthen the daemon's history.
LEMMA GrownWorld ==
    ASSUME TypeOK, world' \in Seq(Conditions), Len(world)' = Len(world) + 1, PageType',
           jobs' \in [Job -> JobRecord(Len(world))],
           loopQ' \in Seq(Job), doneQ' \in Seq(Job),
           signals' \in Seq({"changed", "progress"}),
           UNCHANGED shown
    PROVE  TypeOK'
<1>1. Len(world) \in Nat
  BY TypeFacts
<1>2. JobRecord(Len(world)) \subseteq JobRecord(Len(world)')
  BY <1>1, JobRecords
<1>3. jobs' \in [Job -> JobRecord(Len(world)')]
  BY <1>2
<1>4. shown' \in [dev : 0 .. Len(world)', rel : 0 .. Len(world)']
  BY <1>1, TypeParts
<1>5. Len(world)' > 0
  BY <1>1
<1> HIDE DEF Out, Kind, JobPhase
<1> QED
  BY <1>3, <1>4, <1>5 DEF TypeOK, PageType, JobRecord

\* Every step of the page, of its provider and of fwupd keeps the types.
LEMMA TypeStep == TypeOK /\ DevRead /\ [Next]_vars => TypeOK'
<1> SUFFICES ASSUME TypeOK, DevRead, [Next]_vars PROVE TypeOK'
  OBVIOUS
<1> USE DEF daemonVars, provVars, schedVars, pageVars, flowVars, timerVars
<1>t. /\ PageType /\ signals \in Seq({"changed", "progress"})
      /\ jobs \in [Job -> JobRecord(Len(world))]
      /\ loopQ \in Seq(Job) /\ doneQ \in Seq(Job) /\ Len(world) \in Nat
      /\ shown \in [dev : 0 .. Len(world), rel : 0 .. Len(world)]
  BY TypeParts, TypeFacts
<1>k. /\ \A k \in {"gather", "refresh", "install"} : k \in Kind
      /\ \A p \in {"free", "queued", "listed", "flashing", "resumed", "done"} : p \in JobPhase
      /\ \A o \in {"none", "ok", "unreachable", "parse", "gone", "failed", "denied"} : o \in Out
  BY DEF Kind, JobPhase, Out
<1>1. CASE Load
  BY <1>1, <1>t, SameWorld, SubmitType, <1>k DEF PageType, Load
<1>2. CASE StartLiveUpdates
  BY <1>2, <1>t, SameWorld DEF PageType, StartLiveUpdates
<1>3. CASE ProgressCall
  BY <1>3, <1>t, SameWorld DEF PageType, ProgressCall
<1>4. CASE RefreshMetadata
  BY <1>4, <1>t, SameWorld, SubmitType, <1>k DEF PageType, RefreshMetadata
<1>5. CASE DaemonProgress \/ DaemonStorm
  <2>1. signals' \in Seq({"changed", "progress"})
    BY <1>5, EmitType DEF DaemonProgress, DaemonStorm
  <2>2. PageType'
    BY <1>5, <1>t DEF DaemonProgress, DaemonStorm, PageType
  <2>3. UNCHANGED <<world, jobs, loopQ, doneQ, shown>>
    BY <1>5 DEF DaemonProgress, DaemonStorm
  <2> QED
    BY <2>1, <2>2, <2>3, <1>t, SameWorld DEF JobRecord
<1>6. CASE OnChanged
  <2>1. signals' \in Seq({"changed", "progress"})
    BY <1>6, <1>t DEF OnChanged, Takes
  <2>2. PageType'
    <3>1. CASE reloadPending \/ installing
      BY <1>6, <1>t, <3>1 DEF OnChanged, PageType
    <3>2. CASE ~(reloadPending \/ installing)
      <4>1. timers' \in Nat /\ reloadPending' = TRUE /\ missed' = missed
        BY <1>6, <1>t, <3>2 DEF OnChanged, PageType
      <4>2. UNCHANGED <<subscribed, onProgress, typeError, main, state, rebootBanner,
                        flow, busy, installing>>
        BY <1>6 DEF OnChanged
      <4> QED
        BY <4>1, <4>2, <1>t DEF PageType
    <3> QED
      BY <3>1, <3>2
  <2>3. UNCHANGED <<world, jobs, loopQ, doneQ, shown>>
    BY <1>6 DEF OnChanged
  <2> QED
    BY <2>1, <2>2, <2>3, <1>t, SameWorld DEF JobRecord
<1>7. CASE ProgressCheck
  <2>1. signals' \in Seq({"changed", "progress"})
    BY <1>7, <1>t DEF ProgressCheck, Takes
  <2>2. PageType'
    BY <1>7, <1>t DEF ProgressCheck, PageType
  <2>3. UNCHANGED <<world, jobs, loopQ, doneQ, shown>>
    BY <1>7 DEF ProgressCheck
  <2> QED
    BY <2>1, <2>2, <2>3, <1>t, SameWorld DEF JobRecord
<1>8. CASE ReloadTimeout
  <2>1. PageType'
    <3>1. timers' \in Nat /\ reloadPending' \in BOOLEAN /\ missed' \in BOOLEAN
      <4>1. timers' \in Nat /\ reloadPending' = FALSE
        BY <1>8, <1>t DEF ReloadTimeout, PageType
      <4>2. missed' = TRUE \/ missed' = missed
        BY <1>8 DEF ReloadTimeout
      <4> QED
        BY <4>1, <4>2, <1>t DEF PageType
    <3>2. UNCHANGED <<subscribed, onProgress, typeError, main, state, rebootBanner,
                      flow, busy, installing>>
      BY <1>8 DEF ReloadTimeout
    <3> QED
      BY <3>1, <3>2, <1>t DEF PageType
  <2>2. UNCHANGED <<world, signals, shown>>
    BY <1>8 DEF ReloadTimeout
  <2>3. jobs' \in [Job -> JobRecord(Len(world))] /\ loopQ' \in Seq(Job) /\ doneQ' \in Seq(Job)
    BY <1>8, <1>t, <1>k, SubmitType DEF ReloadTimeout
  <2> QED
    BY <2>1, <2>2, <2>3, <1>t, SameWorld DEF JobRecord
<1>9. ASSUME NEW r \in Release, RequestInstall(r) PROVE TypeOK'
  <2>1. PageType' /\ UNCHANGED <<world, signals, shown>>
    <3>1. UNCHANGED <<subscribed, onProgress, typeError, main, state, rebootBanner, reloadPending,
                      timers, missed, world, signals, shown>>
      BY <1>9 DEF RequestInstall
    <3>2. flow' \in {"battery", "none"}
      BY <1>9 DEF RequestInstall
    <3>3. (busy' = busy /\ installing' = installing) \/ (busy' = "install" /\ installing' = TRUE)
      BY <1>9 DEF RequestInstall
    <3>4. installing' \in BOOLEAN
      BY <3>3, <1>t DEF PageType
    <3>5. busy' \in {"none", "refresh", "install"}
      BY <3>3, <1>t DEF PageType
    <3> QED
      BY <3>1, <3>2, <3>4, <3>5, <1>t DEF PageType
  <2>2. CASE UNCHANGED schedVars
    BY <2>1, <2>2, <1>t, SameWorld
  <2>3. CASE Submit("install", r)
    BY <2>1, <2>3, <1>t, <1>k, SubmitType, SameWorld
  <2> QED
    BY <1>9, <2>2, <2>3 DEF RequestInstall
<1>10. CASE DaemonChange
  <2>1. PICK c \in Conditions : Becomes(c)
    BY <1>10 DEF DaemonChange
  <2>2. /\ world' \in Seq(Conditions) /\ Len(world)' = Len(world) + 1
        /\ signals' \in Seq({"changed", "progress"}) /\ missed' \in BOOLEAN
    BY <2>1, WorldGrows
  <2>3. PageType' /\ UNCHANGED <<jobs, loopQ, doneQ, shown>>
    BY <1>10, <2>2, <1>t DEF DaemonChange, PageType
  <2> QED
    BY <2>2, <2>3, <1>t, GrownWorld
<1>11. ASSUME NEW j \in Job, WorkerEnds(j) PROVE TypeOK'
  <2>1. loopQ' \in Seq(Job) /\ doneQ' \in Seq(Job) /\ UNCHANGED shown
    BY <1>11, <1>t DEF WorkerEnds
  <2>2. UNCHANGED <<subscribed, onProgress, typeError, main, state, rebootBanner,
                    flow, busy, installing, reloadPending, timers>>
    BY <1>11 DEF WorkerEnds
  <2>3. PICK o \in {"ok", "failed", "denied"} : Moves(j, "resumed", o, 0, 0)
    BY <1>11 DEF WorkerEnds
  <2>4. jobs' \in [Job -> JobRecord(Len(world))]
    BY <2>3, <1>t, <1>k, MovesType
  <2>5. ASSUME NEW c \in Conditions, Becomes(c) PROVE TypeOK'
    <3>1. /\ world' \in Seq(Conditions) /\ Len(world)' = Len(world) + 1
          /\ signals' \in Seq({"changed", "progress"}) /\ missed' \in BOOLEAN
      BY <2>5, WorldGrows
    <3>2. PageType'
      BY <3>1, <2>2, <1>t DEF PageType
    <3> QED
      BY <3>1, <3>2, <2>1, <2>4, GrownWorld
  <2>6. CASE UNCHANGED <<world, signals, missed>>
    <3>1. PageType'
      BY <2>6, <2>2, <1>t, SamePage
    <3> QED
      BY <3>1, <2>6, <2>1, <2>4, <1>t, SameWorld
  <2> QED
    BY <1>11, <2>5, <2>6 DEF WorkerEnds
<1>12. ASSUME NEW j \in Job,
              \/ GatherDevices(j) \/ GatherUpgrades(j) \/ RefreshRemotes(j)
              \/ InstallResolves(j) \/ InstallReturns(j)
       PROVE  TypeOK'
  <2>1. PageType' /\ UNCHANGED <<world, signals, shown>>
    <3>1. UNCHANGED <<subscribed, typeError, main, state, rebootBanner,
                      flow, busy, installing, reloadPending, timers, world, signals, shown>>
      BY <1>12 DEF GatherDevices, GatherUpgrades, RefreshRemotes, InstallResolves,
              InstallReturns
    <3>2. onProgress' = onProgress \/ onProgress' = TRUE \/ onProgress' = FALSE
      BY <1>12 DEF GatherDevices, GatherUpgrades, RefreshRemotes, InstallResolves,
              InstallReturns
    <3>3. missed' = missed \/ missed' = FALSE
      BY <1>12 DEF GatherDevices, GatherUpgrades, RefreshRemotes, InstallResolves,
              InstallReturns
    <3>4. onProgress' \in BOOLEAN
      BY <3>2, <1>t DEF PageType
    <3>5. missed' \in BOOLEAN
      BY <3>3, <1>t DEF PageType
    <3> QED
      BY <3>1, <3>4, <3>5, <1>t DEF PageType
  <2>2. loopQ' \in Seq(Job)
    <3>1. loopQ' = loopQ \/ (loopQ # <<>> /\ loopQ' = Tail(loopQ))
      BY <1>12 DEF GatherDevices, GatherUpgrades, RefreshRemotes, InstallResolves,
              InstallReturns, Runs
    <3>2. loopQ \in Seq(Job)
      BY <1>t
    <3>3. loopQ # <<>> => Tail(loopQ) \in Seq(Job)
      BY <3>2
    <3> QED
      BY <3>1, <3>2, <3>3
  <2>3. \E p \in JobPhase, o \in Out, dev \in 0 .. Len(world), rel \in 0 .. Len(world) :
            /\ Moves(j, p, o, dev, rel)
            /\ doneQ' = doneQ \/ doneQ' = Append(doneQ, j)
    <3>1. 0 \in 0 .. Len(world) /\ Now \in 0 .. Len(world)
      BY <1>t DEF Now
    <3>2. jobs[j].dev \in 0 .. Len(world) /\ jobs[j].out \in Out
      BY <1>t DEF JobRecord
    <3>3. CASE GatherDevices(j)
      BY <3>3, <3>1, <1>k DEF GatherDevices, Ends
    <3>4. CASE GatherUpgrades(j)
      BY <3>4, <3>1, <3>2, <1>k DEF GatherUpgrades, Ends
    <3>5. CASE RefreshRemotes(j)
      BY <3>5, <3>1, <1>k DEF RefreshRemotes, Ends
    <3>6. CASE InstallResolves(j)
      BY <3>6, <3>1, <1>k DEF InstallResolves, Ends
    <3>7. CASE InstallReturns(j)
      BY <3>7, <3>1, <3>2, <1>k DEF InstallReturns, Ends
    <3> QED
      BY <1>12, <3>3, <3>4, <3>5, <3>6, <3>7
  <2>4. jobs' \in [Job -> JobRecord(Len(world))]
    BY <2>3, MovesType
  <2>5. doneQ' = doneQ \/ doneQ' = Append(doneQ, j)
    BY <2>3
  <2>6. doneQ' \in Seq(Job)
    <3>1. CASE doneQ' = doneQ
      BY <3>1, <1>t
    <3>2. CASE doneQ' = Append(doneQ, j)
      BY <3>2, <1>t, <1>12
    <3> QED
      BY <2>5, <3>1, <3>2
  <2> QED
    BY <2>1, <2>2, <2>4, <2>6, <1>t, SameWorld
<1>13. ASSUME NEW j \in Job,
              \/ ApplyEmpty(j) \/ Apply(j) \/ LoadFailed(j)
              \/ RefreshDone(j) \/ RefreshFailed(j)
              \/ InstallDone(j) \/ InstallDeclined(j) \/ InstallFailed(j) \/ InstallErrors(j)
       PROVE  TypeOK'
  <2> USE DEF ApplyEmpty, Apply, LoadFailed, RefreshDone, RefreshFailed,
              InstallDone, InstallDeclined, InstallFailed, InstallErrors
  <2>1. UNCHANGED <<world, signals>>
    BY <1>13
  <2>2. doneQ' \in Seq(Job)
    <3>1. doneQ # <<>> /\ doneQ' = Tail(doneQ)
      BY <1>13 DEF Delivers
    <3> QED
      BY <3>1, <1>t
  <2>3. jobs' \in [Job -> JobRecord(Len(world))] /\ loopQ' \in Seq(Job)
    <3>1. CASE Drop(j)
      BY <3>1, <1>t, JobRecords DEF Drop
    <3>2. CASE Regather(j)
      BY <3>2, <1>t, <1>k, JobRecords DEF Regather
    <3> QED
      BY <1>13, <3>1, <3>2
  <2>4. shown' \in [dev : 0 .. Len(world), rel : 0 .. Len(world)]
    <3>1. jobs[j].dev \in 0 .. Len(world) /\ jobs[j].rel \in 0 .. Len(world)
      BY <1>t DEF JobRecord
    <3>2. shown' = shown \/ shown' = [dev |-> jobs[j].dev, rel |-> jobs[j].rel]
      BY <1>13
    <3> QED
      BY <3>1, <3>2, <1>t
  <2>5. PageType'
    <3>1. UNCHANGED <<subscribed, onProgress, typeError, main, reloadPending, timers>>
      BY <1>13
    <3>2. state' \in {state, "ready", "unavailable", "error"}
      BY <1>13 DEF ErrorState
    <3>4. flow' \in {flow, "failed"} /\ busy' \in {busy, "none"}
      BY <1>13
    <3>5. installing' = installing \/ installing' = FALSE
      BY <1>13
    <3>6. missed' = missed \/ missed' = FALSE
      BY <1>13
    <3>7. installing' \in BOOLEAN /\ missed' \in BOOLEAN
      BY <3>5, <3>6, <1>t DEF PageType
    <3>3. rebootBanner' \in BOOLEAN
      <4>1. CASE Apply(j)
        <5>1. jobs[j].dev \in 1 .. Len(world) /\ world \in Seq(Conditions)
          BY <4>1, TypeParts DEF DevRead, Delivers
        <5>2. world[jobs[j].dev] \in Conditions
          BY <5>1
        <5> QED
          BY <4>1, <5>2, ConditionsAssumption
      <4>2. CASE UNCHANGED rebootBanner
        BY <4>2, <1>t DEF PageType
      <4> QED
        BY <1>13, <4>1, <4>2
    <3> QED
      BY <3>1, <3>2, <3>3, <3>4, <3>7, <1>t DEF PageType
  <2> QED
    BY <2>1, <2>2, <2>3, <2>4, <2>5, <1>t, SameWorld
<1>14. CASE UNCHANGED vars
  <2>1. PageType' /\ UNCHANGED <<world, signals, jobs, loopQ, doneQ, shown>>
    BY <1>14, <1>t, SamePage DEF vars
  <2> QED
    BY <2>1, <1>t, SameWorld
<1> QED
  BY <1>1, <1>2, <1>3, <1>4, <1>5, <1>6, <1>7, <1>8, <1>9, <1>10, <1>11, <1>12, <1>13, <1>14
     DEF Next, Daemon, LoopRuns, Callback, Signals, User

-----------------------------------------------------------------------------
(* The inductive invariant.                                                *)

Waiting == {j \in Job : jobs[j].phase \in {"queued", "resumed"}}
Finished == {j \in Job : jobs[j].phase = "done"}

\* The two FIFOs of the scheduler hold exactly the jobs whose phase says so.
QueuesOK == Lists(loopQ, Waiting) /\ Lists(doneQ, Finished)

\* Only gathers are listed, only installs flash or are resumed.
KindOK ==
    \A j \in Job :
        /\ jobs[j].phase = "listed" => jobs[j].kind = "gather"
        /\ jobs[j].phase \in {"flashing", "resumed"} => jobs[j].kind = "install"

\* With one thread, nothing clears the callback between the check and the call.
NativeOK ==
    ~Threaded => /\ ~typeError
                 /\ main = "progress" => onProgress

Inv == /\ TypeOK /\ DevRead /\ QueuesOK /\ KindOK
       /\ OneOperation /\ ProgressHasOwner /\ OneTimer /\ NativeOK

\* What a submission does to the queues and to the sets of active jobs.
LEMMA SubmitEffect ==
    ASSUME TypeOK, QueuesOK, NEW k \in Kind, NEW r \in Release \cup {NoRelease},
           Submit(k, r)
    PROVE  /\ QueuesOK'
           /\ \E j \in Job : /\ jobs[j].phase = "free"
                             /\ jobs' = [jobs EXCEPT ![j] = NewJob(k, r)]
<1>1. PICK j \in Job : /\ jobs[j].phase = "free"
                       /\ jobs' = [jobs EXCEPT ![j] = NewJob(k, r)]
                       /\ loopQ' = Append(loopQ, j) /\ doneQ' = doneQ
  BY DEF Submit
<1>2. jobs \in [Job -> JobRecord(Len(world))]
  BY TypeFacts
<1>3. Waiting' = Waiting \cup {j} /\ Finished' = Finished
  BY <1>1, <1>2 DEF Waiting, Finished, NewJob
<1>4. j \notin Waiting
  BY <1>1 DEF Waiting
<1>5. Lists(loopQ', Waiting')
  BY <1>1, <1>3, <1>4, AppendLists DEF QueuesOK
<1> QED
  BY <1>1, <1>3, <1>5 DEF QueuesOK

\* A job runs on the loop: it was first in the loop's FIFO and leaves it.
LEMMA RunsEffect ==
    ASSUME TypeOK, QueuesOK, NEW j \in Job, NEW k, NEW p, Runs(j, k, p)
    PROVE  j \in Waiting /\ Lists(loopQ', Waiting \ {j})
BY TailLists DEF Runs, QueuesOK

\* A job moves to phase p, as recorded in jobs.
LEMMA MovesEffect ==
    ASSUME TypeOK, NEW j \in Job, NEW p, NEW o, NEW dev, NEW rel,
           Moves(j, p, o, dev, rel)
    PROVE  /\ Waiting' = IF p \in {"queued", "resumed"} THEN Waiting \cup {j}
                                                        ELSE Waiting \ {j}
           /\ Finished' = IF p = "done" THEN Finished \cup {j} ELSE Finished \ {j}
           /\ \A i \in Job : i # j => jobs'[i] = jobs[i]
           /\ jobs'[j] = [phase |-> p, kind |-> jobs[j].kind, release |-> jobs[j].release,
                          dev |-> dev, rel |-> rel, out |-> o]
<1>1. jobs \in [Job -> JobRecord(Len(world))]
  BY TypeFacts
<1>2. /\ \A i \in Job : i # j => jobs'[i] = jobs[i]
      /\ jobs'[j] = [phase |-> p, kind |-> jobs[j].kind, release |-> jobs[j].release,
                     dev |-> dev, rel |-> rel, out |-> o]
  BY <1>1 DEF Moves
<1>3. jobs'[j].phase = p
  BY <1>2
<1>4. Waiting' = IF p \in {"queued", "resumed"} THEN Waiting \cup {j} ELSE Waiting \ {j}
  BY <1>2, <1>3 DEF Waiting
<1>5. Finished' = IF p = "done" THEN Finished \cup {j} ELSE Finished \ {j}
  BY <1>2, <1>3 DEF Finished
<1> QED
  BY <1>2, <1>4, <1>5

\* A job that goes on in a worker thread or between two reads waits nowhere.
LEMMA MovesAway ==
    ASSUME TypeOK, NEW j \in Job, NEW p \in {"listed", "flashing"}, NEW o, NEW dev, NEW rel,
           Moves(j, p, o, dev, rel)
    PROVE  Waiting' = Waiting \ {j} /\ Finished' = Finished \ {j}
<1>1. /\ Waiting' = IF p \in {"queued", "resumed"} THEN Waiting \cup {j}
                                                  ELSE Waiting \ {j}
      /\ Finished' = IF p = "done" THEN Finished \cup {j} ELSE Finished \ {j}
  BY MovesEffect
<1> QED
  BY <1>1

\* A coroutine that ends is posted once.
LEMMA EndsEffect ==
    ASSUME TypeOK, QueuesOK, NEW j \in Job, NEW o, NEW dev, NEW rel,
           jobs[j].phase # "done", Ends(j, o, dev, rel),
           Lists(loopQ', Waiting \ {j})
    PROVE  QueuesOK'
<1>1. Moves(j, "done", o, dev, rel) /\ doneQ' = Append(doneQ, j)
  BY DEF Ends
<1>2. Waiting' = Waiting \ {j} /\ Finished' = Finished \cup {j}
  BY <1>1, MovesEffect
<1>3. j \notin Finished
  BY DEF Finished
<1>4. Lists(doneQ', Finished')
  BY <1>1, <1>2, <1>3, AppendLists DEF QueuesOK
<1> QED
  BY <1>2, <1>4 DEF QueuesOK

\* A callback takes the first finished job, which leaves the scheduler or
\* becomes a new gather.
LEMMA DeliversEffect ==
    ASSUME TypeOK, QueuesOK, NEW j \in Job, NEW k, NEW outs,
           Delivers(j, k, outs), Drop(j) \/ Regather(j)
    PROVE  /\ QueuesOK' /\ jobs[j].phase = "done" /\ jobs[j].kind = k
           /\ \A i \in Job : i # j => jobs'[i] = jobs[i]
           /\ jobs'[j] \in {FreeJob, NewJob("gather", NoRelease)}
<1>1. j \in Finished /\ Lists(doneQ', Finished \ {j}) /\ jobs[j].kind = k
  BY TailLists DEF Delivers, QueuesOK
<1>2. jobs[j].phase = "done" /\ j \notin Waiting
  BY <1>1 DEF Finished, Waiting
<1>3. jobs \in [Job -> JobRecord(Len(world))]
  BY TypeFacts
<1>4. CASE Drop(j)
  <2>1. jobs' = [jobs EXCEPT ![j] = FreeJob] /\ loopQ' = loopQ
    BY <1>4 DEF Drop
  <2>2. Waiting' = Waiting /\ Finished' = Finished \ {j}
    BY <2>1, <1>2, <1>3 DEF Waiting, Finished, FreeJob
  <2>3. QueuesOK'
    BY <2>1, <2>2, <1>1 DEF QueuesOK
  <2> QED
    BY <2>1, <2>3, <1>1, <1>2, <1>3
<1>5. CASE Regather(j)
  <2>1. jobs' = [jobs EXCEPT ![j] = NewJob("gather", NoRelease)] /\ loopQ' = Append(loopQ, j)
    BY <1>5 DEF Regather
  <2>2. Waiting' = Waiting \cup {j} /\ Finished' = Finished \ {j}
    BY <2>1, <1>2, <1>3 DEF Waiting, Finished, NewJob
  <2>3. QueuesOK'
    BY <2>1, <2>2, <1>1, <1>2, AppendLists DEF QueuesOK
  <2> QED
    BY <2>1, <2>3, <1>1, <1>2, <1>3
<1> QED
  BY <1>4, <1>5

\* Installs whose callback FwupdGir._on_progress is.
Owners == {j \in Active("install") : jobs[j].phase \in {"flashing", "resumed"}}

\* OneOperation, for the sets of active jobs.
LEMMA OneOperationSets ==
    ASSUME TypeOK
    PROVE  OneOperation <=>
             /\ \A i, j \in Active("refresh") \cup Active("install") : i = j
             /\ busy = "refresh" <=> Active("refresh") # {}
             /\ busy = "install" <=> Active("install") # {}
             /\ installing <=> Active("install") # {}
BY DEF OneOperation

\* What the three kinds of change of a job do to the active jobs.
LEMMA ActiveSubmit ==
    ASSUME TypeOK, NEW j \in Job, NEW k \in Kind, NEW r,
           jobs[j].phase = "free", jobs' = [jobs EXCEPT ![j] = NewJob(k, r)]
    PROVE  /\ \A x \in Kind : Active(x)' = IF x = k THEN Active(x) \cup {j} ELSE Active(x)
           /\ Owners' = Owners
<1>1. jobs \in [Job -> JobRecord(Len(world))]
  BY TypeFacts
<1>2. /\ \A i \in Job : i # j => jobs'[i] = jobs[i]
      /\ jobs'[j].phase = "queued" /\ jobs'[j].kind = k
  BY <1>1 DEF NewJob
<1>3. \A x \in Kind : Active(x)' = IF x = k THEN Active(x) \cup {j} ELSE Active(x)
  BY <1>2 DEF Active
<1>4. Owners' = Owners
  BY <1>2 DEF Active, Owners
<1> QED
  BY <1>3, <1>4

\* A job that moves on stays active until it is delivered.
LEMMA ActiveMoves ==
    ASSUME TypeOK, NEW j \in Job, NEW p, NEW o, NEW dev, NEW rel,
           Moves(j, p, o, dev, rel), jobs[j].phase # "free", p # "free"
    PROVE  /\ \A x \in Kind : Active(x)' = Active(x)
           /\ Owners' = IF p \in {"flashing", "resumed"} /\ jobs[j].kind = "install"
                        THEN Owners \cup {j} ELSE Owners \ {j}
<1>1. /\ \A i \in Job : i # j => jobs'[i] = jobs[i]
      /\ jobs'[j].phase = p /\ jobs'[j].kind = jobs[j].kind
  <2>1. /\ \A i \in Job : i # j => jobs'[i] = jobs[i]
        /\ jobs'[j] = [phase |-> p, kind |-> jobs[j].kind, release |-> jobs[j].release,
                       dev |-> dev, rel |-> rel, out |-> o]
    BY MovesEffect
  <2> QED
    BY <2>1
<1>2. \A x \in Kind : Active(x)' = Active(x)
  BY <1>1 DEF Active
<1>3. Owners' = IF p \in {"flashing", "resumed"} /\ jobs[j].kind = "install"
                THEN Owners \cup {j} ELSE Owners \ {j}
  BY <1>1 DEF Active, Owners
<1> QED
  BY <1>2, <1>3

\* A delivered job is active no more, unless it became a new gather.
LEMMA ActiveDelivers ==
    ASSUME TypeOK, NEW j \in Job, jobs[j].phase = "done",
           \A i \in Job : i # j => jobs'[i] = jobs[i],
           jobs'[j] \in {FreeJob, NewJob("gather", NoRelease)}
    PROVE  /\ Active("refresh")' = Active("refresh") \ {j}
           /\ Active("install")' = Active("install") \ {j}
           /\ Owners' = Owners
<1>1. jobs'[j].kind = "gather"
  BY DEF FreeJob, NewJob
<1>2. Active("refresh")' = Active("refresh") \ {j}
  BY <1>1 DEF Active
<1>3. Active("install")' = Active("install") \ {j}
  BY <1>1 DEF Active
<1>4. Owners' = Owners
  BY <1>1 DEF Active, Owners
<1> QED
  BY <1>2, <1>3, <1>4

-----------------------------------------------------------------------------
(* The steps.                                                              *)

\* What is left of Inv once type correctness is set aside.
Rest == DevRead /\ QueuesOK /\ KindOK /\ OneOperation /\ ProgressHasOwner /\ OneTimer /\ NativeOK

\* Steps that leave the scheduler's jobs and the operation alone.
LEMMA SameJobs ==
    ASSUME Inv, UNCHANGED <<jobs, loopQ, doneQ, busy, installing, onProgress>>,
           Len(world)' = Len(world) \/ Len(world)' = Len(world) + 1,
           OneTimer', NativeOK'
    PROVE  Rest'
<1>1. TypeOK /\ Len(world) \in Nat
  BY TypeFacts DEF Inv
<1>2. Waiting' = Waiting /\ Finished' = Finished
  BY DEF Waiting, Finished
<1>3. QueuesOK' /\ KindOK'
  BY <1>2 DEF Inv, QueuesOK, KindOK
<1>4. DevRead'
  BY <1>1 DEF Inv, DevRead
<1>5. OneOperation' /\ ProgressHasOwner'
  BY DEF Inv, OneOperation, ProgressHasOwner, Active
<1> QED
  BY <1>3, <1>4, <1>5 DEF Rest

\* Steps whose handler submits a job while no operation of its kind runs.
LEMMA SubmitStep ==
    ASSUME Inv, NEW k \in Kind, NEW r \in Release \cup {NoRelease}, Submit(k, r),
           UNCHANGED <<world, onProgress>>, OneTimer', NativeOK',
           \/ k = "gather" /\ UNCHANGED <<busy, installing>>
           \/ k = "refresh" /\ busy = "none" /\ busy' = "refresh" /\ UNCHANGED installing
           \/ k = "install" /\ busy = "none" /\ busy' = "install" /\ installing' = TRUE
    PROVE  Rest'
<1>1. TypeOK /\ QueuesOK
  BY DEF Inv
<1>2. PICK j \in Job : jobs[j].phase = "free" /\ jobs' = [jobs EXCEPT ![j] = NewJob(k, r)]
  BY <1>1, SubmitEffect
<1>3. QueuesOK'
  BY <1>1, SubmitEffect
<1>4. jobs \in [Job -> JobRecord(Len(world))]
  BY <1>1, TypeFacts
<1>5. /\ \A i \in Job : i # j => jobs'[i] = jobs[i]
      /\ jobs'[j].phase = "queued" /\ jobs'[j].kind = k /\ jobs'[j].out = "none"
  BY <1>2, <1>4 DEF NewJob
<1>6. KindOK' /\ DevRead'
  BY <1>5 DEF Inv, KindOK, DevRead
<1>7. /\ \A x \in Kind : Active(x)' = IF x = k THEN Active(x) \cup {j} ELSE Active(x)
      /\ Owners' = Owners
  BY <1>1, <1>2, ActiveSubmit
<1>8. {"gather", "refresh", "install"} \subseteq Kind
  BY DEF Kind
<1>9. OneOperation'
  <2>1. CASE k = "gather"
    BY <2>1, <1>7, <1>8 DEF Inv, OneOperation
  <2>2. CASE k = "refresh"
    BY <2>2, <1>7, <1>8 DEF Inv, OneOperation
  <2>3. CASE k = "install"
    BY <2>3, <1>7, <1>8 DEF Inv, OneOperation
  <2> QED
    BY <2>1, <2>2, <2>3
<1>10. ProgressHasOwner'
  BY <1>7 DEF Inv, ProgressHasOwner, Owners
<1> QED
  BY <1>3, <1>6, <1>9, <1>10 DEF Rest

\* A job moves while neither the operation nor the timer changes.
LEMMA MovesStep ==
    ASSUME Inv, NEW j \in Job, NEW p \in JobPhase, NEW o \in Out,
           NEW dev \in 0 .. Len(world), NEW rel \in 0 .. Len(world),
           Moves(j, p, o, dev, rel), jobs[j].phase # "free", p # "free", QueuesOK',
           Len(world)' = Len(world) \/ Len(world)' = Len(world) + 1,
           p = "listed" => jobs[j].kind = "gather",
           p \in {"flashing", "resumed"} => jobs[j].kind = "install",
           p = "listed" \/ (jobs[j].kind = "gather" /\ o = "ok") => dev # 0,
           onProgress' <=> Owners' # {},
           UNCHANGED <<busy, installing, reloadPending, timers>>, NativeOK'
    PROVE  Rest'
<1>1. TypeOK /\ Len(world) \in Nat
  BY TypeFacts DEF Inv
<1>2. /\ \A i \in Job : i # j => jobs'[i] = jobs[i]
      /\ jobs'[j] = [phase |-> p, kind |-> jobs[j].kind, release |-> jobs[j].release,
                     dev |-> dev, rel |-> rel, out |-> o]
  BY <1>1, MovesEffect
<1>3. /\ jobs'[j].phase = p /\ jobs'[j].kind = jobs[j].kind
      /\ jobs'[j].out = o /\ jobs'[j].dev = dev
  BY <1>2
<1>4. KindOK'
  BY <1>2, <1>3 DEF Inv, KindOK
<1>5. DevRead'
  <2> SUFFICES ASSUME NEW i \in Job,
                      \/ jobs'[i].phase = "listed"
                      \/ jobs'[i].kind = "gather" /\ jobs'[i].out = "ok"
               PROVE  jobs'[i].dev \in 1 .. Len(world)'
    BY DEF DevRead
  <2>1. CASE i = j
    BY <2>1, <1>1, <1>3
  <2>2. CASE i # j
    BY <2>2, <1>1, <1>2 DEF Inv, DevRead
  <2> QED
    BY <2>1, <2>2
<1>6. {"gather", "refresh", "install"} \subseteq Kind
  BY DEF Kind
<1>7. \A x \in Kind : Active(x)' = Active(x)
  BY <1>1, ActiveMoves
<1>8. OneOperation'
  BY <1>6, <1>7 DEF Inv, OneOperation
<1>9. ProgressHasOwner'
  BY DEF ProgressHasOwner, Owners
<1>10. OneTimer'
  BY DEF Inv, OneTimer
<1> QED
  BY <1>4, <1>5, <1>8, <1>9, <1>10 DEF Rest

\* A callback of an operation clears it; one of a gather leaves it alone.
LEMMA DeliversStep ==
    ASSUME Inv, NEW j \in Job, NEW k \in Kind, NEW outs,
           Delivers(j, k, outs), Drop(j) \/ Regather(j),
           UNCHANGED <<world, onProgress, main, typeError, reloadPending, timers>>,
           \/ k = "gather" /\ UNCHANGED <<busy, installing>>
           \/ k = "refresh" /\ busy' = "none" /\ UNCHANGED installing
           \/ k = "install" /\ busy' = "none" /\ installing' = FALSE
    PROVE  Rest'
<1>1. TypeOK /\ QueuesOK
  BY DEF Inv
<1>2. /\ QueuesOK' /\ jobs[j].phase = "done" /\ jobs[j].kind = k
      /\ \A i \in Job : i # j => jobs'[i] = jobs[i]
      /\ jobs'[j] \in {FreeJob, NewJob("gather", NoRelease)}
  BY <1>1, DeliversEffect
<1>3. /\ Active("refresh")' = Active("refresh") \ {j}
      /\ Active("install")' = Active("install") \ {j}
      /\ Owners' = Owners
  BY <1>1, <1>2, ActiveDelivers
<1>4. /\ jobs'[j].phase \in {"free", "queued"} /\ jobs'[j].out = "none"
  BY <1>2 DEF FreeJob, NewJob
<1>5. KindOK' /\ DevRead'
  BY <1>2, <1>4 DEF Inv, KindOK, DevRead
<1>6. /\ k = "gather" => j \notin Active("refresh") /\ j \notin Active("install")
      /\ k = "refresh" => j \in Active("refresh") /\ j \notin Active("install")
      /\ k = "install" => j \in Active("install") /\ j \notin Active("refresh")
  BY <1>2 DEF Active
<1>7. OneOperation'
  <2>1. CASE k = "gather"
    BY <2>1, <1>3, <1>6 DEF Inv, OneOperation
  <2>2. CASE k = "refresh"
    <3>1. Active("refresh") = {j} /\ Active("install") = {}
      BY <2>2, <1>6 DEF Inv, OneOperation
    <3> QED
      BY <2>2, <3>1, <1>3 DEF Inv, OneOperation
  <2>3. CASE k = "install"
    <3>1. Active("refresh") = {} /\ Active("install") = {j}
      BY <2>3, <1>6 DEF Inv, OneOperation
    <3> QED
      BY <2>3, <3>1, <1>3 DEF Inv, OneOperation
  <2> QED
    BY <2>1, <2>2, <2>3 DEF Kind
<1>8. ProgressHasOwner'
  BY <1>3 DEF Inv, ProgressHasOwner, Owners
<1>9. OneTimer' /\ NativeOK'
  BY DEF Inv, OneTimer, NativeOK
<1> QED
  BY <1>2, <1>5, <1>7, <1>8, <1>9 DEF Rest

\* The invariant survives every step of the loop.
LEMMA LoopStep ==
    ASSUME Inv, NEW j \in Job,
           \/ GatherDevices(j) \/ GatherUpgrades(j) \/ RefreshRemotes(j)
           \/ InstallResolves(j) \/ InstallReturns(j)
    PROVE  Rest'
<1> USE DEF daemonVars, provVars, pageVars, flowVars, timerVars
<1>t. /\ TypeOK /\ QueuesOK /\ Len(world) \in Nat
      /\ jobs[j].out \in Out /\ jobs[j].dev \in 0 .. Len(world)
  BY TypeFacts DEF Inv, JobRecord
<1>k. /\ "listed" \in JobPhase /\ "flashing" \in JobPhase /\ "done" \in JobPhase
      /\ \A o \in {"none", "ok", "unreachable", "parse", "gone", "failed"} : o \in Out
      /\ 0 \in 0 .. Len(world) /\ Now \in 0 .. Len(world) /\ Now # 0
  BY <1>t DEF JobPhase, Out, Now, TypeOK
<1>m. \A p, o, dev, rel : Ends(j, o, dev, rel) => Moves(j, "done", o, dev, rel)
  BY DEF Ends
<1>o. Owners \subseteq Job /\ (onProgress <=> Owners # {})
  BY DEF Inv, ProgressHasOwner, Owners, Active
<1>1. CASE GatherDevices(j)
  <2>1. /\ jobs[j].phase = "queued" /\ jobs[j].kind = "gather"
        /\ Lists(loopQ', Waiting \ {j}) /\ j \notin Owners
    BY <1>1, <1>t, RunsEffect DEF GatherDevices, Runs, Owners
  <2>2. /\ UNCHANGED <<world, onProgress, busy, installing, reloadPending, timers, main,
                       typeError>>
        /\ NativeOK'
    BY <1>1 DEF GatherDevices, Inv, NativeOK
  <2>3. CASE \E o \in {"unreachable", "parse"} : Ends(j, o, 0, 0)
    <3>1. PICK o \in {"unreachable", "parse"} : Ends(j, o, 0, 0)
      BY <2>3
    <3>2. QueuesOK'
      BY <3>1, <2>1, <1>t, EndsEffect
    <3>3. Owners' = Owners
      BY <3>1, <2>1, <1>t, <1>m, ActiveMoves
    <3> QED
      BY <3>1, <3>2, <3>3, <2>1, <2>2, <1>t, <1>k, <1>m, <1>o, MovesStep
  <2>4. CASE Ends(j, "ok", Now, Now)
    <3>2. QueuesOK'
      BY <2>4, <2>1, <1>t, EndsEffect
    <3>3. Owners' = Owners
      BY <2>4, <2>1, <1>t, <1>m, ActiveMoves
    <3> QED
      BY <2>4, <3>2, <3>3, <2>1, <2>2, <1>t, <1>k, <1>m, <1>o, MovesStep
  <2>5. CASE Moves(j, "listed", "none", Now, 0) /\ UNCHANGED doneQ
    <3>1. Waiting' = Waiting \ {j} /\ Finished' = Finished \ {j}
      <4>1. TypeOK /\ Moves(j, "listed", "none", Now, 0)
        BY <2>5, <1>t
      <4> QED
        BY <4>1, MovesAway
    <3>4. j \notin Finished
      BY <2>1 DEF Finished
    <3>2. QueuesOK'
      BY <3>1, <3>4, <2>5, <2>1, <1>t DEF QueuesOK
    <3>3. Owners' = Owners
      BY <2>5, <2>1, <1>t, ActiveMoves
    <3> QED
      BY <2>5, <3>2, <3>3, <2>1, <2>2, <1>t, <1>k, <1>o, MovesStep
  <2> QED
    BY <1>1, <2>3, <2>4, <2>5 DEF GatherDevices
<1>2. CASE GatherUpgrades(j)
  <2>1. PICK rel \in {Now, 0} : Ends(j, "ok", jobs[j].dev, rel)
    BY <1>2 DEF GatherUpgrades
  <2>2. /\ jobs[j].phase = "listed" /\ jobs[j].kind = "gather" /\ jobs[j].dev # 0
        /\ j \notin Waiting /\ j \notin Owners
    BY <1>2, <1>t DEF GatherUpgrades, Inv, KindOK, DevRead, Waiting, Owners
  <2>3. Lists(loopQ', Waiting \ {j})
    <3>1. loopQ' = loopQ /\ Waiting \ {j} = Waiting
      BY <1>2, <2>2 DEF GatherUpgrades
    <3> QED
      BY <3>1, <1>t DEF QueuesOK
  <2>4. QueuesOK' /\ Owners' = Owners
    <3>1. QueuesOK'
      BY <2>1, <2>2, <2>3, <1>t, EndsEffect
    <3>2. Owners' = Owners \ {j}
      BY <2>1, <2>2, <1>t, <1>m, ActiveMoves
    <3> QED
      BY <2>2, <3>1, <3>2
  <2>5. /\ UNCHANGED <<world, onProgress, busy, installing, reloadPending, timers, main,
                       typeError>>
        /\ NativeOK'
    BY <1>2 DEF GatherUpgrades, Inv, NativeOK
  <2> QED
    BY <2>1, <2>2, <2>4, <2>5, <1>t, <1>k, <1>m, <1>o, MovesStep
<1>3. CASE RefreshRemotes(j)
  <2>1. PICK o \in {"ok", "unreachable"} : Ends(j, o, 0, 0)
    BY <1>3 DEF RefreshRemotes
  <2>2. /\ jobs[j].phase = "queued" /\ jobs[j].kind = "refresh"
        /\ Lists(loopQ', Waiting \ {j}) /\ j \notin Owners
    BY <1>3, <1>t, RunsEffect DEF RefreshRemotes, Runs, Owners
  <2>3. QueuesOK' /\ Owners' = Owners
    BY <2>1, <2>2, <1>t, <1>m, EndsEffect, ActiveMoves
  <2>4. /\ UNCHANGED <<world, onProgress, busy, installing, reloadPending, timers, main,
                       typeError>>
        /\ NativeOK'
    BY <1>3 DEF RefreshRemotes, Inv, NativeOK
  <2> QED
    BY <2>1, <2>2, <2>3, <2>4, <1>t, <1>k, <1>m, <1>o, MovesStep
<1>4. CASE InstallResolves(j)
  <2>1. /\ jobs[j].phase = "queued" /\ jobs[j].kind = "install"
        /\ Lists(loopQ', Waiting \ {j}) /\ j \notin Owners
    BY <1>4, <1>t, RunsEffect DEF InstallResolves, Runs, Owners
  <2>2. /\ UNCHANGED <<world, busy, installing, reloadPending, timers, main, typeError>>
        /\ onProgress' = onProgress \/ onProgress' = TRUE
    BY <1>4 DEF InstallResolves
  <2>3. NativeOK'
    BY <2>2 DEF Inv, NativeOK
  <2>4. CASE \E o \in {"unreachable", "gone", "failed"} :
               Ends(j, o, 0, 0) /\ UNCHANGED onProgress
    <3>1. PICK o \in {"unreachable", "gone", "failed"} :
               Ends(j, o, 0, 0) /\ UNCHANGED onProgress
      BY <2>4
    <3>2. QueuesOK'
      BY <3>1, <2>1, <1>t, EndsEffect
    <3>3. Owners' = Owners
      <4>1. Moves(j, "done", o, 0, 0) /\ TypeOK /\ jobs[j].phase # "free"
        BY <3>1, <2>1, <1>t, <1>m
      <4>2. Owners' = Owners \ {j}
        BY <4>1, ActiveMoves
      <4> QED
        BY <4>2, <2>1
    <3> QED
      BY <3>1, <3>2, <3>3, <2>1, <2>2, <2>3, <1>t, <1>k, <1>m, <1>o, MovesStep
  <2>5. CASE Moves(j, "flashing", "none", 0, 0) /\ onProgress' = TRUE /\ UNCHANGED doneQ
    <3>1. Waiting' = Waiting \ {j} /\ Finished' = Finished \ {j}
      <4>1. TypeOK /\ Moves(j, "flashing", "none", 0, 0)
        BY <2>5, <1>t
      <4> QED
        BY <4>1, MovesAway
    <3>4. j \notin Finished
      BY <2>1 DEF Finished
    <3>2. QueuesOK'
      BY <3>1, <3>4, <2>5, <2>1, <1>t DEF QueuesOK
    <3>3. Owners' = Owners \cup {j}
      BY <2>5, <2>1, <1>t, ActiveMoves
    <3> QED
      BY <2>5, <3>2, <3>3, <2>1, <2>2, <2>3, <1>t, <1>k, MovesStep
  <2> QED
    BY <1>4, <2>4, <2>5 DEF InstallResolves
<1>5. CASE InstallReturns(j)
  <2>1. /\ jobs[j].phase = "resumed" /\ jobs[j].kind = "install"
        /\ Lists(loopQ', Waiting \ {j})
    BY <1>5, <1>t, RunsEffect DEF InstallReturns, Runs
  <2>2. Ends(j, jobs[j].out, 0, 0) /\ onProgress' = FALSE
    BY <1>5 DEF InstallReturns
  <2>3. QueuesOK' /\ Owners' = Owners \ {j}
    BY <2>1, <2>2, <1>t, <1>m, EndsEffect, ActiveMoves
  <2>4. Owners' = {}
    <3>1. j \in Active("install")
      BY <2>1 DEF Active
    <3>2. \A i \in Owners : i = j
      BY <3>1 DEF Inv, OneOperation, Owners
    <3> QED
      BY <2>3, <3>2
  <2>5. UNCHANGED <<world, busy, installing, reloadPending, timers, main, typeError>>
    BY <1>5 DEF InstallReturns
  <2>6. NativeOK'
    <3>1. Threaded \/ main = "idle"
      BY <1>5 DEF InstallReturns, Runs, LoopMayRun
    <3> QED
      BY <3>1, <2>5 DEF Inv, NativeOK
  <2> QED
    BY <2>1, <2>2, <2>3, <2>4, <2>5, <2>6, <1>t, <1>k, <1>m, MovesStep
<1> QED
  BY <1>1, <1>2, <1>3, <1>4, <1>5

\* ... and every other step: fwupd, the worker, the view and the callbacks.
LEMMA InvStep == Inv /\ [Next]_vars => Inv'
<1> SUFFICES ASSUME Inv, [Next]_vars PROVE Inv'
  OBVIOUS
<1> USE DEF daemonVars, provVars, schedVars, pageVars, flowVars, timerVars
<1>t. /\ TypeOK /\ DevRead /\ QueuesOK /\ OneTimer /\ NativeOK
      /\ timers \in Nat /\ reloadPending \in BOOLEAN /\ Len(world) \in Nat
  BY TypeFacts DEF Inv, TypeOK
<1>k. /\ "gather" \in Kind /\ "refresh" \in Kind /\ "install" \in Kind
      /\ NoRelease \in Release \cup {NoRelease}
      /\ "resumed" \in JobPhase /\ \A o \in {"ok", "failed", "denied"} : o \in Out
      /\ 0 \in 0 .. Len(world)
  BY <1>t DEF Kind, JobPhase, Out
<1>r. Rest' => Inv'
  BY <1>t, TypeStep DEF Inv, Rest
<1>1. CASE DaemonChange
  <2>1. PICK c \in Conditions : Becomes(c)
    BY <1>1 DEF DaemonChange
  <2>2. Len(world)' = Len(world) + 1
    BY <2>1, <1>t, WorldGrows
  <2>3. OneTimer' /\ NativeOK'
    BY <1>1, <1>t DEF DaemonChange, OneTimer, NativeOK
  <2> QED
    BY <1>1, <1>r, <2>2, <2>3, SameJobs DEF DaemonChange
<1>2. CASE DaemonProgress \/ DaemonStorm
  <2>1. OneTimer' /\ NativeOK'
    BY <1>2, <1>t DEF DaemonProgress, DaemonStorm, OneTimer, NativeOK
  <2> QED
    BY <1>2, <1>r, <2>1, SameJobs DEF DaemonProgress, DaemonStorm
<1>3. ASSUME NEW j \in Job, WorkerEnds(j) PROVE Inv'
  <2>1. PICK o \in {"ok", "failed", "denied"} : Moves(j, "resumed", o, 0, 0)
    BY <1>3 DEF WorkerEnds
  <2>2. jobs[j].kind = "install" /\ jobs[j].phase = "flashing" /\ loopQ' = Append(loopQ, j)
    BY <1>3 DEF WorkerEnds, Flashing
  <2>3. Waiting' = Waiting \cup {j} /\ Finished' = Finished \ {j}
    BY <2>1, <1>t, MovesEffect
  <2>4. j \notin Waiting /\ j \notin Finished /\ doneQ' = doneQ
    BY <1>3, <2>2 DEF Waiting, Finished, WorkerEnds
  <2>5. QueuesOK'
    BY <2>2, <2>3, <2>4, <1>t, AppendLists DEF QueuesOK
  <2>6. Owners' = Owners \cup {j} /\ j \in Owners
    BY <2>1, <2>2, <1>t, ActiveMoves DEF Owners, Active
  <2>7. UNCHANGED <<onProgress, busy, installing, reloadPending, timers, main, typeError>>
    BY <1>3 DEF WorkerEnds
  <2>8. onProgress' <=> Owners' # {}
    BY <2>6, <2>7 DEF Inv, ProgressHasOwner, Owners
  <2>9. NativeOK'
    BY <2>7, <1>t DEF NativeOK
  <2>10. Len(world)' = Len(world) \/ Len(world)' = Len(world) + 1
    BY <1>3, <1>t, WorldGrows DEF WorkerEnds
  <2> QED
    BY <2>1, <2>2, <2>5, <2>7, <2>8, <2>9, <2>10, <1>t, <1>k, <1>r, MovesStep
<1>4. ASSUME NEW j \in Job,
             \/ GatherDevices(j) \/ GatherUpgrades(j) \/ RefreshRemotes(j)
             \/ InstallResolves(j) \/ InstallReturns(j)
      PROVE  Inv'
  BY <1>4, <1>r, LoopStep
<1>5. CASE Load
  <2>1. OneTimer' /\ NativeOK'
    BY <1>5, <1>t DEF Load, OneTimer, NativeOK
  <2> QED
    BY <1>5, <1>k, <1>r, <2>1, SubmitStep DEF Load
<1>6. CASE StartLiveUpdates
  <2>1. OneTimer' /\ NativeOK'
    BY <1>6, <1>t DEF StartLiveUpdates, OneTimer, NativeOK
  <2> QED
    BY <1>6, <1>r, <2>1, SameJobs DEF StartLiveUpdates
<1>7. CASE OnChanged
  <2>1. OneTimer'
    BY <1>7, <1>t DEF OnChanged, OneTimer
  <2>2. NativeOK'
    BY <1>7, <1>t DEF OnChanged, NativeOK
  <2> QED
    BY <1>7, <1>r, <2>1, <2>2, SameJobs DEF OnChanged
<1>8. CASE ReloadTimeout
  <2>1. OneTimer'
    BY <1>8, <1>t DEF ReloadTimeout, OneTimer
  <2>2. NativeOK' /\ UNCHANGED <<world, onProgress, busy, installing>>
    BY <1>8, <1>t DEF ReloadTimeout, NativeOK
  <2>3. CASE UNCHANGED schedVars
    BY <2>1, <2>2, <2>3, <1>r, SameJobs
  <2>4. CASE Submit("gather", NoRelease)
    BY <2>1, <2>2, <2>4, <1>k, <1>r, SubmitStep
  <2> QED
    BY <1>8, <2>3, <2>4 DEF ReloadTimeout
<1>9. CASE ProgressCheck
  <2>1. OneTimer' /\ NativeOK'
    BY <1>9, <1>t DEF ProgressCheck, OneTimer, NativeOK
  <2> QED
    BY <1>9, <1>r, <2>1, SameJobs DEF ProgressCheck
<1>10. CASE ProgressCall
  <2>1. OneTimer'
    BY <1>10, <1>t DEF ProgressCall, OneTimer
  <2>2. NativeOK'
    BY <1>10, <1>t DEF ProgressCall, NativeOK
  <2>3. busy' = busy
    BY <1>10 DEF ProgressCall, Inv, OneOperation
  <2> QED
    BY <1>10, <1>r, <2>1, <2>2, <2>3, SameJobs DEF ProgressCall
<1>11. CASE RefreshMetadata
  <2>1. OneTimer' /\ NativeOK'
    BY <1>11, <1>t DEF RefreshMetadata, OneTimer, NativeOK
  <2> QED
    BY <1>11, <1>k, <1>r, <2>1, SubmitStep DEF RefreshMetadata
<1>12. ASSUME NEW r \in Release, RequestInstall(r) PROVE Inv'
  <2>1. OneTimer' /\ NativeOK' /\ UNCHANGED <<world, onProgress>> /\ busy = "none"
    BY <1>12, <1>t DEF RequestInstall, OneTimer, NativeOK
  <2>2. CASE UNCHANGED <<busy, installing, schedVars>>
    BY <2>1, <2>2, <1>r, SameJobs
  <2>3. CASE installing' = TRUE /\ busy' = "install" /\ Submit("install", r)
    BY <2>1, <2>3, <1>k, <1>r, SubmitStep
  <2> QED
    BY <1>12, <2>2, <2>3 DEF RequestInstall
<1>13. ASSUME NEW j \in Job, ApplyEmpty(j) \/ Apply(j) \/ LoadFailed(j) PROVE Inv'
  <2>1. \/ Delivers(j, "gather", {"ok"})
        \/ Delivers(j, "gather", {"unreachable", "parse"})
    BY <1>13 DEF ApplyEmpty, Apply, LoadFailed
  <2>2. /\ Drop(j)
        /\ UNCHANGED <<world, onProgress, main, typeError, reloadPending, timers,
                       busy, installing>>
    BY <1>13 DEF ApplyEmpty, Apply, LoadFailed
  <2> QED
    BY <2>1, <2>2, <1>k, <1>r, DeliversStep
<1>14. ASSUME NEW j \in Job, RefreshDone(j) \/ RefreshFailed(j) PROVE Inv'
  <2>1. Delivers(j, "refresh", {"ok"}) \/ Delivers(j, "refresh", {"unreachable"})
    BY <1>14 DEF RefreshDone, RefreshFailed
  <2>2. /\ Drop(j) \/ Regather(j)
        /\ UNCHANGED <<world, onProgress, main, typeError, reloadPending, timers, installing>>
        /\ busy' = "none"
    BY <1>14 DEF RefreshDone, RefreshFailed
  <2> QED
    BY <2>1, <2>2, <1>k, <1>r, DeliversStep
<1>15. ASSUME NEW j \in Job,
              InstallDone(j) \/ InstallDeclined(j) \/ InstallFailed(j) \/ InstallErrors(j)
       PROVE  Inv'
  <2>1. \E outs : Delivers(j, "install", outs)
    BY <1>15 DEF InstallDone, InstallDeclined, InstallFailed, InstallErrors
  <2>2. /\ Drop(j) \/ Regather(j)
        /\ UNCHANGED <<world, onProgress, main, typeError, reloadPending, timers>>
        /\ busy' = "none" /\ installing' = FALSE
    BY <1>15 DEF InstallDone, InstallDeclined, InstallFailed, InstallErrors
  <2> QED
    BY <2>1, <2>2, <1>k, <1>r, DeliversStep
<1>16. CASE UNCHANGED vars
  <2>1. OneTimer' /\ NativeOK'
    BY <1>16, <1>t DEF vars, OneTimer, NativeOK
  <2> QED
    BY <1>16, <1>r, <2>1, SameJobs DEF vars
<1> QED
  BY <1>1, <1>2, <1>3, <1>4, <1>5, <1>6, <1>7, <1>8, <1>9, <1>10, <1>11, <1>12,
     <1>13, <1>14, <1>15, <1>16
     DEF Next, Daemon, LoopRuns, Callback, Signals, User

-----------------------------------------------------------------------------
(* The theorems.                                                           *)

\* A new page has no job, and a scheduler with nothing to run.
LEMMA InvInit == Init => Inv
<1> SUFFICES ASSUME Init PROVE Inv
  OBVIOUS
<1>1. \A j \in Job : jobs[j] = FreeJob
  BY DEF Init
<1>2. \A j \in Job : jobs[j].phase = "free" /\ jobs[j].out = "none"
  BY <1>1 DEF FreeJob
<1>3. TypeOK
  BY TypeInit
<1>4. DevRead /\ KindOK
  BY <1>2 DEF DevRead, KindOK
<1>5. QueuesOK
  <2>1. Waiting = {} /\ Finished = {}
    BY <1>2 DEF Waiting, Finished
  <2>2. loopQ = <<>> /\ doneQ = <<>>
    BY DEF Init
  <2> QED
    BY <2>1, <2>2, EmptyLists DEF QueuesOK
<1>6. OneOperation /\ ProgressHasOwner
  <2>1. \A k : Active(k) = {}
    BY <1>2 DEF Active
  <2>2. busy = "none" /\ installing = FALSE /\ onProgress = FALSE
    BY DEF Init
  <2> QED
    BY <2>1, <2>2 DEF OneOperation, ProgressHasOwner
<1>7. OneTimer /\ NativeOK
  BY DEF Init, OneTimer, NativeOK
<1> QED
  BY <1>3, <1>4, <1>5, <1>6, <1>7 DEF Inv

\* The inductive invariant holds of every behaviour: its queues and kinds of
\* jobs are what keeps the facts a test of FirmwareViewModel would look at.
THEOREM InvHolds == Spec => []Inv
<1>1. Init => Inv
  BY InvInit
<1>2. Inv /\ [Next]_vars => Inv'
  BY InvStep
<1> QED
  BY <1>1, <1>2, PTL DEF Spec

\* Every handler of FirmwareViewModel and FwupdGir keeps the types, for any
\* number of jobs, signals and changes and any set of releases.
THEOREM TypeCorrect == Spec => []TypeOK
<1>1. Inv => TypeOK
  BY DEF Inv
<1> QED
  BY <1>1, InvHolds, PTL

\* busy_text excludes a second operation: at most one refresh or install is
\* in flight, busy_text and _installing name it, and a late progress signal
\* never brings the banner back, with either scheduler.
THEOREM OneOperationHolds == Spec => []OneOperation
<1>1. Inv => OneOperation
  BY DEF Inv
<1> QED
  BY <1>1, InvHolds, PTL

\* FwupdGir._on_progress is set exactly while the one install in flight is
\* between its await and its finally clause.
THEOREM ProgressOwned == Spec => []ProgressHasOwner
<1>1. Inv => ProgressHasOwner
  BY DEF Inv
<1> QED
  BY <1>1, InvHolds, PTL

\* _reload_pending counts the armed debounce timeouts: a storm of signals
\* never arms a second one.
THEOREM OneTimerHolds == Spec => []OneTimer
<1>1. Inv => OneTimer
  BY DEF Inv
<1> QED
  BY <1>1, InvHolds, PTL

\* On the native GLib loop _properties_changed never calls a callback that
\* install() has cleared: the check and the call are one main-loop dispatch.
\* With the loop thread install() may clear it between the two.
THEOREM NativeProgressSafe ==
    ASSUME ~Threaded
    PROVE  Spec => []ProgressNeverNone
<1>1. Inv => ProgressNeverNone
  BY DEF Inv, NativeOK, ProgressNeverNone
<1> QED
  BY <1>1, InvHolds, PTL
-----------------------------------------------------------------------------
(* The order of the reads: gathers read one at a time on the loop, and     *)
(* their callbacks are applied in the order they ended.                    *)

Listed == {j \in Job : jobs[j].phase = "listed"}
Gathered == {j \in Job : jobs[j].phase = "done" /\ jobs[j].kind = "gather"}
Reads == {j \in Gathered : jobs[j].out = "ok"}

\* The page is no newer than the reads under way, which are applied in the
\* order in which they saw the device.
ReadOrder ==
    /\ \A i, k \in Listed : i = k
    /\ \A j \in Listed \cup Reads : shown.dev =< jobs[j].dev
    /\ \A i \in Reads, k \in Listed : jobs[i].dev =< jobs[k].dev
    /\ \A i, k \in Reads : Before(doneQ, i, k) => jobs[i].dev =< jobs[k].dev

\* The order of two gathers whose callbacks wait.
SameOrder(S) == \A i, k \in S : Before(doneQ', i, k) <=> Before(doneQ, i, k)

\* A step of a job that neither reads the device nor has read it.
LEMMA Bystander ==
    ASSUME Inv, NEW j \in Job, j \notin Listed, j \notin Gathered,
           \A i \in Job : i # j => jobs'[i] = jobs[i],
           jobs'[j].phase # "listed", jobs'[j].phase = "done" => jobs'[j].kind # "gather"
    PROVE  /\ Listed' = Listed /\ Gathered' = Gathered /\ Reads' = Reads
           /\ \A i \in Listed \cup Gathered : jobs'[i] = jobs[i]
BY DEF Listed, Gathered, Reads

\* The queue of callbacks is a queue of the finished jobs.
LEMMA GatheredFinished ==
    ASSUME Inv
    PROVE  /\ Gathered \subseteq Finished /\ Reads \subseteq Gathered
           /\ Finished \subseteq Job /\ Lists(doneQ, Finished)
BY DEF Gathered, Reads, Finished, Inv, QueuesOK

\* A job that ends is called back after all that have ended.
LEMMA EndsOrder ==
    ASSUME Inv, NEW j \in Job, jobs[j].phase # "done", doneQ' = Append(doneQ, j)
    PROVE  /\ SameOrder(Gathered)
           /\ \A i \in Gathered : Before(doneQ', i, j) /\ ~Before(doneQ', j, i)
<1>1. j \notin Finished /\ Lists(doneQ, Finished) /\ Gathered \subseteq Finished
  BY GatheredFinished DEF Finished
<1>2. /\ \A x, y \in Finished : Before(Append(doneQ, j), x, y) <=> Before(doneQ, x, y)
      /\ \A x \in Finished : Before(Append(doneQ, j), x, j) /\ ~Before(Append(doneQ, j), j, x)
  BY <1>1, AppendOrder
<1> QED
  BY <1>1, <1>2 DEF SameOrder

\* The job called back had ended before all others that wait.
LEMMA DeliversOrder ==
    ASSUME Inv, NEW j \in Job, NEW k, NEW outs, Delivers(j, k, outs)
    PROVE  /\ SameOrder(Gathered \ {j})
           /\ \A i \in Gathered : ~Before(doneQ, i, j)
           /\ \A i \in Gathered \ {j} : Before(doneQ, j, i)
<1>1. Lists(doneQ, Finished) /\ Gathered \subseteq Finished
  BY GatheredFinished
<1>2. doneQ # <<>> /\ Head(doneQ) = j /\ doneQ' = Tail(doneQ)
  BY DEF Delivers
<1>3. /\ \A x, y \in Finished \ {j} : Before(Tail(doneQ), x, y) <=> Before(doneQ, x, y)
      /\ \A x \in Finished : ~Before(doneQ, x, j)
      /\ \A x \in Finished \ {j} : Before(doneQ, j, x)
  BY <1>1, <1>2, TailOrder
<1> QED
  BY <1>1, <1>2, <1>3 DEF SameOrder

\* What a callback takes away: its own job, if that was a gather.
LEMMA DeliversReads ==
    ASSUME Inv, NEW j \in Job, NEW k, NEW outs, Delivers(j, k, outs), Drop(j) \/ Regather(j)
    PROVE  /\ Listed' = Listed /\ Gathered' = Gathered \ {j} /\ Reads' = Reads \ {j}
           /\ \A i \in Listed \cup Gathered : i # j => jobs'[i] = jobs[i]
           /\ j \notin Listed /\ jobs[j].kind = k
           /\ k = "gather" => j \in Gathered
<1>1. TypeOK /\ QueuesOK
  BY DEF Inv
<1>2. /\ jobs[j].phase = "done" /\ jobs[j].kind = k
      /\ \A i \in Job : i # j => jobs'[i] = jobs[i]
      /\ jobs'[j] \in {FreeJob, NewJob("gather", NoRelease)}
  BY <1>1, DeliversEffect
<1>3. jobs'[j].phase \in {"free", "queued"}
  BY <1>2 DEF FreeJob, NewJob
<1> QED
  BY <1>2, <1>3 DEF Listed, Gathered, Reads

\* Steps that add no read and apply none keep the order.
LEMMA SameReads ==
    ASSUME Inv, ReadOrder, Listed' \subseteq Listed, Reads' \subseteq Reads,
           \A i \in Listed' \cup Reads' : jobs'[i] = jobs[i],
           UNCHANGED shown, SameOrder(Reads')
    PROVE  ReadOrder'
BY DEF ReadOrder, SameOrder

\* What a submitted job changes: nothing that was read.
LEMMA SubmitReads ==
    ASSUME Inv, NEW k \in Kind, NEW r \in Release \cup {NoRelease}, Submit(k, r)
    PROVE  /\ Listed' = Listed /\ Gathered' = Gathered /\ Reads' = Reads
           /\ \A i \in Listed \cup Gathered : jobs'[i] = jobs[i]
           /\ UNCHANGED doneQ
           /\ \E j \in Job : /\ jobs[j].phase = "free"
                             /\ jobs'[j].phase = "queued" /\ jobs'[j].kind = k
                             /\ \A i \in Job : i # j => jobs'[i] = jobs[i]
<1>1. TypeOK /\ QueuesOK /\ jobs \in [Job -> JobRecord(Len(world))]
  BY TypeFacts DEF Inv
<1>2. PICK j \in Job : jobs[j].phase = "free" /\ jobs' = [jobs EXCEPT ![j] = NewJob(k, r)]
  BY <1>1, SubmitEffect
<1>3. /\ \A i \in Job : i # j => jobs'[i] = jobs[i]
      /\ jobs'[j].phase = "queued" /\ jobs'[j].kind = k
  BY <1>1, <1>2 DEF NewJob
<1>4. j \notin Listed /\ j \notin Gathered
  BY <1>2 DEF Listed, Gathered
<1>5. UNCHANGED doneQ
  BY DEF Submit
<1> QED
  BY <1>2, <1>3, <1>4, <1>5, Bystander
\* A coroutine that ends: a gather's result waits behind those that wait.
LEMMA EndsReads ==
    ASSUME Inv, NEW j \in Job, NEW o, NEW dev, NEW rel, Ends(j, o, dev, rel),
           jobs[j].phase # "done"
    PROVE  /\ Listed' = Listed \ {j}
           /\ Gathered' = IF jobs[j].kind = "gather" THEN Gathered \cup {j} ELSE Gathered
           /\ Reads' = IF jobs[j].kind = "gather" /\ o = "ok" THEN Reads \cup {j} ELSE Reads
           /\ \A i \in Job : i # j => jobs'[i] = jobs[i]
           /\ jobs'[j].dev = dev /\ jobs'[j].rel = rel /\ jobs'[j].out = o
           /\ SameOrder(Gathered) /\ j \notin Gathered
           /\ \A i \in Gathered : Before(doneQ', i, j) /\ ~Before(doneQ', j, i)
<1>1. TypeOK /\ Moves(j, "done", o, dev, rel) /\ doneQ' = Append(doneQ, j)
  BY DEF Inv, Ends
<1>2. /\ \A i \in Job : i # j => jobs'[i] = jobs[i]
      /\ jobs'[j] = [phase |-> "done", kind |-> jobs[j].kind, release |-> jobs[j].release,
                     dev |-> dev, rel |-> rel, out |-> o]
  BY <1>1, MovesEffect
<1>3. /\ jobs'[j].phase = "done" /\ jobs'[j].kind = jobs[j].kind
      /\ jobs'[j].dev = dev /\ jobs'[j].rel = rel /\ jobs'[j].out = o
  BY <1>2
<1>4. Listed' = Listed \ {j}
  BY <1>2, <1>3 DEF Listed
<1>5. Gathered' = IF jobs[j].kind = "gather" THEN Gathered \cup {j} ELSE Gathered
  BY <1>2, <1>3 DEF Gathered
<1>6. Reads' = IF jobs[j].kind = "gather" /\ o = "ok" THEN Reads \cup {j} ELSE Reads
  BY <1>2, <1>3 DEF Reads, Gathered
<1>7. j \notin Gathered
  BY DEF Gathered
<1> QED
  BY <1>1, <1>2, <1>3, <1>4, <1>5, <1>6, <1>7, EndsOrder

\* A read that ends with the device as newest known joins the order last.
LEMMA JoinsReads ==
    ASSUME Inv, ReadOrder, NEW j \in Job, NEW dev \in Nat, NEW rel,
           Ends(j, "ok", dev, rel), jobs[j].phase # "done", jobs[j].kind = "gather",
           Listed \subseteq {j}, \A i \in Reads : jobs[i].dev =< dev, shown.dev =< dev,
           UNCHANGED shown
    PROVE  ReadOrder'
<1>1. /\ Listed' = {} /\ Reads' = Reads \cup {j}
      /\ \A i \in Job : i # j => jobs'[i] = jobs[i]
      /\ jobs'[j].dev = dev
      /\ SameOrder(Gathered) /\ j \notin Gathered
      /\ \A i \in Gathered : Before(doneQ', i, j) /\ ~Before(doneQ', j, i)
  BY EndsReads
<1>2. Reads \subseteq Gathered /\ Gathered \subseteq Job /\ j \notin Reads
  BY <1>1 DEF Reads, Gathered
<1>3. \A i \in Reads : jobs'[i] = jobs[i]
  BY <1>1, <1>2
<1>4. \A i \in Reads' : shown'.dev =< jobs'[i].dev
  BY <1>1, <1>3 DEF ReadOrder
<1>5. ASSUME NEW i \in Reads', NEW k \in Reads', Before(doneQ', i, k)
      PROVE  jobs'[i].dev =< jobs'[k].dev
  <2>1. CASE k = j
    BY <2>1, <1>1, <1>3
  <2>2. CASE k # j
    <3>1. k \in Reads /\ i \in Reads
      BY <2>2, <1>1, <1>2, <1>5
    <3>2. Before(doneQ, i, k)
      BY <3>1, <1>1, <1>2, <1>5 DEF SameOrder
    <3> QED
      BY <3>1, <3>2, <1>3 DEF ReadOrder
  <2> QED
    BY <2>1, <2>2
<1> QED
  BY <1>1, <1>4, <1>5 DEF ReadOrder

\* A job that moves to where nothing was read.
LEMMA MovesReads ==
    ASSUME Inv, NEW j \in Job, NEW p, NEW o, NEW dev, NEW rel, Moves(j, p, o, dev, rel),
           p \notin {"done", "listed"}, jobs[j].phase \notin {"done", "listed"}
    PROVE  /\ Listed' = Listed /\ Gathered' = Gathered /\ Reads' = Reads
           /\ \A i \in Listed \cup Gathered : jobs'[i] = jobs[i]
           /\ \A i \in Job : i # j => jobs'[i] = jobs[i]
           /\ jobs'[j].kind = jobs[j].kind
<1>1. TypeOK
  BY DEF Inv
<1>2. /\ \A i \in Job : i # j => jobs'[i] = jobs[i]
      /\ jobs'[j] = [phase |-> p, kind |-> jobs[j].kind, release |-> jobs[j].release,
                     dev |-> dev, rel |-> rel, out |-> o]
  BY <1>1, MovesEffect
<1>3. jobs'[j].phase = p /\ jobs'[j].kind = jobs[j].kind
  BY <1>2
<1>4. j \notin Listed /\ j \notin Gathered
  BY DEF Listed, Gathered
<1> QED
  BY <1>2, <1>3, <1>4, Bystander

\* Every read and every result kept is of a condition the device was in.
LEMMA ReadBound ==
    ASSUME Inv
    PROVE  /\ Now \in Nat \ {0} /\ shown.dev \in 0 .. Now
           /\ \A j \in Listed \cup Reads : jobs[j].dev \in 1 .. Now
BY TypeFacts DEF Inv, TypeOK, DevRead, Listed, Reads, Gathered, Now
\* The daemon, a click, a signal or a timeout leave the order alone.
LEMMA StaysInOrder ==
    ASSUME Inv, ReadOrder, UNCHANGED <<shown, doneQ>>,
           Listed' = Listed, Reads' = Reads, \A i \in Listed \cup Reads : jobs'[i] = jobs[i]
    PROVE  ReadOrder'
<1>1. SameOrder(Reads')
  BY DEF SameOrder
<1> QED
  BY <1>1, SameReads

\* The steps of the loop keep the order: a gather reads only when no other is
\* between its reads, and sees the newest condition.
LEMMA LoopReadOrder ==
    ASSUME Inv, ReadOrder, NEW j \in Job,
           \/ GatherDevices(j) \/ GatherUpgrades(j) \/ RefreshRemotes(j)
           \/ InstallResolves(j) \/ InstallReturns(j)
    PROVE  ReadOrder'
<1>b. /\ Now \in Nat \ {0} /\ shown.dev \in 0 .. Now
      /\ \A i \in Listed \cup Reads : jobs[i].dev \in 1 .. Now
  BY ReadBound
<1>s. UNCHANGED shown
  BY DEF GatherDevices, GatherUpgrades, RefreshRemotes, InstallResolves, InstallReturns,
         pageVars
<1>f. ASSUME NEW o, NEW dev, NEW rel, Ends(j, o, dev, rel), jobs[j].phase # "done",
             jobs[j].kind # "gather" \/ o # "ok"
      PROVE  ReadOrder'
  <2>1. /\ Listed' \subseteq Listed /\ Reads' = Reads
        /\ \A i \in Job : i # j => jobs'[i] = jobs[i]
        /\ SameOrder(Gathered) /\ j \notin Gathered /\ j \notin Listed'
    BY <1>f, EndsReads
  <2>2. Reads \subseteq Gathered /\ Listed \subseteq Job /\ Gathered \subseteq Job
    BY DEF Reads, Listed, Gathered
  <2>3. /\ \A i \in Listed' \cup Reads' : jobs'[i] = jobs[i]
        /\ SameOrder(Reads')
    BY <2>1, <2>2 DEF SameOrder
  <2> QED
    BY <1>s, <2>1, <2>3, SameReads
<1>1. CASE GatherDevices(j)
  <2>1. jobs[j].phase = "queued" /\ jobs[j].kind = "gather" /\ Listed = {}
    BY <1>1 DEF GatherDevices, Runs, LoopMayRun, LoopBusy, Listed
  <2>2. CASE \E o \in {"unreachable", "parse"} : Ends(j, o, 0, 0)
    BY <2>1, <2>2, <1>f
  <2>3. CASE Ends(j, "ok", Now, Now)
    BY <2>1, <2>3, <1>b, <1>s, JoinsReads
  <2>4. CASE Moves(j, "listed", "none", Now, 0) /\ UNCHANGED doneQ
    <3>1. /\ \A i \in Job : i # j => jobs'[i] = jobs[i]
          /\ jobs'[j] = [phase |-> "listed", kind |-> jobs[j].kind,
                         release |-> jobs[j].release,
                         dev |-> Now, rel |-> 0, out |-> "none"]
      BY <2>4, MovesEffect DEF Inv
    <3>2. Listed' = {j} /\ jobs'[j].dev = Now
      BY <2>1, <3>1 DEF Listed
    <3>3. Reads' = Reads /\ \A i \in Reads : jobs'[i] = jobs[i]
      BY <2>1, <3>1 DEF Reads, Gathered
    <3> QED
      BY <2>4, <3>2, <3>3, <1>b, <1>s DEF ReadOrder
  <2> QED
    BY <1>1, <2>2, <2>3, <2>4 DEF GatherDevices
<1>2. CASE GatherUpgrades(j)
  <2>1. PICK rel \in {Now, 0} : Ends(j, "ok", jobs[j].dev, rel)
    BY <1>2 DEF GatherUpgrades
  <2>2. j \in Listed /\ jobs[j].phase # "done" /\ jobs[j].kind = "gather"
    BY <1>2 DEF GatherUpgrades, Listed, Inv, KindOK
  <2>3. /\ Listed \subseteq {j} /\ shown.dev =< jobs[j].dev
        /\ \A i \in Reads : jobs[i].dev =< jobs[j].dev
    BY <2>2 DEF ReadOrder
  <2>4. jobs[j].dev \in Nat
    BY <2>2, <1>b
  <2> QED
    BY <2>1, <2>2, <2>3, <2>4, <1>s, JoinsReads
<1>3. CASE RefreshRemotes(j)
  BY <1>3, <1>f DEF RefreshRemotes, Runs
<1>4. CASE InstallResolves(j)
  <2>1. jobs[j].kind = "install" /\ jobs[j].phase = "queued"
    BY <1>4 DEF InstallResolves, Runs
  <2>2. CASE Moves(j, "flashing", "none", 0, 0) /\ UNCHANGED doneQ
    <3>1. /\ Listed' = Listed /\ Gathered' = Gathered /\ Reads' = Reads
          /\ \A i \in Listed \cup Gathered : jobs'[i] = jobs[i]
      BY <2>1, <2>2, MovesReads
    <3> QED
      BY <2>2, <3>1, <1>s, StaysInOrder DEF Reads
  <2> QED
    BY <1>4, <2>1, <2>2, <1>f DEF InstallResolves
<1>5. CASE InstallReturns(j)
  BY <1>5, <1>f DEF InstallReturns, Runs
<1> QED
  BY <1>1, <1>2, <1>3, <1>4, <1>5

\* A callback keeps the order: what _apply shows is the first of the reads.
LEMMA CallbackReadOrder ==
    ASSUME Inv, ReadOrder, NEW j \in Job,
           \/ ApplyEmpty(j) \/ Apply(j) \/ LoadFailed(j)
           \/ RefreshDone(j) \/ RefreshFailed(j)
           \/ InstallDone(j) \/ InstallDeclined(j) \/ InstallFailed(j) \/ InstallErrors(j)
    PROVE  ReadOrder' /\ shown'.dev >= shown.dev
<1>1. PICK k, outs : Delivers(j, k, outs) /\ (Drop(j) \/ Regather(j))
  BY DEF ApplyEmpty, Apply, LoadFailed, RefreshDone, RefreshFailed,
         InstallDone, InstallDeclined, InstallFailed, InstallErrors
<1>2. /\ Listed' = Listed /\ Reads' = Reads \ {j} /\ j \notin Listed
      /\ \A i \in Listed \cup Gathered : i # j => jobs'[i] = jobs[i]
  BY <1>1, DeliversReads
<1>3. /\ SameOrder(Gathered \ {j}) /\ Reads \subseteq Gathered
      /\ \A i \in Gathered \ {j} : Before(doneQ, j, i)
  BY <1>1, DeliversOrder DEF Reads
<1>4. /\ \A i \in Listed' \cup Reads' : jobs'[i] = jobs[i]
      /\ SameOrder(Reads')
  BY <1>2, <1>3 DEF SameOrder
<1>5. CASE UNCHANGED shown
  <2>1. shown.dev \in Nat
    BY ReadBound
  <2> QED
    BY <1>2, <1>4, <1>5, <2>1, SameReads
<1>6. CASE Apply(j)
  <2>1. j \in Reads
    BY <1>6, DeliversEffect DEF Apply, Delivers, Reads, Gathered, Inv
  <2>2. shown'.dev = jobs[j].dev
    BY <1>6 DEF Apply
  <2>3. \A i \in Listed' \cup Reads' : shown'.dev =< jobs'[i].dev
    BY <1>2, <1>3, <1>4, <2>1, <2>2 DEF ReadOrder
  <2>4. shown'.dev >= shown.dev
    BY <2>1, <2>2, ReadBound DEF ReadOrder
  <2> QED
    BY <1>2, <1>4, <2>3, <2>4 DEF ReadOrder, SameOrder
<1> QED
  BY <1>5, <1>6 DEF ApplyEmpty, Apply, LoadFailed, RefreshDone, RefreshFailed,
     InstallDone, InstallDeclined, InstallFailed, InstallErrors, pageVars
\* Every step keeps the order, and shows no older condition than before.
LEMMA ReadOrderStep ==
    Inv /\ ReadOrder /\ [Next]_vars => ReadOrder' /\ shown'.dev >= shown.dev
<1> SUFFICES ASSUME Inv, ReadOrder, [Next]_vars PROVE ReadOrder' /\ shown'.dev >= shown.dev
  OBVIOUS
<1> USE DEF schedVars, pageVars
<1>b. shown.dev \in Nat
  BY ReadBound
<1>s. ASSUME UNCHANGED <<jobs, doneQ, shown>> PROVE ReadOrder' /\ shown'.dev >= shown.dev
  <2>1. Listed' = Listed /\ Reads' = Reads
    BY <1>s DEF Listed, Reads, Gathered
  <2> QED
    BY <1>s, <1>b, <2>1, StaysInOrder
<1>u. ASSUME NEW k \in Kind, NEW r \in Release \cup {NoRelease}, Submit(k, r), UNCHANGED shown
      PROVE  ReadOrder' /\ shown'.dev >= shown.dev
  <2>1. /\ Listed' = Listed /\ Reads' = Reads /\ UNCHANGED doneQ
        /\ \A i \in Listed \cup Reads : jobs'[i] = jobs[i]
    BY <1>u, SubmitReads DEF Reads
  <2> QED
    BY <1>u, <1>b, <2>1, StaysInOrder
<1>1. CASE \/ DaemonChange \/ DaemonStorm \/ DaemonProgress \/ StartLiveUpdates
           \/ OnChanged \/ ProgressCheck \/ ProgressCall \/ UNCHANGED vars
  BY <1>1, <1>s DEF DaemonChange, DaemonStorm, DaemonProgress, StartLiveUpdates, OnChanged,
     ProgressCheck, ProgressCall, vars
<1>2. CASE Load \/ RefreshMetadata
  BY <1>2, <1>u DEF Load, RefreshMetadata, Kind
<1>3. CASE ReloadTimeout
  BY <1>3, <1>s, <1>u DEF ReloadTimeout, Kind
<1>4. ASSUME NEW r \in Release, RequestInstall(r) PROVE ReadOrder' /\ shown'.dev >= shown.dev
  BY <1>4, <1>s, <1>u DEF RequestInstall, Kind
<1>5. ASSUME NEW j \in Job, WorkerEnds(j) PROVE ReadOrder' /\ shown'.dev >= shown.dev
  <2>1. PICK o : Moves(j, "resumed", o, 0, 0)
    BY <1>5 DEF WorkerEnds
  <2>2. jobs[j].phase = "flashing" /\ UNCHANGED <<doneQ, shown>>
    BY <1>5 DEF WorkerEnds, Flashing
  <2>3. /\ Listed' = Listed /\ Reads' = Reads
        /\ \A i \in Listed \cup Reads : jobs'[i] = jobs[i]
    BY <2>1, <2>2, MovesReads DEF Reads
  <2> QED
    BY <1>b, <2>2, <2>3, StaysInOrder
<1>6. ASSUME NEW j \in Job,
             \/ GatherDevices(j) \/ GatherUpgrades(j) \/ RefreshRemotes(j)
             \/ InstallResolves(j) \/ InstallReturns(j)
      PROVE  ReadOrder' /\ shown'.dev >= shown.dev
  <2>1. UNCHANGED shown
    BY <1>6 DEF GatherDevices, GatherUpgrades, RefreshRemotes, InstallResolves, InstallReturns
  <2> QED
    BY <1>6, <1>b, <2>1, LoopReadOrder
<1> QED
  BY <1>1, <1>2, <1>3, <1>4, <1>5, <1>6, CallbackReadOrder
     DEF Next, Daemon, LoopRuns, Callback, Signals, User

-----------------------------------------------------------------------------
(* The page is up to date, unless a change was missed.                     *)

UpToDate(dev, rel) == dev = Now /\ rel \in {Now, 0}

\* The gather whose callback comes last of those that wait.
LastRead(i) == i \in Gathered /\ \A k \in Gathered : ~Before(doneQ, i, k)

\* The last read of the device, wherever its result has got to, is of the
\* condition it is in.
Current ==
    /\ \A i \in Listed : jobs[i].dev = Now
    /\ Listed = {} =>
         /\ \A i \in Reads : LastRead(i) => UpToDate(jobs[i].dev, jobs[i].rel)
         /\ Gathered = {} /\ state = "ready" => UpToDate(shown.dev, shown.rel)

\* Another gather will be: its signal waits, its timeout is armed, or it is
\* queued.
Announced == \E i \in DOMAIN signals : signals[i] = "changed"
Queued == \E j \in Job : jobs[j].kind = "gather" /\ jobs[j].phase = "queued"
Promised == Announced \/ reloadPending \/ Queued

\* The reboot banner is of the condition shown.
BannerOK == shown.dev # 0 => rebootBanner = world[shown.dev].reboot

Kept == missed \/ Promised \/ Current

\* What leaves the reads that wait, and the condition, as they are.
LEMMA StaysCurrent ==
    ASSUME Inv, Current, UNCHANGED <<world, shown, doneQ>>,
           state' \in {state, "loading", "unavailable", "error"},
           Listed' = Listed, Gathered' = Gathered, Reads' = Reads,
           \A i \in Listed \cup Gathered : jobs'[i] = jobs[i]
    PROVE  Current'
BY DEF Current, LastRead, UpToDate, Now, Reads

\* Steps that leave jobs, signals and the condition alone.
LEMMA KeptAsIs ==
    ASSUME Inv, Kept, UNCHANGED <<world, jobs, doneQ, shown, state>>,
           missed => missed', reloadPending => reloadPending', Announced => Announced'
    PROVE  Kept'
<1>1. Listed' = Listed /\ Gathered' = Gathered /\ Reads' = Reads
  BY DEF Listed, Gathered, Reads
<1>2. Queued' = Queued
  BY DEF Queued
<1> QED
  BY <1>1, <1>2, StaysCurrent DEF Kept, Promised

\* A submitted job takes nothing away; a gather is a promise.
LEMMA KeptSubmit ==
    ASSUME Inv, Kept, NEW k \in Kind, NEW r \in Release \cup {NoRelease}, Submit(k, r),
           UNCHANGED <<world, signals, shown>>, state' \in {state, "loading"},
           k = "gather" \/ UNCHANGED <<missed, reloadPending>>
    PROVE  Kept'
<1>1. /\ Listed' = Listed /\ Gathered' = Gathered /\ Reads' = Reads
      /\ \A i \in Listed \cup Gathered : jobs'[i] = jobs[i]
      /\ UNCHANGED doneQ
  BY SubmitReads
<1>2. PICK j \in Job : /\ jobs[j].phase = "free"
                       /\ jobs'[j].phase = "queued" /\ jobs'[j].kind = k
                       /\ \A i \in Job : i # j => jobs'[i] = jobs[i]
  BY SubmitReads
<1>3. Queued => Queued'
  BY <1>2 DEF Queued
<1>4. CASE k = "gather"
  BY <1>2, <1>4 DEF Kept, Promised, Queued
<1>5. CASE UNCHANGED <<missed, reloadPending>>
  BY <1>1, <1>3, <1>5, StaysCurrent DEF Kept, Promised, Announced
<1> QED
  BY <1>4, <1>5
\* A signal emitted to the page joins those that wait.
LEMMA EmitAnnounces ==
    ASSUME TypeOK, NEW s \in {"changed", "progress"}, Emit(s)
    PROVE  /\ Announced => Announced'
           /\ subscribed /\ s = "changed" => Announced'
<1>1. signals \in Seq({"changed", "progress"}) /\ Len(signals) \in Nat
  BY DEF TypeOK
<1>2. CASE signals' = signals
  BY <1>2 DEF Emit, Announced
<1>3. CASE signals' = Append(signals, s)
  <2>1. /\ DOMAIN signals = 1 .. Len(signals) /\ DOMAIN signals' = 1 .. Len(signals) + 1
        /\ \A i \in 1 .. Len(signals) : signals'[i] = signals[i]
        /\ signals'[Len(signals) + 1] = s
    BY <1>1, <1>3
  <2>2. Len(signals) + 1 \in DOMAIN signals' /\ DOMAIN signals \subseteq DOMAIN signals'
    BY <1>1, <2>1
  <2> QED
    BY <2>1, <2>2 DEF Announced
<1>4. \/ signals' = signals /\ ~subscribed
     \/ signals' = Append(signals, s)
  BY DEF Emit
<1> QED
  BY <1>2, <1>3, <1>4

\* A change of the device is announced, or missed by a page that does not listen.
LEMMA ChangeAnnounced ==
    ASSUME TypeOK, NEW c, Becomes(c)
    PROVE  missed' \/ Announced'
BY EmitAnnounces DEF Becomes

\* Dispatching a progress signal leaves the others waiting.
LEMMA TakesProgress ==
    ASSUME TypeOK, Takes("progress"), Announced
    PROVE  Announced'
<1>1. signals \in Seq({"changed", "progress"}) /\ signals # <<>> /\ Len(signals) \in Nat
  BY DEF TypeOK, Takes
<1>2. Head(signals) = "progress" /\ signals' = Tail(signals)
  BY DEF Takes
<1>3. /\ DOMAIN signals = 1 .. Len(signals) /\ DOMAIN signals' = 1 .. Len(signals) - 1
      /\ \A i \in 1 .. Len(signals) - 1 : signals'[i] = signals[i + 1]
      /\ signals[1] = "progress"
  BY <1>1, <1>2
<1>4. PICK i \in DOMAIN signals : signals[i] = "changed"
  BY DEF Announced
<1>5. i # 1
  BY <1>3, <1>4
<1>6. i - 1 \in DOMAIN signals' /\ signals'[i - 1] = "changed"
  BY <1>1, <1>3, <1>4, <1>5
<1> QED
  BY <1>6 DEF Announced

\* A gather that ends is the last read, and the only one that may be.
LEMMA EndsLast ==
    ASSUME Inv, NEW j \in Job, NEW o, NEW dev, NEW rel, Ends(j, o, dev, rel),
           jobs[j].phase # "done", jobs[j].kind = "gather", UNCHANGED world,
           \A i \in Listed : jobs[i].dev = Now,
           o = "ok" => UpToDate(dev, rel)
    PROVE  Current'
<1>1. /\ Listed' = Listed \ {j} /\ Gathered' = Gathered \cup {j}
      /\ \A i \in Job : i # j => jobs'[i] = jobs[i]
      /\ jobs'[j].dev = dev /\ jobs'[j].rel = rel /\ jobs'[j].out = o
      /\ \A i \in Gathered : Before(doneQ', i, j)
  BY EndsReads
<1>2. \A i \in Listed' : jobs'[i].dev = Now'
  BY <1>1 DEF Listed, Now
<1>3. ASSUME NEW i \in Reads', LastRead(i)' PROVE UpToDate(jobs[i].dev, jobs[i].rel)'
  <2>1. i = j
    BY <1>1, <1>3 DEF LastRead
  <2>2. o = "ok"
    BY <1>1, <1>3, <2>1 DEF Reads
  <2> QED
    BY <1>1, <2>1, <2>2 DEF UpToDate, Now
<1> QED
  BY <1>1, <1>2, <1>3 DEF Current

\* A job that reads nothing leaves the last read where it is.
LEMMA KeptEnds ==
    ASSUME Inv, Kept, NEW j \in Job, NEW o, NEW dev, NEW rel, Ends(j, o, dev, rel),
           jobs[j].phase # "done", jobs[j].kind # "gather",
           UNCHANGED <<world, signals, shown, state, reloadPending, missed>>
    PROVE  Kept'
<1>1. /\ Listed' = Listed \ {j} /\ Gathered' = Gathered /\ Reads' = Reads
      /\ \A i \in Job : i # j => jobs'[i] = jobs[i]
      /\ SameOrder(Gathered) /\ j \notin Gathered
  BY EndsReads
<1>2. j \notin Listed /\ Gathered \subseteq Job /\ Listed \subseteq Job /\ Reads \subseteq Gathered
  BY DEF Listed, Gathered, Reads, Inv, KindOK
<1>3. \A i \in Gathered : LastRead(i)' = LastRead(i)
  BY <1>1 DEF LastRead, SameOrder
<1>4. Current => Current'
  BY <1>1, <1>2, <1>3 DEF Current, UpToDate, Now
<1>5. Queued => Queued'
  BY <1>1 DEF Queued
<1> QED
  BY <1>4, <1>5 DEF Kept, Promised, Announced

\* The loop keeps the promise: a gather that runs fulfils it.
LEMMA LoopKept ==
    ASSUME Inv, Kept, NEW j \in Job,
           \/ GatherDevices(j) \/ GatherUpgrades(j) \/ RefreshRemotes(j)
           \/ InstallResolves(j) \/ InstallReturns(j)
    PROVE  Kept'
<1> USE DEF daemonVars, pageVars, timerVars
<1>1. CASE GatherDevices(j)
  <2>1. /\ jobs[j].phase = "queued" /\ jobs[j].kind = "gather" /\ Listed = {}
        /\ UNCHANGED world /\ TypeOK
    BY <1>1 DEF GatherDevices, Runs, LoopMayRun, LoopBusy, Listed, Inv
  <2>2. CASE \E o \in {"unreachable", "parse"} : Ends(j, o, 0, 0)
    BY <2>1, <2>2, EndsLast DEF Kept
  <2>3. CASE Ends(j, "ok", Now, Now)
    BY <2>1, <2>3, EndsLast DEF Kept, UpToDate
  <2>4. CASE Moves(j, "listed", "none", Now, 0)
    <3>1. /\ \A i \in Job : i # j => jobs'[i] = jobs[i]
          /\ jobs'[j] = [phase |-> "listed", kind |-> jobs[j].kind,
                         release |-> jobs[j].release,
                         dev |-> Now, rel |-> 0, out |-> "none"]
      BY <2>1, <2>4, MovesEffect
    <3>2. Listed' = {j} /\ jobs'[j].dev = Now
      BY <2>1, <3>1 DEF Listed
    <3> QED
      BY <2>1, <3>2 DEF Kept, Current, Now
  <2> QED
    BY <1>1, <2>2, <2>3, <2>4 DEF GatherDevices
<1>2. CASE GatherUpgrades(j)
  <2>1. PICK rel \in {Now, 0} : Ends(j, "ok", jobs[j].dev, rel)
    BY <1>2 DEF GatherUpgrades
  <2>2. /\ j \in Listed /\ jobs[j].phase = "listed" /\ jobs[j].kind = "gather"
        /\ UNCHANGED <<world, signals, reloadPending, missed>>
    BY <1>2 DEF GatherUpgrades, Listed, Inv, KindOK
  <2>3. CASE Current
    BY <2>1, <2>2, <2>3, EndsLast DEF Kept, Current, UpToDate
  <2>4. Queued => Queued'
    BY <2>1, <2>2, EndsReads DEF Queued
  <2> QED
    BY <2>2, <2>3, <2>4 DEF Kept, Promised, Announced
<1>3. CASE RefreshRemotes(j)
  BY <1>3, KeptEnds DEF RefreshRemotes, Runs
<1>4. CASE InstallResolves(j)
  <2>1. /\ jobs[j].kind = "install" /\ jobs[j].phase = "queued"
        /\ UNCHANGED <<world, signals, shown, state, reloadPending, missed>>
    BY <1>4 DEF InstallResolves, Runs
  <2>2. CASE Moves(j, "flashing", "none", 0, 0) /\ UNCHANGED doneQ
    <3>1. /\ Listed' = Listed /\ Gathered' = Gathered /\ Reads' = Reads
          /\ \A i \in Listed \cup Gathered : jobs'[i] = jobs[i]
          /\ \A i \in Job : i # j => jobs'[i] = jobs[i]
      BY <2>1, <2>2, MovesReads
    <3>2. Queued => Queued'
      BY <2>1, <3>1 DEF Queued
    <3> QED
      BY <2>1, <2>2, <3>1, <3>2, StaysCurrent DEF Kept, Promised, Announced
  <2> QED
    BY <1>4, <2>1, <2>2, KeptEnds DEF InstallResolves
<1>5. CASE InstallReturns(j)
  BY <1>5, KeptEnds DEF InstallReturns, Runs
<1> QED
  BY <1>1, <1>2, <1>3, <1>4, <1>5
\* A callback that takes the first of the jobs that ended, and leaves the page
\* as it is or shows what this job read.
LEMMA DropsKept ==
    ASSUME Inv, Kept, NEW j \in Job, NEW k, NEW outs, Delivers(j, k, outs), Drop(j),
           UNCHANGED <<world, signals, reloadPending, missed>>,
           \/ UNCHANGED shown /\ k # "gather" /\ state' = state
           \/ UNCHANGED shown /\ state' # "ready"
           \/ j \in Reads /\ shown' = [dev |-> jobs[j].dev, rel |-> jobs[j].rel]
    PROVE  Kept'
<1>1. /\ Listed' = Listed /\ Gathered' = Gathered \ {j} /\ Reads' = Reads \ {j}
      /\ \A i \in Listed \cup Gathered : i # j => jobs'[i] = jobs[i]
      /\ j \notin Listed /\ jobs[j].kind = k
      /\ k = "gather" => j \in Gathered
  BY DeliversReads
<1>2. /\ SameOrder(Gathered \ {j})
      /\ \A i \in Gathered : ~Before(doneQ, i, j)
  BY DeliversOrder
<1>3. Reads \subseteq Gathered /\ (j \in Gathered => k = "gather")
  BY <1>1 DEF Reads, Gathered
<1>4. \A i \in Gathered \ {j} : LastRead(i)' => LastRead(i)
  BY <1>1, <1>2 DEF LastRead, SameOrder
<1>5. \A i \in Gathered : Gathered \ {j} = {} => LastRead(i)
  BY <1>2 DEF LastRead
<1>6. ASSUME Current PROVE Current'
  <2>1. \A i \in Listed' : jobs'[i].dev = Now'
    BY <1>1, <1>6 DEF Current, Now
  <2>2. ASSUME Listed = {}, NEW i \in Reads \ {j}, LastRead(i)'
        PROVE  UpToDate(jobs[i].dev, jobs[i].rel)'
    BY <1>1, <1>3, <1>4, <1>6, <2>2 DEF Current, UpToDate, Now
  <2>3. ASSUME Listed = {}, Gathered \ {j} = {}, state' = "ready"
        PROVE  UpToDate(shown.dev, shown.rel)'
    <3>1. CASE UNCHANGED shown /\ k # "gather" /\ state' = state
      BY <1>1, <1>3, <1>6, <2>3, <3>1 DEF Current, UpToDate, Now
    <3>2. CASE j \in Reads /\ shown' = [dev |-> jobs[j].dev, rel |-> jobs[j].rel]
      BY <1>3, <1>5, <1>6, <2>3, <3>2 DEF Current, UpToDate, Now
    <3> QED
      BY <2>3, <3>1, <3>2
  <2> QED
    BY <1>1, <2>1, <2>2, <2>3 DEF Current
<1>7. Queued => Queued'
  <2>1. TypeOK /\ QueuesOK
    BY DEF Inv
  <2>2. jobs[j].phase = "done" /\ \A i \in Job : i # j => jobs'[i] = jobs[i]
    BY <2>1, DeliversEffect
  <2> QED
    BY <2>2 DEF Queued
<1> QED
  BY <1>6, <1>7 DEF Kept, Promised, Announced

\* A callback that submits a gather promises one.
LEMMA RegatherKept ==
    ASSUME Inv, NEW j \in Job, Regather(j)
    PROVE  Kept'
<1>1. /\ jobs \in [Job -> JobRecord(Len(world))]
      /\ jobs' = [jobs EXCEPT ![j] = NewJob("gather", NoRelease)]
  BY TypeFacts DEF Inv, Regather
<1>2. jobs'[j].phase = "queued" /\ jobs'[j].kind = "gather"
  BY <1>1 DEF NewJob
<1> QED
  BY <1>2 DEF Kept, Promised, Queued

\* The callbacks keep the promise, or fulfil it.
LEMMA CallbackKept ==
    ASSUME Inv, Kept, NEW j \in Job,
           \/ ApplyEmpty(j) \/ Apply(j) \/ LoadFailed(j)
           \/ RefreshDone(j) \/ RefreshFailed(j)
           \/ InstallDone(j) \/ InstallDeclined(j) \/ InstallFailed(j) \/ InstallErrors(j)
    PROVE  Kept'
<1> USE DEF daemonVars, pageVars, timerVars
<1>e. \A o : ErrorState(o) # "ready"
  BY DEF ErrorState
<1>1. CASE ApplyEmpty(j)
  BY <1>1, DropsKept DEF ApplyEmpty
<1>2. CASE Apply(j)
  <2>1. j \in Reads
    BY <1>2, DeliversEffect DEF Apply, Delivers, Reads, Gathered, Inv
  <2> QED
    BY <1>2, <2>1, DropsKept DEF Apply
<1>3. CASE LoadFailed(j)
  BY <1>3, <1>e, DropsKept DEF LoadFailed
<1>4. CASE RefreshDone(j) \/ InstallDone(j) \/ InstallFailed(j)
  BY <1>4, RegatherKept DEF RefreshDone, InstallDone, InstallFailed
<1>5. CASE RefreshFailed(j)
  BY <1>5, DropsKept DEF RefreshFailed
<1>6. CASE InstallDeclined(j)
  BY <1>6, DropsKept DEF InstallDeclined
<1>7. CASE InstallErrors(j)
  BY <1>7, <1>e, DropsKept DEF InstallErrors
<1> QED
  BY <1>1, <1>2, <1>3, <1>4, <1>5, <1>6, <1>7

\* Every step keeps the promise.
LEMMA KeptStep == Inv /\ Kept /\ [Next]_vars => Kept'
<1> SUFFICES ASSUME Inv, Kept, [Next]_vars PROVE Kept'
  OBVIOUS
<1> USE DEF daemonVars, schedVars, pageVars, timerVars
<1>t. TypeOK
  BY DEF Inv
<1>1. CASE DaemonChange
  BY <1>1, <1>t, ChangeAnnounced DEF DaemonChange, Kept, Promised
<1>2. CASE DaemonStorm \/ DaemonProgress
  BY <1>2, <1>t, EmitAnnounces, KeptAsIs DEF DaemonStorm, DaemonProgress
<1>3. CASE StartLiveUpdates \/ ProgressCall \/ UNCHANGED vars
  BY <1>3, KeptAsIs DEF StartLiveUpdates, ProgressCall, Announced, vars
<1>4. CASE ProgressCheck
  BY <1>4, <1>t, TakesProgress, KeptAsIs DEF ProgressCheck
<1>5. CASE OnChanged
  <2>1. CASE reloadPending
    BY <1>5, <2>1 DEF OnChanged, Kept, Promised
  <2>2. CASE ~reloadPending /\ installing
    BY <1>5, <2>2, Zenon DEF OnChanged, Kept
  <2>3. CASE ~reloadPending /\ ~installing
    BY <1>5, <2>3 DEF OnChanged, Kept, Promised
  <2> QED
    BY <2>1, <2>2, <2>3
<1>6. CASE ReloadTimeout
  BY <1>6, KeptSubmit DEF ReloadTimeout, Kept, Kind
<1>7. CASE Load \/ RefreshMetadata
  BY <1>7, KeptSubmit DEF Load, RefreshMetadata, Kind
<1>8. ASSUME NEW r \in Release, RequestInstall(r) PROVE Kept'
  <2>1. UNCHANGED <<world, signals, shown, state, missed, reloadPending>>
    BY <1>8 DEF RequestInstall
  <2>2. CASE UNCHANGED schedVars
    BY <2>1, <2>2, KeptAsIs DEF Announced
  <2>3. CASE Submit("install", r)
    BY <2>1, <2>3, KeptSubmit DEF Kind
  <2> QED
    BY <1>8, <2>2, <2>3 DEF RequestInstall
<1>9. ASSUME NEW j \in Job, WorkerEnds(j) PROVE Kept'
  <2>1. CASE \E c \in Conditions : Becomes(c)
    BY <2>1, <1>t, ChangeAnnounced DEF Kept, Promised
  <2>2. CASE UNCHANGED <<world, signals, missed>>
    <3>1. PICK o : Moves(j, "resumed", o, 0, 0)
      BY <1>9 DEF WorkerEnds
    <3>2. /\ jobs[j].phase = "flashing"
          /\ UNCHANGED <<doneQ, shown, state, reloadPending>>
      BY <1>9 DEF WorkerEnds, Flashing
    <3>3. /\ Listed' = Listed /\ Gathered' = Gathered /\ Reads' = Reads
          /\ \A i \in Listed \cup Gathered : jobs'[i] = jobs[i]
          /\ \A i \in Job : i # j => jobs'[i] = jobs[i]
      BY <3>1, <3>2, MovesReads
    <3>4. Queued => Queued'
      BY <3>2, <3>3 DEF Queued
    <3> QED
      BY <2>2, <3>2, <3>3, <3>4, StaysCurrent DEF Kept, Promised, Announced
  <2> QED
    BY <1>9, <2>1, <2>2 DEF WorkerEnds
<1> QED
  BY <1>1, <1>2, <1>3, <1>4, <1>5, <1>6, <1>7, <1>8, <1>9, LoopKept, CallbackKept
     DEF Next, Daemon, LoopRuns, Callback, Signals, User

\* The banner changes only with the condition shown.
LEMMA BannerStep == Inv /\ BannerOK /\ [Next]_vars => BannerOK'
<1> SUFFICES ASSUME Inv, BannerOK, [Next]_vars PROVE BannerOK'
  OBVIOUS
<1>t. /\ world \in Seq(Conditions) /\ shown.dev \in 0 .. Len(world)
  BY DEF Inv, TypeOK
<1>1. \/ world' = world
      \/ \E c \in Conditions : Becomes(c)
  BY DEF Next, Daemon, LoopRuns, Callback, Signals, User, vars, daemonVars,
     DaemonChange, DaemonStorm, DaemonProgress, WorkerEnds, Load, StartLiveUpdates,
     ReloadTimeout, OnChanged, ProgressCheck, ProgressCall, RefreshMetadata, RequestInstall,
     GatherDevices, GatherUpgrades, RefreshRemotes, InstallResolves, InstallReturns,
     ApplyEmpty, Apply, LoadFailed, RefreshDone, RefreshFailed,
     InstallDone, InstallDeclined, InstallFailed, InstallErrors
<1>2. \A n \in 1 .. Len(world) : world'[n] = world[n]
  BY <1>1, <1>t DEF Becomes
<1>3. \/ UNCHANGED <<shown, rebootBanner>>
      \/ \E j \in Job : Apply(j)
  BY DEF Next, Daemon, LoopRuns, Callback, Signals, User, vars, pageVars,
     DaemonChange, DaemonStorm, DaemonProgress, WorkerEnds, Load, StartLiveUpdates,
     ReloadTimeout, OnChanged, ProgressCheck, ProgressCall, RefreshMetadata, RequestInstall,
     GatherDevices, GatherUpgrades, RefreshRemotes, InstallResolves, InstallReturns,
     ApplyEmpty, LoadFailed, RefreshDone, RefreshFailed,
     InstallDone, InstallDeclined, InstallFailed, InstallErrors
<1>4. CASE UNCHANGED <<shown, rebootBanner>>
  BY <1>2, <1>4, <1>t DEF BannerOK
<1>5. ASSUME NEW j \in Job, Apply(j) PROVE BannerOK'
  BY <1>5 DEF Apply, BannerOK, daemonVars
<1> QED
  BY <1>3, <1>4, <1>5
\* A new page shows nothing and has read nothing.
LEMMA ReadsInit == Init => ReadOrder /\ BannerOK /\ Kept
<1> SUFFICES ASSUME Init PROVE ReadOrder /\ BannerOK /\ Kept
  OBVIOUS
<1>1. \A j \in Job : jobs[j].phase = "free"
  BY DEF Init, FreeJob
<1>2. Listed = {} /\ Gathered = {} /\ Reads = {}
  BY <1>1 DEF Listed, Gathered, Reads
<1>3. shown.dev = 0 /\ state = "loading"
  BY DEF Init
<1> QED
  BY <1>2, <1>3 DEF ReadOrder, BannerOK, Kept, Current

\* The invariant above, with the order of the reads and what they promise.
LEMMA ReadsHold == Spec => [](Inv /\ ReadOrder /\ BannerOK /\ Kept)
<1>1. Init => Inv /\ ReadOrder /\ BannerOK /\ Kept
  BY InvInit, ReadsInit
<1>2. Inv /\ ReadOrder /\ BannerOK /\ Kept /\ [Next]_vars
        => (Inv /\ ReadOrder /\ BannerOK /\ Kept)'
  BY InvStep, ReadOrderStep, BannerStep, KeptStep
<1> QED
  BY <1>1, <1>2, PTL DEF Spec

\* _apply: several gathers may be in flight, from load(), a debounced reload
\* and the end of an install; the cards never go back to an older condition.
THEOREM NeverOlderHolds == Spec => NeverOlder
<1>1. Inv /\ ReadOrder /\ [Next]_vars => [shown'.dev >= shown.dev]_vars
  BY ReadOrderStep
<1> QED
  BY <1>1, ReadsHold, PTL DEF Spec, NeverOlder

\* _on_changed: once nothing is under way, a ready page that listens shows the
\* device as it is, unless a change came before it listened or was skipped for
\* an install that ended without the reload.
THEOREM FreshUnlessMissedHolds == Spec => []FreshUnlessMissed
<1>1. ASSUME Inv, BannerOK, Kept PROVE FreshUnlessMissed
  <2> SUFFICES ASSUME Quiet, state = "ready", ~missed PROVE Fresh
    BY DEF FreshUnlessMissed
  <2>1. Listed = {} /\ Gathered = {} /\ ~Queued
    BY DEF Quiet, Listed, Gathered, Queued
  <2>2. ~Announced /\ ~reloadPending
    BY DEF Quiet, Announced
  <2>3. UpToDate(shown.dev, shown.rel)
    BY <1>1, <2>1, <2>2 DEF Kept, Promised, Current
  <2>4. Now # 0
    BY <1>1, ReadBound
  <2> QED
    BY <1>1, <2>3, <2>4 DEF Fresh, UpToDate, BannerOK
<1> QED
  BY <1>1, ReadsHold, PTL

-----------------------------------------------------------------------------
(* Operations under way: the part of BusyEnds that fairness has no say in. *)

\* The outcomes that the callbacks of a job of kind k tell apart: _apply and
\* _load_failed, _refresh_done and _refresh_failed, _install_done and
\* _install_failed.
Answered(k) ==
    IF k = "gather" THEN {"ok", "unreachable", "parse"}
    ELSE IF k = "refresh" THEN {"ok", "unreachable"}
    ELSE {"ok", "denied", "failed", "unreachable", "gone"}

\* A coroutine ends in an outcome that one of its callbacks takes.
OutOK ==
    \A j \in Job :
        /\ jobs[j].phase = "done" => jobs[j].out \in Answered(jobs[j].kind)
        /\ jobs[j].phase = "resumed" => jobs[j].out \in {"ok", "failed", "denied"}

\* The operation that busy_text names is one that something goes on with: its
\* coroutine waits for the loop or for libfwupd, or its callback waits for the
\* main context and takes the outcome.
BusyGoesOn ==
    busy # "none" =>
        \E j \in Job :
            /\ jobs[j].kind = busy
            /\ \/ \E i \in 1 .. Len(loopQ) : loopQ[i] = j
               \/ Flashing(j)
               \/ /\ \E i \in 1 .. Len(doneQ) : doneQ[i] = j
                  /\ jobs[j].out \in Answered(busy)

LEMMA OutMoves ==
    ASSUME TypeOK, OutOK, NEW j \in Job, NEW p, NEW o, NEW dev, NEW rel,
           Moves(j, p, o, dev, rel),
           p = "done" => o \in Answered(jobs[j].kind),
           p = "resumed" => o \in {"ok", "failed", "denied"}
    PROVE  OutOK'
<1>1. /\ \A i \in Job : i # j => jobs'[i] = jobs[i]
      /\ jobs'[j] = [phase |-> p, kind |-> jobs[j].kind, release |-> jobs[j].release,
                     dev |-> dev, rel |-> rel, out |-> o]
  BY MovesEffect
<1>2. jobs'[j].phase = p /\ jobs'[j].kind = jobs[j].kind /\ jobs'[j].out = o
  BY <1>1
<1> QED
  BY <1>1, <1>2 DEF OutOK

\* A slot that is freed or filled has no outcome to take.
LEMMA OutFresh ==
    ASSUME TypeOK, OutOK, NEW j \in Job, NEW r, jobs' = [jobs EXCEPT ![j] = r],
           r.phase \notin {"done", "resumed"}
    PROVE  OutOK'
<1>1. jobs \in [Job -> JobRecord(Len(world))]
  BY TypeFacts
<1>2. \A i \in Job : jobs'[i] = IF i = j THEN r ELSE jobs[i]
  BY <1>1
<1> QED
  BY <1>2 DEF OutOK

LEMMA OutSubmit ==
    ASSUME TypeOK, OutOK, NEW k, NEW r, Submit(k, r)
    PROVE  OutOK'
<1>1. PICK j \in Job : jobs' = [jobs EXCEPT ![j] = NewJob(k, r)]
  BY DEF Submit
<1>2. NewJob(k, r).phase = "queued"
  BY DEF NewJob
<1> QED
  BY <1>1, <1>2, OutFresh

LEMMA OutStep == Inv /\ OutOK /\ [Next]_vars => OutOK'
<1> SUFFICES ASSUME Inv, OutOK, [Next]_vars PROVE OutOK'
  OBVIOUS
<1>t. TypeOK
  BY DEF Inv
<1>1. ASSUME NEW j \in Job, WorkerEnds(j) PROVE OutOK'
  <2>1. PICK o \in {"ok", "failed", "denied"} : Moves(j, "resumed", o, 0, 0)
    BY <1>1 DEF WorkerEnds
  <2> QED
    BY <1>t, <2>1, OutMoves
<1>2. ASSUME NEW j \in Job, NEW o, NEW dev, NEW rel, Ends(j, o, dev, rel),
             o \in Answered(jobs[j].kind)
      PROVE  OutOK'
  BY <1>t, <1>2, OutMoves DEF Ends
<1>3. ASSUME NEW j \in Job, GatherDevices(j) PROVE OutOK'
  <2>1. jobs[j].kind = "gather"
    BY <1>3 DEF GatherDevices, Runs
  <2>2. \/ \E o \in {"unreachable", "parse"} : Ends(j, o, 0, 0)
        \/ Ends(j, "ok", Now, Now)
        \/ Moves(j, "listed", "none", Now, 0)
    BY <1>3 DEF GatherDevices
  <2> QED
    BY <1>t, <1>2, <2>1, <2>2, OutMoves DEF Answered
<1>4. ASSUME NEW j \in Job, GatherUpgrades(j) PROVE OutOK'
  <2>1. jobs[j].kind = "gather"
    BY <1>4 DEF GatherUpgrades, Inv, KindOK
  <2>2. \E rel \in {Now, 0} : Ends(j, "ok", jobs[j].dev, rel)
    BY <1>4 DEF GatherUpgrades
  <2> QED
    BY <1>2, <2>1, <2>2 DEF Answered
<1>5. ASSUME NEW j \in Job, RefreshRemotes(j) PROVE OutOK'
  <2>1. jobs[j].kind = "refresh" /\ \E o \in {"ok", "unreachable"} : Ends(j, o, 0, 0)
    BY <1>5 DEF RefreshRemotes, Runs
  <2> QED
    BY <1>2, <2>1 DEF Answered
<1>6. ASSUME NEW j \in Job, InstallResolves(j) PROVE OutOK'
  <2>1. jobs[j].kind = "install"
    BY <1>6 DEF InstallResolves, Runs
  <2>2. \/ \E o \in {"unreachable", "gone", "failed"} : Ends(j, o, 0, 0)
        \/ Moves(j, "flashing", "none", 0, 0)
    BY <1>6 DEF InstallResolves
  <2> QED
    BY <1>t, <1>2, <2>1, <2>2, OutMoves DEF Answered
<1>7. ASSUME NEW j \in Job, InstallReturns(j) PROVE OutOK'
  <2>1. jobs[j].kind = "install" /\ jobs[j].phase = "resumed" /\ Ends(j, jobs[j].out, 0, 0)
    BY <1>7 DEF InstallReturns, Runs
  <2>2. jobs[j].out \in {"ok", "failed", "denied"}
    BY <2>1 DEF OutOK
  <2> QED
    BY <1>2, <2>1, <2>2 DEF Answered
<1>8. ASSUME NEW k, NEW r, Submit(k, r) PROVE OutOK'
  BY <1>t, <1>8, OutSubmit
<1>9. CASE Load \/ ReloadTimeout \/ User
  <2>1. UNCHANGED jobs \/ \E k \in Kind, r \in Release \cup {NoRelease} : Submit(k, r)
    BY <1>9 DEF Load, ReloadTimeout, User, RefreshMetadata, RequestInstall, Kind, schedVars
  <2> QED
    BY <1>8, <2>1 DEF OutOK
<1>10. ASSUME NEW j \in Job, Drop(j) \/ Regather(j) PROVE OutOK'
  <2>1. FreeJob.phase = "free" /\ NewJob("gather", NoRelease).phase = "queued"
    BY DEF FreeJob, NewJob
  <2> QED
    BY <1>t, <1>10, <2>1, OutFresh DEF Drop, Regather
<1>11. CASE Callback
  BY <1>10, <1>11 DEF Callback, ApplyEmpty, Apply, LoadFailed, RefreshDone, RefreshFailed,
    InstallDone, InstallDeclined, InstallFailed, InstallErrors
<1>12. CASE UNCHANGED jobs
  BY <1>12 DEF OutOK
<1>13. CASE Daemon \/ StartLiveUpdates \/ Signals \/ UNCHANGED vars
  BY <1>12, <1>13 DEF Daemon, DaemonChange, DaemonStorm, DaemonProgress, StartLiveUpdates,
    Signals, OnChanged, ProgressCheck, ProgressCall, schedVars, vars
<1>14. CASE LoopRuns
  BY <1>3, <1>4, <1>5, <1>6, <1>7, <1>14 DEF LoopRuns
<1> QED
  BY <1>1, <1>9, <1>11, <1>13, <1>14 DEF Next

\* busy_text: the banner never outlives the operation it names, nor stands for
\* one whose coroutine or callback is lost, and no coroutine ends in an outcome
\* without a callback that clears it.
THEOREM BusyGoesOnHolds == Spec => []BusyGoesOn
<1>1. Init => OutOK
  BY DEF Init, OutOK, FreeJob
<1>2. ASSUME Inv, OutOK PROVE BusyGoesOn
  <2> SUFFICES ASSUME busy # "none"
               PROVE  \E j \in Job :
                        /\ jobs[j].kind = busy
                        /\ \/ \E i \in 1 .. Len(loopQ) : loopQ[i] = j
                           \/ Flashing(j)
                           \/ /\ \E i \in 1 .. Len(doneQ) : doneQ[i] = j
                              /\ jobs[j].out \in Answered(busy)
    BY DEF BusyGoesOn
  <2>1. busy \in {"refresh", "install"}
    BY <1>2 DEF Inv, TypeOK
  <2>2. PICK j \in Job : jobs[j].kind = busy /\ jobs[j].phase # "free"
    BY <1>2, <2>1 DEF Inv, OneOperation, Active
  <2>3. jobs[j].phase \in JobPhase
    BY <1>2, TypeFacts DEF Inv, JobRecord
  <2>4. CASE jobs[j].phase \in {"queued", "resumed"}
    BY <1>2, <2>2, <2>4 DEF Inv, QueuesOK, Waiting, Lists
  <2>5. CASE jobs[j].phase = "flashing"
    BY <1>2, <2>2, <2>5 DEF Inv, KindOK, Flashing
  <2>6. CASE jobs[j].phase = "done"
    BY <1>2, <2>2, <2>6 DEF Inv, QueuesOK, Finished, Lists, OutOK
  <2>7. jobs[j].phase # "listed"
    BY <1>2, <2>1, <2>2 DEF Inv, KindOK
  <2> QED
    BY <2>2, <2>3, <2>4, <2>5, <2>6, <2>7 DEF JobPhase
<1> QED
  BY <1>1, <1>2, OutStep, InvHolds, PTL DEF Spec
=============================================================================
