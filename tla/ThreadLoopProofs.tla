--------------------------- MODULE ThreadLoopProofs ---------------------------
(***************************************************************************)
(* Proofs about ThreadLoopScheduler, for any set of jobs, any number of    *)
(* loop threads and awaits, and every interleaving of the GTK main thread  *)
(* with them: submit() never feeds a loop that is stopped or closed, jobs  *)
(* that do not suspend are answered in the order of their submissions, no  *)
(* job is lost on a loop that nobody stops, and the scheduler implements   *)
(* SchedulerPort.                                                          *)
(***************************************************************************)
EXTENDS ThreadLoopScheduler, JobQueues

\* self._loop is a loop that was created, and while submit() may be called
\* not one that was asked to stop: stop() forgets it before it returns.
LoopsOK ==
    /\ loop # 0 => tpc[loop] \notin {"none", "new"}
    /\ \A t \in Thread :
        /\ t > born => tpc[t] = "none"
        /\ tpc[t] \in {"none", "new"} => stopping[t] = "no"
        /\ tpc[t] = "closed" => stopping[t] = "set"
        /\ loop = t /\ main # "joining" => stopping[t] = "no"

\* A job has a home once it is accepted, and an outcome once its coroutine
\* has ended.
JobsOK ==
    \A j \in Job :
        /\ home[j] = 0 <=> phase[j] \in {"unused", "refused"}
        /\ home[j] # 0 => tpc[home[j]] \notin {"none", "new"}
        /\ outcome[j] = "none" <=> phase[j] \notin {"settling", "posted", "called"}
        /\ phase[j] = "waiting" => awaits[j] > 0

\* The phase of a job one of whose handles is on its loop's FIFO.
PhaseOf(k) == IF k = "create" THEN "creating" ELSE IF k = "step" THEN "stepping" ELSE "settling"

\* What a loop that is not closed has on its FIFO: a handle of each job that
\* can go on there, of the kind that its phase calls for, and a stop at most.
HandlesOf(ph, at, t) == {h \in JobHandle : at[h.job] = t /\ ph[h.job] = PhaseOf(h.kind)}
Stops(t) == IF stopping[t] = "queued" THEN {StopHandle} ELSE {}
OnLoop(t) == HandlesOf(phase, home, t) \cup Stops(t)

FifoOK(t) == IF tpc[t] = "closed" THEN readyQ[t] = <<>> ELSE Lists(readyQ[t], OnLoop(t))

Posted == {j \in Job : phase[j] = "posted"}
Accepted == {j \in Job : phase[j] \notin {"unused", "refused"}}

QueuesOK ==
    /\ \A t \in Thread : FifoOK(t)
    /\ Lists(idle, Posted)
    /\ Lists(order, Accepted)

Inv == TypeOK /\ LoopsOK /\ JobsOK /\ QueuesOK

LEMMA InitInv == Init => Inv
  <1> SUFFICES ASSUME Init PROVE Inv
    OBVIOUS
  <1>1. TypeOK
    <2>1. ready \in BOOLEAN
      BY Zenon DEF Init
    <2>2. readyQ \in [Thread -> Seq(JobHandle \cup {StopHandle})]
      BY DEF Init
    <2>3. idle \in Seq(Job) /\ order \in Seq(Job)
      BY DEF Init
    <2>4. QED
      BY <2>1, <2>2, <2>3, BoundAssumption DEF Init, TypeOK, Phase
  <1>2. LoopsOK /\ JobsOK
    BY DEF Init, LoopsOK, JobsOK
  <1>3. QueuesOK
    <2>1. ASSUME NEW t \in Thread PROVE FifoOK(t)
      <3>1. \A h \in JobHandle : h.job \in Job
        BY DEF JobHandle, Handle
      <3>2. OnLoop(t) = {}
        BY <3>1 DEF Init, OnLoop, HandlesOf, Stops, PhaseOf
      <3>3. QED
        BY <3>2, EmptyLists DEF Init, FifoOK
    <2>2. Posted = {} /\ Accepted = {}
      BY DEF Init, Posted, Accepted
    <2>3. QED
      BY <2>1, <2>2, EmptyLists DEF Init, QueuesOK
  <1>4. QED
    BY <1>1, <1>2, <1>3 DEF Inv

-----------------------------------------------------------------------------
(* Types.                                                                  *)

AnyHandle == JobHandle \cup {StopHandle}

LEMMA HandleType ==
  ASSUME NEW j \in Job, NEW k \in Kind
  PROVE  /\ Handle(j, k) \in JobHandle /\ Handle(j, k) \in AnyHandle
         /\ Handle(j, k).job = j /\ Handle(j, k).kind = k /\ Handle(j, k) # StopHandle
  BY DEF JobHandle, AnyHandle, Handle, StopHandle, Kind

\* What the handlers do to the FIFO of a loop keeps its type.
LEMMA FifoType ==
  ASSUME TypeOK, NEW t \in Thread
  PROVE  /\ readyQ[t] \in Seq(AnyHandle)
         /\ readyQ[t] # <<>> => Tail(readyQ[t]) \in Seq(AnyHandle)
         /\ \A q \in Seq(AnyHandle) : /\ [readyQ EXCEPT ![t] = q] \in [Thread -> Seq(AnyHandle)]
                                      /\ [readyQ EXCEPT ![t] = q][t] = q
         /\ \A q \in Seq(AnyHandle), h \in AnyHandle : Append(q, h) \in Seq(AnyHandle)
  BY DEF TypeOK, AnyHandle

\* An accepted job was submitted to a loop that exists.
LEMMA HomeType ==
  ASSUME TypeOK, JobsOK, NEW j \in Job, phase[j] \notin {"unused", "refused"}
  PROVE  home[j] \in Thread
  <1>1. home[j] \in 0 .. MaxStarts
    BY DEF TypeOK
  <1>2. home[j] # 0
    BY DEF JobsOK
  <1>3. QED
    BY <1>1, <1>2, BoundAssumption DEF Thread

LEMMA TypeStep == ASSUME TypeOK, JobsOK, [Next]_vars PROVE TypeOK'
  <1> USE DEF Thread
  <1>1. CASE Start
    <2>1. born' \in 0 .. MaxStarts /\ thread' \in 0 .. MaxStarts /\ born + 1 \in Thread
      BY <1>1, BoundAssumption DEF Start, TypeOK
    <2>2. tpc' \in [Thread -> {"none", "new", "set", "running", "closed"}]
      BY <1>1, <2>1 DEF Start, TypeOK
    <2>3. UNCHANGED <<loop, ready, readyQ, todo, stopping, phase, home, outcome, awaits,
                      idle, calls, order>> /\ main' = "starting"
      BY <1>1 DEF Start, loopVars, jobVars
    <2>4. QED
      BY <2>1, <2>2, <2>3 DEF TypeOK
  <1>2. CASE StartReturns \/ StartTimesOut
    BY <1>2 DEF StartReturns, StartTimesOut, TypeOK, loopVars, jobVars
  <1>3. CASE Stop
    <2>1. readyQ' \in [Thread -> Seq(AnyHandle)]
      <3>1. CASE loop = 0
        BY <1>3, <3>1 DEF Stop, TypeOK, AnyHandle
      <3>2. CASE loop # 0
        <4>1. loop \in Thread /\ StopHandle \in AnyHandle
          BY <3>2 DEF TypeOK, AnyHandle
        <4>2. readyQ' = [readyQ EXCEPT ![loop] = Append(readyQ[loop], StopHandle)]
          BY <1>3, <3>2 DEF Stop, Enqueue
        <4>3. Append(readyQ[loop], StopHandle) \in Seq(AnyHandle)
          BY <4>1, FifoType
        <4>4. QED
          BY <4>1, <4>2, <4>3, FifoType
      <3>3. QED
        BY <3>1, <3>2
    <2>2. stopping' \in [Thread -> {"no", "queued", "set"}]
      BY <1>3 DEF Stop, TypeOK
    <2>3. QED
      BY <1>3, <2>1, <2>2 DEF Stop, TypeOK, AnyHandle, jobVars
  <1>4. CASE JoinReturns
    <2>1. ready' \in BOOLEAN
      BY <1>4, Zenon DEF JoinReturns
    <2>2. QED
      BY <1>4, <2>1, BoundAssumption DEF JoinReturns, TypeOK, loopVars, jobVars
  <1>5. ASSUME NEW j \in Job, Submit(j) PROVE TypeOK'
    <2>1. CASE loop = 0
      BY <1>5, <2>1 DEF Submit, TypeOK, Phase, threadVars
    <2>2. CASE loop # 0
      <3>1. loop \in Thread /\ Handle(j, "create") \in AnyHandle
        BY <2>2, HandleType DEF TypeOK, Kind
      <3>2. readyQ' \in [Thread -> Seq(AnyHandle)]
        <4>1. Append(readyQ[loop], Handle(j, "create")) \in Seq(AnyHandle)
          BY <3>1, FifoType
        <4>2. readyQ' = [readyQ EXCEPT ![loop] = Append(readyQ[loop], Handle(j, "create"))]
          BY <1>5, <2>2 DEF Submit, Enqueue
        <4>3. QED
          BY <3>1, <4>1, <4>2, FifoType
      <3>3. order' \in Seq(Job)
        <4>1. order' = Append(order, j) /\ order \in Seq(Job)
          BY <1>5, <2>2 DEF Submit, TypeOK
        <4>2. QED
          BY <4>1
      <3>4. phase' \in [Job -> Phase] /\ home' \in [Job -> 0 .. MaxStarts]
        BY <1>5, <2>2, <3>1 DEF Submit, TypeOK, Phase
      <3>5. QED
        BY <1>5, <3>2, <3>3, <3>4 DEF Submit, TypeOK, AnyHandle, threadVars
    <2>3. QED
      BY <2>1, <2>2
  <1>6. CASE Deliver
    <2>1. idle' \in Seq(Job) /\ Head(idle) \in Job
      BY <1>6 DEF Deliver, TypeOK
    <2>2. calls' \in [Job -> Nat]
      <3>1. calls \in [Job -> Nat]
        BY DEF TypeOK
      <3>2. calls[Head(idle)] + 1 \in Nat
        BY <2>1, <3>1
      <3>3. calls' = [calls EXCEPT ![Head(idle)] = calls[Head(idle)] + 1]
        BY <1>6 DEF Deliver
      <3>4. QED
        BY <2>1, <3>1, <3>2, <3>3
    <2>3. QED
      BY <1>6, <2>1, <2>2 DEF Deliver, TypeOK, Phase, threadVars, loopVars
  <1>7. ASSUME NEW t \in Thread, SetLoop(t) \/ SetReady(t) PROVE TypeOK'
    <2>1. CASE SetLoop(t)
      BY <2>1 DEF SetLoop, TypeOK, loopVars, jobVars
    <2>2. CASE SetReady(t)
      <3>1. ready' \in BOOLEAN
        BY <2>2, Zenon DEF SetReady
      <3>2. QED
        BY <2>2, <3>1 DEF SetReady, TypeOK, loopVars, jobVars
    <2>3. QED
      BY <1>7, <2>1, <2>2
  <1>8. ASSUME NEW t \in Thread, TakeBatch(t) PROVE TypeOK'
    <2>1. Len(readyQ[t]) \in Nat
      BY FifoType
    <2>2. QED
      BY <1>8, <2>1 DEF TakeBatch, TypeOK, threadVars, jobVars
  <1>9. ASSUME NEW t \in Thread, Close(t) PROVE TypeOK'
    <2>1. readyQ' \in [Thread -> Seq(AnyHandle)]
      BY <1>9, FifoType DEF Close
    <2>2. QED
      BY <1>9, <2>1 DEF Close, TypeOK, AnyHandle, jobVars
  <1>10. ASSUME NEW t \in Thread, NEW h, Pops(t, h)
         PROVE  /\ todo' \in [Thread -> Nat] /\ Tail(readyQ[t]) \in Seq(AnyHandle)
    <2>1. todo \in [Thread -> Nat]
      BY DEF TypeOK
    <2>2. todo[t] \in Nat /\ todo[t] > 0 /\ todo' = [todo EXCEPT ![t] = todo[t] - 1]
      BY <1>10, <2>1 DEF Pops
    <2>3. todo[t] - 1 \in Nat
      BY <2>2
    <2>4. todo' \in [Thread -> Nat]
      BY <2>1, <2>2, <2>3
    <2>5. QED
      BY <1>10, <2>4, FifoType DEF Pops
  <1>11. ASSUME NEW t \in Thread, RunStop(t) PROVE TypeOK'
    <2>1. readyQ' \in [Thread -> Seq(AnyHandle)] /\ todo' \in [Thread -> Nat]
      BY <1>10, <1>11, FifoType DEF RunStop
    <2>2. QED
      BY <1>11, <2>1 DEF RunStop, TypeOK, AnyHandle, threadVars, jobVars
  <1>12. ASSUME NEW t \in Thread, NEW j \in Job, RunCreate(t, j) PROVE TypeOK'
    <2>1. readyQ' \in [Thread -> Seq(AnyHandle)] /\ todo' \in [Thread -> Nat]
      BY <1>10, <1>12, FifoType, HandleType DEF RunCreate, Kind
    <2>2. QED
      BY <1>12, <2>1 DEF RunCreate, TypeOK, AnyHandle, Phase, threadVars
  <1>13. ASSUME NEW t \in Thread, NEW j \in Job, RunStepSuspends(t, j) PROVE TypeOK'
    <2>1. readyQ' \in [Thread -> Seq(AnyHandle)] /\ todo' \in [Thread -> Nat]
      BY <1>10, <1>13, FifoType DEF RunStepSuspends
    <2>2. awaits[j] + 1 \in 0 .. MaxAwaits
      <3>1. awaits[j] \in 0 .. MaxAwaits /\ awaits[j] < MaxAwaits
        BY <1>13 DEF RunStepSuspends, TypeOK
      <3>2. QED
        BY <3>1, BoundAssumption
    <2>3. QED
      BY <1>13, <2>1, <2>2 DEF RunStepSuspends, TypeOK, AnyHandle, Phase, threadVars
  <1>14. ASSUME NEW t \in Thread, NEW j \in Job, RunStepEnds(t, j) PROVE TypeOK'
    <2>1. readyQ' \in [Thread -> Seq(AnyHandle)] /\ todo' \in [Thread -> Nat]
      BY <1>10, <1>14, FifoType, HandleType DEF RunStepEnds, Kind
    <2>2. QED
      BY <1>14, <2>1 DEF RunStepEnds, TypeOK, AnyHandle, Phase, threadVars
  <1>15. ASSUME NEW t \in Thread, NEW j \in Job, RunSettle(t, j) PROVE TypeOK'
    <2>1. readyQ' \in [Thread -> Seq(AnyHandle)] /\ todo' \in [Thread -> Nat]
      BY <1>10, <1>15, FifoType DEF RunSettle
    <2>2. idle' \in Seq(Job)
      BY <1>15 DEF RunSettle, TypeOK
    <2>3. QED
      BY <1>15, <2>1, <2>2 DEF RunSettle, TypeOK, AnyHandle, Phase, threadVars
  <1>16. ASSUME NEW j \in Job, Resume(j) PROVE TypeOK'
    <2>1. home[j] \in Thread
      BY <1>16, HomeType DEF Resume
    <2>2. readyQ' \in [Thread -> Seq(AnyHandle)]
      <3>1. Append(readyQ[home[j]], Handle(j, "step")) \in Seq(AnyHandle)
        BY <2>1, FifoType, HandleType DEF Kind
      <3>2. readyQ' = [readyQ EXCEPT ![home[j]] = Append(readyQ[home[j]], Handle(j, "step"))]
        BY <1>16 DEF Resume, Enqueue
      <3>3. QED
        BY <2>1, <3>1, <3>2, FifoType
    <2>3. QED
      BY <1>16, <2>2 DEF Resume, TypeOK, AnyHandle, Phase, threadVars
  <1>17. CASE UNCHANGED vars
    BY <1>17 DEF vars, TypeOK
  <1>18. QED
    BY <1>1, <1>2, <1>3, <1>4, <1>5, <1>6, <1>7, <1>8, <1>9, <1>11, <1>12, <1>13, <1>14, <1>15, <1>16, <1>17
      DEF Next, MainThread, LoopThread, RunHandle

-----------------------------------------------------------------------------
(* What the steps do to the FIFOs.                                         *)

\* The handles of the other jobs on the FIFO of t.
Others(ph, at, j, t) == {h \in HandlesOf(ph, at, t) : h.job # j}

LEMMA OnFifo ==
  ASSUME NEW ph, NEW at, NEW t, NEW j \in Job, NEW k \in Kind, ph[j] = PhaseOf(k), at[j] = t
  PROVE  HandlesOf(ph, at, t) = Others(ph, at, j, t) \cup {Handle(j, k)}
  <1>1. \A h \in JobHandle : h.kind \in Kind /\ h = Handle(h.job, h.kind)
    BY DEF JobHandle, Handle, Kind
  <1>2. \A n \in Kind : PhaseOf(k) = PhaseOf(n) => k = n
    BY DEF Kind, PhaseOf
  <1>3. Handle(j, k) \in HandlesOf(ph, at, t)
    BY HandleType DEF HandlesOf
  <1>4. \A h \in HandlesOf(ph, at, t) : h.job = j => h = Handle(j, k)
    BY <1>1, <1>2 DEF HandlesOf
  <1>5. QED
    BY <1>3, <1>4 DEF Others

LEMMA NotOnFifo ==
  ASSUME NEW ph, NEW at, NEW t, NEW j \in Job, at[j] # t \/ \A k \in Kind : ph[j] # PhaseOf(k)
  PROVE  HandlesOf(ph, at, t) = Others(ph, at, j, t)
  <1>1. \A h \in JobHandle : h.kind \in Kind
    BY DEF JobHandle, Handle
  <1>2. QED
    BY <1>1 DEF HandlesOf, Others

LEMMA NotAmongOthers ==
  ASSUME NEW j \in Job, NEW t, NEW k \in Kind
  PROVE  Handle(j, k) \notin Others(phase, home, j, t) \cup Stops(t)
  BY HandleType DEF Others, Stops

\* Only job j changes its phase or its home.
OnlyMoves(j) == \A i \in Job : i # j => phase'[i] = phase[i] /\ home'[i] = home[i]

LEMMA OthersStay ==
  ASSUME NEW t, NEW j \in Job, OnlyMoves(j)
  PROVE  Others(phase', home', j, t) = Others(phase, home, j, t)
  <1>1. \A h \in JobHandle : h.job \in Job
    BY DEF JobHandle, Handle
  <1>2. QED
    BY <1>1 DEF OnlyMoves, HandlesOf, Others

\* What the step of one job leaves on the FIFO of t.
LEMMA GoesOnFifo ==
  ASSUME NEW t, NEW j \in Job, OnlyMoves(j), NEW k \in Kind, phase'[j] = PhaseOf(k), home'[j] = t
  PROVE  HandlesOf(phase', home', t) = Others(phase, home, j, t) \cup {Handle(j, k)}
  <1>1. HandlesOf(phase', home', t) = Others(phase', home', j, t) \cup {Handle(j, k)}
    BY OnFifo, SMTT(30)
  <1>2. Others(phase', home', j, t) = Others(phase, home, j, t)
    BY OthersStay
  <1>3. QED
    BY <1>1, <1>2

LEMMA StaysOffFifo ==
  ASSUME NEW t, NEW j \in Job, OnlyMoves(j), home'[j] # t \/ \A k \in Kind : phase'[j] # PhaseOf(k)
  PROVE  HandlesOf(phase', home', t) = Others(phase, home, j, t)
  BY NotOnFifo, OthersStay

\* The handle at the head is that of a job of this loop, in the phase it
\* calls for.
LEMMA HeadPhase ==
  ASSUME Inv, NEW t \in Thread, NEW j \in Job, NEW k \in Kind, Pops(t, Handle(j, k))
  PROVE  /\ phase[j] = PhaseOf(k) /\ home[j] = t
         /\ Lists(Tail(readyQ[t]), Others(phase, home, j, t) \cup Stops(t))
  <1>1. Lists(readyQ[t], OnLoop(t)) /\ readyQ[t] # <<>> /\ Head(readyQ[t]) = Handle(j, k)
    BY DEF Inv, QueuesOK, FifoOK, Pops
  <1>2. Handle(j, k) \in OnLoop(t) /\ Lists(Tail(readyQ[t]), OnLoop(t) \ {Handle(j, k)})
    BY <1>1, TailLists
  <1>3. Handle(j, k) \in HandlesOf(phase, home, t)
    BY <1>2, HandleType DEF OnLoop, Stops
  <1>4. phase[j] = PhaseOf(k) /\ home[j] = t
    BY <1>3, HandleType DEF HandlesOf
  <1>5. OnLoop(t) \ {Handle(j, k)} = Others(phase, home, j, t) \cup Stops(t)
    BY <1>4, OnFifo, NotAmongOthers, HandleType DEF OnLoop, Stops
  <1>6. QED
    BY <1>2, <1>4, <1>5

\* The FIFOs of the other loops.
LEMMA OtherFifos ==
  ASSUME Inv, NEW t \in Thread, NEW j \in Job, OnlyMoves(j), NEW q,
         readyQ' = [readyQ EXCEPT ![t] = q], UNCHANGED <<tpc, stopping>>,
         NEW u \in Thread, u # t, home[j] # u, home'[j] # u
  PROVE  FifoOK(u)'
  <1>1. readyQ'[u] = readyQ[u]
    BY DEF Inv, TypeOK
  <1>2. HandlesOf(phase, home, u) = HandlesOf(phase', home', u)
    BY NotOnFifo, StaysOffFifo
  <1>3. OnLoop(u)' = OnLoop(u)
    BY <1>2 DEF OnLoop, Stops
  <1>4. FifoOK(u)
    BY DEF Inv, QueuesOK
  <1>5. QED
    BY <1>1, <1>3, <1>4 DEF FifoOK

\* A job that has no handle goes on the FIFO of its home.
LEMMA Enters ==
  ASSUME Inv, NEW t \in Thread, tpc[t] # "closed", NEW j \in Job, OnlyMoves(j),
         NEW k \in Kind, \A n \in Kind : phase[j] # PhaseOf(n), home[j] \in {0, t},
         phase'[j] = PhaseOf(k), home'[j] = t,
         readyQ' = [readyQ EXCEPT ![t] = Append(@, Handle(j, k))],
         UNCHANGED <<tpc, stopping>>
  PROVE  \A u \in Thread : FifoOK(u)'
  <1>1. Lists(readyQ[t], Others(phase, home, j, t) \cup Stops(t))
    <2>1. HandlesOf(phase, home, t) = Others(phase, home, j, t)
      BY NotOnFifo
    <2>2. QED
      BY <2>1 DEF Inv, QueuesOK, FifoOK, OnLoop
  <1>2. Handle(j, k) \notin Others(phase, home, j, t) \cup Stops(t)
    BY NotAmongOthers
  <1>3. readyQ'[t] = Append(readyQ[t], Handle(j, k))
    BY DEF Inv, TypeOK
  <1>4. OnLoop(t)' = (Others(phase, home, j, t) \cup Stops(t)) \cup {Handle(j, k)}
    <2>1. HandlesOf(phase', home', t) = Others(phase, home, j, t) \cup {Handle(j, k)}
      BY GoesOnFifo
    <2>2. QED
      BY <2>1 DEF OnLoop, Stops
  <1>5. FifoOK(t)'
    BY <1>1, <1>2, <1>3, <1>4, AppendLists DEF FifoOK
  <1>6. \A u \in Thread : 0 # u
    BY DEF Thread
  <1>7. QED
    BY <1>5, <1>6, OtherFifos

\* The job at the head leaves the FIFO, or goes to its end with the handle of
\* its next phase.
LEMMA Moves ==
  ASSUME Inv, NEW t \in Thread, NEW j \in Job, NEW k \in Kind, Pops(t, Handle(j, k)),
         NEW ph, phase' = [phase EXCEPT ![j] = ph], UNCHANGED <<tpc, stopping, home>>,
         \/ /\ \A n \in Kind : ph # PhaseOf(n)
            /\ readyQ' = [readyQ EXCEPT ![t] = Tail(@)]
         \/ \E n \in Kind : /\ ph = PhaseOf(n)
                            /\ readyQ' = [readyQ EXCEPT ![t] = Append(Tail(@), Handle(j, n))]
  PROVE  OnlyMoves(j) /\ phase'[j] = ph /\ \A u \in Thread : FifoOK(u)'
  <1> DEFINE rest == Others(phase, home, j, t) \cup Stops(t)
  <1>1. OnlyMoves(j) /\ phase'[j] = ph /\ home'[j] = t
    BY HeadPhase DEF Inv, TypeOK, OnlyMoves
  <1>2. tpc'[t] # "closed" /\ Lists(Tail(readyQ[t]), rest)
    BY HeadPhase DEF Pops
  <1>3. Stops(t)' = Stops(t)
    BY DEF Stops
  <1>4. CASE (\A n \in Kind : ph # PhaseOf(n)) /\ readyQ' = [readyQ EXCEPT ![t] = Tail(@)]
    <2>1. readyQ'[t] = Tail(readyQ[t])
      BY <1>4 DEF Inv, TypeOK
    <2>2. HandlesOf(phase', home', t) = Others(phase, home, j, t)
      <3>1. \A n \in Kind : phase'[j] # PhaseOf(n)
        BY <1>1, <1>4
      <3>2. QED
        BY <1>1, <3>1, StaysOffFifo
    <2>3. FifoOK(t)'
      BY <1>2, <1>3, <2>1, <2>2 DEF FifoOK, OnLoop
    <2>4. QED
      BY <1>1, <1>4, <2>3, OtherFifos
  <1>5. ASSUME NEW n \in Kind, ph = PhaseOf(n),
               readyQ' = [readyQ EXCEPT ![t] = Append(Tail(@), Handle(j, n))]
        PROVE  \A u \in Thread : FifoOK(u)'
    <2>1. readyQ'[t] = Append(Tail(readyQ[t]), Handle(j, n))
      BY <1>5 DEF Inv, TypeOK
    <2>2. HandlesOf(phase', home', t) = Others(phase, home, j, t) \cup {Handle(j, n)}
      BY <1>1, <1>5, GoesOnFifo
    <2>3. Handle(j, n) \notin rest
      BY NotAmongOthers
    <2>4. FifoOK(t)'
      <3>1. OnLoop(t)' = rest \cup {Handle(j, n)}
        BY <1>3, <2>2 DEF OnLoop
      <3>2. Lists(Append(Tail(readyQ[t]), Handle(j, n)), rest \cup {Handle(j, n)})
        <4> HIDE DEF rest
        <4>1. QED
          BY <1>2, <2>3, AppendLists
      <3>3. Lists(readyQ'[t], OnLoop(t)')
        BY <2>1, <3>1, <3>2
      <3>4. QED
        BY <1>2, <3>3 DEF FifoOK
    <2>5. QED
      BY <1>1, <1>5, <2>4, OtherFifos
  <1>6. QED
    BY <1>1, <1>4, <1>5

-----------------------------------------------------------------------------
(* The invariant.                                                          *)

\* A step of one job's task leaves the main thread's attributes alone.
TaskStep == \E t \in Thread, j \in Job : \/ RunCreate(t, j) \/ RunStepSuspends(t, j)
                                         \/ RunStepEnds(t, j) \/ RunSettle(t, j)

LEMMA NextCases ==
  ASSUME [Next]_vars
  PROVE  \/ Start \/ StartReturns \/ StartTimesOut \/ Stop \/ JoinReturns \/ Deliver
         \/ TaskStep \/ UNCHANGED vars
         \/ \E j \in Job : Submit(j) \/ Resume(j)
         \/ \E t \in Thread : SetLoop(t) \/ SetReady(t) \/ TakeBatch(t) \/ Close(t) \/ RunStop(t)
  BY DEF Next, MainThread, LoopThread, RunHandle, TaskStep

\* While submit() may be called, self._loop runs what is put on it.
LEMMA LoopOpen ==
  ASSUME Inv, main # "joining", loop # 0
  PROVE  loop \in Thread /\ tpc[loop] \in {"set", "running"} /\ stopping[loop] = "no"
  <1>1. loop \in Thread
    BY BoundAssumption DEF Inv, TypeOK, Thread
  <1>2. QED
    BY <1>1 DEF Inv, TypeOK, LoopsOK

LEMMA LoopsStep == ASSUME Inv, [Next]_vars PROVE LoopsOK'
  <1>1. CASE Start
    <2>1. born + 1 \in Thread /\ born' = born + 1 /\ tpc' = [tpc EXCEPT ![born + 1] = "new"]
      BY <1>1, BoundAssumption DEF Start, Thread, Inv, TypeOK
    <2>2. tpc[born + 1] = "none" /\ loop # born + 1
      BY <2>1 DEF Inv, LoopsOK, TypeOK
    <2>3. \A t \in Thread : tpc'[t] = IF t = born + 1 THEN "new" ELSE tpc[t]
      BY <2>1 DEF Inv, TypeOK
    <2>4. \A t \in Thread : t > born' => tpc'[t] = "none"
      BY <2>1, <2>3 DEF Inv, LoopsOK, Thread, TypeOK
    <2>5. loop # 0 => loop \in Thread
      BY DEF Inv, TypeOK, Thread
    <2>6. UNCHANGED <<loop, stopping>> /\ main = "idle" /\ main' = "starting"
      BY <1>1 DEF Start, loopVars
    <2>7. QED
      BY <2>2, <2>3, <2>4, <2>5, <2>6 DEF Inv, LoopsOK
  <1>2. CASE Stop
    <2>1. UNCHANGED <<loop, tpc, born>> /\ main' = "joining"
      BY <1>2 DEF Stop
    <2>2. \A t \in Thread : t # loop => stopping'[t] = stopping[t]
      BY <1>2 DEF Stop, Inv, TypeOK
    <2>3. loop \in Thread => stopping'[loop] = "queued" /\ stopping[loop] = "no"
      <3>1. stopping \in [Thread -> {"no", "queued", "set"}]
        BY DEF Inv, TypeOK
      <3>2. ASSUME loop \in Thread PROVE loop # 0
        BY <3>2 DEF Thread
      <3>3. QED
        BY <1>2, <3>1, <3>2, LoopOpen DEF Stop
    <2>4. QED
      BY <2>1, <2>2, <2>3 DEF Inv, LoopsOK, Thread
  <1>3. CASE JoinReturns
    BY <1>3 DEF JoinReturns, Inv, LoopsOK, Thread, loopVars
  <1>4. ASSUME NEW t \in Thread, SetLoop(t) \/ SetReady(t) PROVE LoopsOK'
    <2>1. UNCHANGED <<main, born, stopping>> /\ loop' \in {loop, t}
      BY <1>4 DEF SetLoop, SetReady, loopVars
    <2>2. \A u \in Thread : u # t => tpc'[u] = tpc[u]
      BY <1>4 DEF SetLoop, SetReady, Inv, TypeOK
    <2>3. tpc'[t] \in {"set", "running"} /\ tpc[t] \in {"new", "set"}
      BY <1>4 DEF SetLoop, SetReady, Inv, TypeOK
    <2>4. loop' = t /\ loop # t => tpc[t] = "new"
      BY <1>4 DEF SetLoop, SetReady
    <2>5. loop # 0 => loop \in Thread
      BY BoundAssumption DEF Inv, TypeOK, Thread
    <2>6. QED
      BY <2>1, <2>2, <2>3, <2>4, <2>5 DEF Inv, LoopsOK
  <1>5. ASSUME NEW t \in Thread, Close(t) \/ RunStop(t) PROVE LoopsOK'
    <2>1. CASE Close(t)
      BY <2>1 DEF Close, Inv, LoopsOK, TypeOK
    <2>2. CASE RunStop(t)
      <3>1. Lists(readyQ[t], OnLoop(t)) /\ readyQ[t] # <<>> /\ Head(readyQ[t]) = StopHandle
        BY <2>2 DEF RunStop, Pops, Inv, QueuesOK, FifoOK
      <3>2. StopHandle \in OnLoop(t)
        BY <3>1, TailLists
      <3>3. stopping[t] = "queued"
        <4>1. StopHandle \notin JobHandle
          BY HandleType DEF JobHandle
        <4>2. QED
          BY <3>2, <4>1 DEF OnLoop, HandlesOf, Stops
      <3>4. QED
        BY <2>2, <3>3 DEF RunStop, threadVars, Inv, LoopsOK, TypeOK
    <2>3. QED
      BY <1>5, <2>1, <2>2
  <1>6. CASE TaskStep \/ (\E j \in Job : Submit(j) \/ Resume(j)) \/ Deliver
             \/ \E t \in Thread : TakeBatch(t)
    <2>1. UNCHANGED <<main, thread, loop, ready, born, tpc, stopping>>
      BY <1>6 DEF TaskStep, RunCreate, RunStepSuspends, RunStepEnds, RunSettle, Submit, Resume,
        Deliver, TakeBatch, threadVars, loopVars
    <2>2. QED
      BY <2>1 DEF Inv, LoopsOK
  <1>7. CASE StartReturns \/ StartTimesOut \/ UNCHANGED vars
    <2>1. UNCHANGED <<loop, born, tpc, stopping>> /\ (main' = "joining" <=> main = "joining")
      BY <1>7 DEF StartReturns, StartTimesOut, vars, loopVars
    <2>2. QED
      BY <2>1 DEF Inv, LoopsOK
  <1>8. QED
    BY <1>1, <1>2, <1>3, <1>4, <1>5, <1>6, <1>7, NextCases

\* What a step of a job's task does, read off the handle of kind k that it
\* takes from the FIFO of the loop t.
TaskMove(t, j, k) ==
    /\ Pops(t, Handle(j, k)) /\ phase[j] = PhaseOf(k) /\ home[j] = t
    /\ UNCHANGED <<tpc, stopping, home, order>> /\ OnlyMoves(j)
    /\ \A u \in Thread : FifoOK(u)'
    /\ \A i \in Job : i # j => outcome'[i] = outcome[i] /\ awaits'[i] = awaits[i]
    /\ \A u \in Thread : u # t => readyQ'[u] = readyQ[u]
    /\ \/ /\ k = "create" /\ phase'[j] = "stepping"
          /\ readyQ'[t] = Append(Tail(readyQ[t]), Handle(j, "step"))
          /\ UNCHANGED <<outcome, awaits, idle, calls>>
       \/ /\ k = "step" /\ phase'[j] = "waiting" /\ awaits'[j] = awaits[j] + 1
          /\ readyQ'[t] = Tail(readyQ[t]) /\ UNCHANGED <<outcome, idle, calls>>
       \/ /\ k = "step" /\ phase'[j] = "settling"
          /\ readyQ'[t] = Append(Tail(readyQ[t]), Handle(j, "settle"))
          /\ \E o \in Outcome : outcome' = [outcome EXCEPT ![j] = o]
          /\ UNCHANGED <<awaits, idle, calls>>
       \/ /\ k = "settle" /\ phase'[j] = "posted" /\ idle' = Append(idle, j)
          /\ readyQ'[t] = Tail(readyQ[t]) /\ UNCHANGED <<outcome, awaits, calls>>

\* A step of a job's task takes one handle from one FIFO.
LEMMA TaskMoves ==
  ASSUME Inv, TaskStep
  PROVE  \E t \in Thread, j \in Job, k \in Kind : TaskMove(t, j, k)
  <1> Kind = {"create", "step", "settle"}
    BY DEF Kind
  <1>1. PICK t \in Thread, j \in Job : \/ RunCreate(t, j) \/ RunStepSuspends(t, j)
                                       \/ RunStepEnds(t, j) \/ RunSettle(t, j)
    BY DEF TaskStep
  <1>2. ASSUME NEW k \in Kind, Pops(t, Handle(j, k))
        PROVE  phase[j] = PhaseOf(k) /\ home[j] = t
    BY <1>2, HeadPhase
  <1>3. \A n \in Kind : PhaseOf(n) \notin {"waiting", "posted"}
    BY DEF PhaseOf
  <1>4. ASSUME NEW q, readyQ' = [readyQ EXCEPT ![t] = q]
        PROVE  readyQ'[t] = q /\ \A u \in Thread : u # t => readyQ'[u] = readyQ[u]
    BY <1>4 DEF Inv, TypeOK
  <1>5. CASE RunCreate(t, j)
    <2>1. Pops(t, Handle(j, "create")) /\ phase' = [phase EXCEPT ![j] = "stepping"]
          /\ readyQ' = [readyQ EXCEPT ![t] = Append(Tail(@), Handle(j, "step"))]
          /\ UNCHANGED <<tpc, stopping, home, order, outcome, awaits, idle, calls>>
      BY <1>5 DEF RunCreate, threadVars
    <2>2. PhaseOf("step") = "stepping"
      BY DEF PhaseOf
    <2>3. OnlyMoves(j) /\ phase'[j] = "stepping" /\ \A u \in Thread : FifoOK(u)'
      BY <2>1, <2>2, Moves
    <2>4. phase[j] = PhaseOf("create") /\ home[j] = t
      BY <1>2, <2>1
    <2>5. /\ readyQ'[t] = Append(Tail(readyQ[t]), Handle(j, "step"))
          /\ \A u \in Thread : u # t => readyQ'[u] = readyQ[u]
      BY <1>4, <2>1
    <2>6. TaskMove(t, j, "create")
      BY <2>1, <2>3, <2>4, <2>5 DEF TaskMove
    <2>7. QED
      BY <2>6
  <1>6. CASE RunStepSuspends(t, j)
    <2>1. Pops(t, Handle(j, "step")) /\ phase' = [phase EXCEPT ![j] = "waiting"]
          /\ readyQ' = [readyQ EXCEPT ![t] = Tail(@)] /\ awaits' = [awaits EXCEPT ![j] = @ + 1]
          /\ UNCHANGED <<tpc, stopping, home, order, outcome, idle, calls>>
      BY <1>6 DEF RunStepSuspends, threadVars
    <2>2. OnlyMoves(j) /\ phase'[j] = "waiting" /\ \A u \in Thread : FifoOK(u)'
      BY <1>3, <2>1, Moves
    <2>3. awaits'[j] = awaits[j] + 1 /\ \A i \in Job : i # j => awaits'[i] = awaits[i]
      BY <2>1 DEF Inv, TypeOK
    <2>4. phase[j] = PhaseOf("step") /\ home[j] = t
      BY <1>2, <2>1
    <2>5. /\ readyQ'[t] = Tail(readyQ[t])
          /\ \A u \in Thread : u # t => readyQ'[u] = readyQ[u]
      BY <1>4, <2>1
    <2>6. TaskMove(t, j, "step")
      BY <2>1, <2>2, <2>3, <2>4, <2>5 DEF TaskMove
    <2>7. QED
      BY <2>6
  <1>7. CASE RunStepEnds(t, j)
    <2>1. Pops(t, Handle(j, "step")) /\ phase' = [phase EXCEPT ![j] = "settling"]
          /\ readyQ' = [readyQ EXCEPT ![t] = Append(Tail(@), Handle(j, "settle"))]
          /\ UNCHANGED <<tpc, stopping, home, order, awaits, idle, calls>>
          /\ \E o \in Outcome : outcome' = [outcome EXCEPT ![j] = o]
      BY <1>7 DEF RunStepEnds, threadVars
    <2>2. PhaseOf("settle") = "settling"
      BY DEF PhaseOf
    <2>3. OnlyMoves(j) /\ phase'[j] = "settling" /\ \A u \in Thread : FifoOK(u)'
      BY <2>1, <2>2, Moves
    <2>4. \A i \in Job : i # j => outcome'[i] = outcome[i]
      BY <2>1 DEF Inv, TypeOK
    <2>5. phase[j] = PhaseOf("step") /\ home[j] = t
      BY <1>2, <2>1
    <2>6. /\ readyQ'[t] = Append(Tail(readyQ[t]), Handle(j, "settle"))
          /\ \A u \in Thread : u # t => readyQ'[u] = readyQ[u]
      BY <1>4, <2>1
    <2>7. TaskMove(t, j, "step")
      BY <2>1, <2>3, <2>4, <2>5, <2>6 DEF TaskMove
    <2>8. QED
      BY <2>7
  <1>8. CASE RunSettle(t, j)
    <2>1. Pops(t, Handle(j, "settle")) /\ phase' = [phase EXCEPT ![j] = "posted"]
          /\ readyQ' = [readyQ EXCEPT ![t] = Tail(@)] /\ idle' = Append(idle, j)
          /\ UNCHANGED <<tpc, stopping, home, order, outcome, awaits, calls>>
      BY <1>8 DEF RunSettle, threadVars
    <2>2. OnlyMoves(j) /\ phase'[j] = "posted" /\ \A u \in Thread : FifoOK(u)'
      BY <1>3, <2>1, Moves
    <2>3. phase[j] = PhaseOf("settle") /\ home[j] = t
      BY <1>2, <2>1
    <2>4. /\ readyQ'[t] = Tail(readyQ[t])
          /\ \A u \in Thread : u # t => readyQ'[u] = readyQ[u]
      BY <1>4, <2>1
    <2>5. TaskMove(t, j, "settle")
      BY <2>1, <2>2, <2>3, <2>4 DEF TaskMove
    <2>6. QED
      BY <2>5
  <1>9. QED
    BY <1>1, <1>5, <1>6, <1>7, <1>8

LEMMA JobsStep == ASSUME Inv, [Next]_vars PROVE JobsOK'
  <1>1. CASE TaskStep
    <2>0. PICK t \in Thread, j \in Job, k \in Kind : TaskMove(t, j, k)
      BY <1>1, TaskMoves
    <2>1. /\ phase[j] = PhaseOf(k) /\ UNCHANGED <<tpc, home>> /\ OnlyMoves(j)
          /\ \A i \in Job : i # j => outcome'[i] = outcome[i] /\ awaits'[i] = awaits[i]
          /\ \/ phase'[j] = "stepping" /\ k = "create" /\ UNCHANGED outcome
             \/ phase'[j] = "waiting" /\ k = "step" /\ UNCHANGED outcome /\ awaits'[j] = awaits[j] + 1
             \/ phase'[j] = "settling" /\ \E o \in Outcome : outcome' = [outcome EXCEPT ![j] = o]
             \/ phase'[j] = "posted" /\ k = "settle" /\ UNCHANGED outcome
      BY <2>0 DEF TaskMove
    <2>2. phase[j] \notin {"unused", "refused"} /\ (k \in {"create", "step"} <=> phase[j] # "settling")
      BY <2>1 DEF PhaseOf, Kind
    <2>3. phase'[j] = "settling" => outcome'[j] # "none"
      BY <2>1 DEF Inv, TypeOK, Outcome
    <2>4. phase'[j] = "waiting" => awaits'[j] > 0
      BY <2>1 DEF Inv, TypeOK
    <2>5. home[j] # 0 /\ (outcome[j] = "none" <=> phase[j] # "settling")
      <3>1. phase[j] \in {"creating", "stepping", "settling"}
        BY <2>1 DEF PhaseOf
      <3>2. QED
        BY <3>1 DEF Inv, JobsOK
    <2>6. outcome'[j] = "none" <=> phase'[j] \notin {"settling", "posted", "called"}
      BY <2>1, <2>2, <2>3, <2>5
    <2>7. phase'[j] \notin {"unused", "refused"}
      BY <2>1
    <2>8. QED
      BY <2>1, <2>4, <2>5, <2>6, <2>7 DEF Inv, JobsOK, OnlyMoves
  <1>2. ASSUME NEW j \in Job, Submit(j) PROVE JobsOK'
    <2>1. UNCHANGED <<tpc, outcome, awaits>> /\ phase[j] = "unused" /\ main = "idle"
      BY <1>2 DEF Submit, threadVars
    <2>2. /\ \A i \in Job : i # j => phase'[i] = phase[i] /\ home'[i] = home[i]
          /\ \/ loop = 0 /\ phase'[j] = "refused" /\ home'[j] = home[j]
             \/ loop # 0 /\ phase'[j] = "creating" /\ home'[j] = loop
      BY <1>2 DEF Submit, Inv, TypeOK
    <2>3. loop # 0 => tpc[loop] \notin {"none", "new"}
      BY DEF Inv, LoopsOK
    <2>4. QED
      BY <2>1, <2>2, <2>3 DEF Inv, JobsOK
  <1>3. ASSUME NEW j \in Job, Resume(j) PROVE JobsOK'
    BY <1>3 DEF Resume, threadVars, Inv, TypeOK, JobsOK
  <1>4. CASE Deliver
    <2>1. Head(idle) \in Posted
      BY <1>4, TailLists DEF Deliver, Inv, QueuesOK
    <2>2. QED
      BY <1>4, <2>1 DEF Deliver, threadVars, Posted, Inv, TypeOK, JobsOK
  <1>5. ASSUME UNCHANGED <<phase, home, outcome, awaits>>,
               \A t \in Thread : tpc[t] \notin {"none", "new"} => tpc'[t] \notin {"none", "new"}
        PROVE  JobsOK'
    <2>1. \A j \in Job : home[j] # 0 => home[j] \in Thread
      BY BoundAssumption DEF Inv, TypeOK, Thread
    <2>2. QED
      BY <1>5, <2>1 DEF Inv, JobsOK
  <1>6. CASE Start
    <2>1. born + 1 \in Thread /\ tpc' = [tpc EXCEPT ![born + 1] = "new"]
      BY <1>6, BoundAssumption DEF Start, Thread, Inv, TypeOK
    <2>2. tpc[born + 1] = "none"
      BY <2>1 DEF Inv, LoopsOK, TypeOK
    <2>3. \A t \in Thread : tpc[t] # "none" => tpc'[t] = tpc[t]
      BY <2>1, <2>2 DEF Inv, TypeOK
    <2>4. QED
      BY <1>5, <1>6, <2>3 DEF Start, jobVars
  <1>7. CASE StartReturns \/ StartTimesOut \/ Stop \/ JoinReturns \/ UNCHANGED vars
             \/ \E t \in Thread : TakeBatch(t) \/ RunStop(t)
    BY <1>5, <1>7 DEF StartReturns, StartTimesOut, Stop, JoinReturns, vars, TakeBatch, RunStop,
      threadVars, jobVars
  <1>8. ASSUME NEW t \in Thread, SetLoop(t) \/ SetReady(t) \/ Close(t) PROVE JobsOK'
    <2>1. \A u \in Thread : tpc[u] \notin {"none", "new"} => tpc'[u] \notin {"none", "new"}
      BY <1>8 DEF SetLoop, SetReady, Close, Inv, TypeOK
    <2>2. QED
      BY <1>5, <1>8, <2>1 DEF SetLoop, SetReady, Close, jobVars
  <1>9. QED
    BY <1>1, <1>2, <1>3, <1>4, <1>6, <1>7, <1>8, NextCases

\* A job on none of the phases of a handle keeps the FIFOs as they are.
LEMMA FifosKept ==
  ASSUME Inv, UNCHANGED <<readyQ, stopping, home>>,
         \A h \in JobHandle : phase'[h.job] = PhaseOf(h.kind) <=> phase[h.job] = PhaseOf(h.kind),
         \A t \in Thread : tpc'[t] = "closed" <=> tpc[t] = "closed"
  PROVE  \A t \in Thread : FifoOK(t)'
  <1> SUFFICES ASSUME NEW t \in Thread PROVE FifoOK(t)'
    OBVIOUS
  <1>1. OnLoop(t)' = OnLoop(t)
    BY DEF OnLoop, HandlesOf, Stops
  <1>2. FifoOK(t)
    BY DEF Inv, QueuesOK
  <1>3. QED
    BY <1>1, <1>2 DEF FifoOK

LEMMA QueuesStep == ASSUME Inv, [Next]_vars PROVE QueuesOK'
  <1> /\ \A t \in Thread : FifoOK(t)
      /\ Lists(idle, Posted) /\ Lists(order, Accepted)
    BY DEF Inv, QueuesOK
  <1> \A h \in JobHandle : h.job \in Job
    BY DEF JobHandle, Handle
  <1>1. CASE TaskStep
    <2>0. PICK t \in Thread, j \in Job, k \in Kind : TaskMove(t, j, k)
      BY <1>1, TaskMoves
    <2>1. /\ phase[j] = PhaseOf(k) /\ OnlyMoves(j) /\ UNCHANGED order
          /\ \A u \in Thread : FifoOK(u)'
          /\ \/ phase'[j] \in {"stepping", "waiting", "settling"} /\ UNCHANGED idle
             \/ phase'[j] = "posted" /\ idle' = Append(idle, j)
      BY <2>0 DEF TaskMove
    <2>2. phase[j] \notin {"unused", "refused", "posted"} /\ j \notin Posted
      BY <2>1 DEF PhaseOf, Posted
    <2>3. Accepted' = Accepted
      BY <2>1, <2>2 DEF Accepted, OnlyMoves
    <2>4. Posted' = IF phase'[j] = "posted" THEN Posted \cup {j} ELSE Posted
      BY <2>1, <2>2 DEF Posted, OnlyMoves
    <2>5. Lists(idle', Posted')
      <3>1. CASE phase'[j] = "posted"
        <4>1. idle' = Append(idle, j) /\ Posted' = Posted \cup {j}
          BY <2>1, <2>4, <3>1
        <4>2. QED
          BY <2>2, <4>1, AppendLists
      <3>2. CASE phase'[j] # "posted"
        BY <2>1, <2>4, <3>2
      <3>3. QED
        BY <3>1, <3>2
    <2>6. QED
      BY <2>1, <2>3, <2>5 DEF QueuesOK
  <1>2. ASSUME NEW j \in Job, Submit(j) PROVE QueuesOK'
    <2>1. UNCHANGED <<tpc, stopping, idle>> /\ phase[j] = "unused" /\ main = "idle"
      BY <1>2 DEF Submit, threadVars
    <2>2. \A n \in Kind : PhaseOf(n) \notin {"unused", "refused"}
      BY DEF PhaseOf
    <2>3. home[j] = 0
      BY <2>1 DEF Inv, JobsOK
    <2>4. CASE loop = 0
      <3>1. /\ \A i \in Job : phase'[i] = IF i = j THEN "refused" ELSE phase[i]
            /\ UNCHANGED <<readyQ, home, order>>
        BY <1>2, <2>4 DEF Submit, Inv, TypeOK
      <3>2. Posted' = Posted /\ Accepted' = Accepted
        BY <2>1, <3>1 DEF Posted, Accepted
      <3>3. \A t \in Thread : FifoOK(t)'
        <4>1. \A h \in JobHandle : PhaseOf(h.kind) \notin {"unused", "refused"}
          BY DEF PhaseOf
        <4>2. \A h \in JobHandle : phase'[h.job] = PhaseOf(h.kind) <=> phase[h.job] = PhaseOf(h.kind)
          BY <2>1, <3>1, <4>1
        <4>3. QED
          BY <2>1, <3>1, <4>2, FifosKept
      <3>4. QED
        BY <2>1, <3>1, <3>2, <3>3 DEF QueuesOK
    <2>5. CASE loop # 0
      <3>1. /\ \A i \in Job : phase'[i] = IF i = j THEN "creating" ELSE phase[i]
            /\ \A i \in Job : home'[i] = IF i = j THEN loop ELSE home[i]
            /\ readyQ' = [readyQ EXCEPT ![loop] = Append(@, Handle(j, "create"))]
            /\ order' = Append(order, j)
        BY <1>2, <2>5 DEF Submit, Enqueue, Inv, TypeOK
      <3>2. Posted' = Posted /\ Accepted' = Accepted \cup {j} /\ j \notin Accepted
        BY <2>1, <3>1 DEF Posted, Accepted
      <3>3. \A t \in Thread : FifoOK(t)'
        <4>1. loop \in Thread /\ tpc[loop] # "closed"
          BY <2>1, <2>5, LoopOpen
        <4>2. "create" \in Kind /\ PhaseOf("create") = "creating" /\ OnlyMoves(j)
          BY <3>1 DEF Kind, PhaseOf, OnlyMoves
        <4>3. \A n \in Kind : phase[j] # PhaseOf(n)
          BY <2>1, <2>2
        <4>4. home[j] \in {0, loop} /\ home'[j] = loop /\ phase'[j] = PhaseOf("create")
          BY <2>3, <3>1, <4>2
        <4>5. UNCHANGED <<tpc, stopping>>
          BY <2>1
        <4>6. QED
          BY <3>1, <4>1, <4>2, <4>3, <4>4, <4>5, Enters
      <3>4. QED
        BY <2>1, <3>1, <3>2, <3>3, AppendLists DEF QueuesOK
    <2>6. QED
      BY <2>4, <2>5
  <1>3. ASSUME NEW j \in Job, Resume(j) PROVE QueuesOK'
    <2>1. /\ UNCHANGED <<tpc, stopping, idle, home, order>>
          /\ phase[j] = "waiting" /\ tpc[home[j]] = "running"
          /\ readyQ' = [readyQ EXCEPT ![home[j]] = Append(@, Handle(j, "step"))]
      BY <1>3 DEF Resume, Enqueue, threadVars
    <2>2. \A i \in Job : phase'[i] = IF i = j THEN "stepping" ELSE phase[i]
      BY <1>3 DEF Resume, Inv, TypeOK
    <2>3. Posted' = Posted /\ Accepted' = Accepted
      BY <2>1, <2>2 DEF Posted, Accepted
    <2>4. home[j] \in Thread
      BY <2>1, HomeType DEF Inv
    <2>5. "step" \in Kind /\ PhaseOf("step") = "stepping" /\ OnlyMoves(j)
          /\ \A n \in Kind : phase[j] # PhaseOf(n)
      BY <2>1, <2>2 DEF Kind, PhaseOf, OnlyMoves
    <2>6. \A t \in Thread : FifoOK(t)'
      <3>1. home'[j] = home[j] /\ phase'[j] = PhaseOf("step") /\ UNCHANGED <<tpc, stopping>>
        BY <2>1, <2>2, <2>5
      <3>2. tpc[home[j]] # "closed"
        BY <2>1
      <3>3. QED
        BY <2>1, <2>4, <2>5, <3>1, <3>2, Enters
    <2>7. QED
      BY <2>1, <2>3, <2>6 DEF QueuesOK
  <1>4. CASE Deliver
    <2>1. Head(idle) \in Posted /\ Lists(Tail(idle), Posted \ {Head(idle)})
      BY <1>4, TailLists DEF Deliver
    <2>2. /\ \A i \in Job : phase'[i] = IF i = Head(idle) THEN "called" ELSE phase[i]
          /\ idle' = Tail(idle) /\ UNCHANGED <<order, readyQ, stopping, tpc, home>>
      BY <1>4 DEF Deliver, Inv, TypeOK, threadVars, loopVars
    <2>3. phase[Head(idle)] = "posted" /\ Posted' = Posted \ {Head(idle)} /\ Accepted' = Accepted
      BY <2>1, <2>2 DEF Posted, Accepted
    <2>4. \A n \in Kind : PhaseOf(n) \notin {"posted", "called"}
      BY DEF PhaseOf
    <2>5. \A h \in JobHandle : PhaseOf(h.kind) \notin {"posted", "called"}
      BY DEF PhaseOf
    <2>6. \A t \in Thread : FifoOK(t)'
      BY <2>2, <2>3, <2>5, FifosKept
    <2>7. QED
      BY <2>1, <2>2, <2>3, <2>6 DEF QueuesOK
  <1>5. ASSUME UNCHANGED <<phase, home, idle, order>>, \A t \in Thread : FifoOK(t)' PROVE QueuesOK'
    BY <1>5 DEF QueuesOK, Posted, Accepted
  <1>6. CASE Stop
    <2>1. CASE loop = 0
      BY <1>5, <1>6, <2>1, FifosKept DEF Stop, jobVars
    <2>2. CASE loop # 0
      <3>1. loop \in Thread /\ tpc[loop] # "closed" /\ stopping[loop] = "no"
        BY <1>6, <2>2, LoopOpen DEF Stop
      <3>2. /\ \A t \in Thread : readyQ'[t] = IF t = loop THEN Append(readyQ[t], StopHandle) ELSE readyQ[t]
            /\ \A t \in Thread : stopping'[t] = IF t = loop THEN "queued" ELSE stopping[t]
            /\ UNCHANGED <<phase, home, idle, order, tpc>>
        <4>1. /\ readyQ' = [readyQ EXCEPT ![loop] = Append(@, StopHandle)]
              /\ stopping' = [stopping EXCEPT ![loop] = "queued"]
              /\ UNCHANGED <<phase, home, idle, order, tpc>>
          BY <1>6, <2>2 DEF Stop, Enqueue, jobVars
        <4>2. /\ readyQ \in [Thread -> Seq(JobHandle \cup {StopHandle})]
              /\ stopping \in [Thread -> {"no", "queued", "set"}]
          BY DEF Inv, TypeOK
        <4>3. QED
          BY <4>1, <4>2
      <3>3. ASSUME NEW t \in Thread, t # loop PROVE FifoOK(t)'
        BY <3>2, <3>3 DEF FifoOK, OnLoop, HandlesOf, Stops
      <3>4. ASSUME NEW t \in Thread, t = loop PROVE FifoOK(t)'
        <4>1. OnLoop(t)' = OnLoop(t) \cup {StopHandle}
          BY <3>1, <3>2, <3>4 DEF OnLoop, HandlesOf, Stops
        <4>2. StopHandle \notin OnLoop(t)
          <5>1. StopHandle \notin JobHandle
            BY HandleType DEF JobHandle
          <5>2. QED
            BY <3>1, <3>4, <5>1 DEF OnLoop, HandlesOf, Stops
        <4>3. Lists(readyQ[t], OnLoop(t)) /\ tpc'[t] # "closed"
          BY <3>1, <3>2, <3>4 DEF FifoOK
        <4>4. readyQ'[t] = Append(readyQ[t], StopHandle)
          BY <3>2, <3>4
        <4>5. Lists(readyQ'[t], OnLoop(t)')
          BY <4>1, <4>2, <4>3, <4>4, AppendLists
        <4>6. QED
          BY <4>3, <4>5 DEF FifoOK
      <3>5. QED
        BY <1>5, <3>2, <3>3, <3>4
    <2>3. QED
      BY <2>1, <2>2
  <1>7. ASSUME NEW t \in Thread, RunStop(t) PROVE QueuesOK'
    <2>1. Lists(readyQ[t], OnLoop(t)) /\ readyQ[t] # <<>> /\ Head(readyQ[t]) = StopHandle
      BY <1>7 DEF RunStop, Pops, FifoOK
    <2>2. StopHandle \in OnLoop(t) /\ Lists(Tail(readyQ[t]), OnLoop(t) \ {StopHandle})
      BY <2>1, TailLists
    <2>3. StopHandle \notin JobHandle
      BY HandleType DEF JobHandle
    <2>4. /\ \A u \in Thread : readyQ'[u] = IF u = t THEN Tail(readyQ[u]) ELSE readyQ[u]
          /\ \A u \in Thread : stopping'[u] = IF u = t THEN "set" ELSE stopping[u]
          /\ UNCHANGED <<phase, home, idle, order, tpc>> /\ tpc[t] = "running"
      BY <1>7 DEF RunStop, Pops, Inv, TypeOK, threadVars, jobVars
    <2>5. OnLoop(t)' = OnLoop(t) \ {StopHandle}
      BY <2>3, <2>4 DEF OnLoop, HandlesOf, Stops
    <2>6. FifoOK(t)'
      BY <2>2, <2>4, <2>5 DEF FifoOK
    <2>7. ASSUME NEW u \in Thread, u # t PROVE FifoOK(u)'
      BY <2>4, <2>7 DEF FifoOK, OnLoop, HandlesOf, Stops
    <2>8. QED
      BY <1>5, <2>4, <2>6, <2>7
  <1>8. ASSUME NEW t \in Thread, Close(t) PROVE QueuesOK'
    <2>1. /\ \A u \in Thread : readyQ'[u] = IF u = t THEN <<>> ELSE readyQ[u]
          /\ \A u \in Thread : tpc'[u] = IF u = t THEN "closed" ELSE tpc[u]
          /\ UNCHANGED <<phase, home, idle, order, stopping>>
      BY <1>8 DEF Close, Inv, TypeOK, jobVars
    <2>2. ASSUME NEW u \in Thread PROVE FifoOK(u)'
      BY <2>1 DEF FifoOK, OnLoop, HandlesOf, Stops
    <2>3. QED
      BY <1>5, <2>1, <2>2
  <1>9. ASSUME NEW t \in Thread, SetLoop(t) \/ SetReady(t) \/ TakeBatch(t) PROVE QueuesOK'
    <2>1. \A u \in Thread : tpc'[u] = "closed" <=> tpc[u] = "closed"
      BY <1>9 DEF SetLoop, SetReady, TakeBatch, threadVars, Inv, TypeOK
    <2>2. UNCHANGED <<readyQ, stopping, phase, home, idle, order>>
      BY <1>9 DEF SetLoop, SetReady, TakeBatch, loopVars, jobVars
    <2>3. QED
      BY <1>5, <2>1, <2>2, FifosKept
  <1>10. CASE Start
    <2>1. born + 1 \in Thread /\ tpc' = [tpc EXCEPT ![born + 1] = "new"]
      BY <1>10, BoundAssumption DEF Start, Thread, Inv, TypeOK
    <2>2. tpc[born + 1] = "none"
      BY <2>1 DEF Inv, LoopsOK, TypeOK
    <2>3. \A t \in Thread : tpc'[t] = "closed" <=> tpc[t] = "closed"
      BY <2>1, <2>2 DEF Inv, TypeOK
    <2>4. QED
      BY <1>5, <1>10, <2>3, FifosKept DEF Start, loopVars, jobVars
  <1>11. CASE StartReturns \/ StartTimesOut \/ JoinReturns \/ UNCHANGED vars
    BY <1>5, <1>11, FifosKept DEF StartReturns, StartTimesOut, JoinReturns, vars, loopVars, jobVars
  <1>12. QED
    BY <1>1, <1>2, <1>3, <1>4, <1>6, <1>7, <1>8, <1>9, <1>10, <1>11, NextCases

LEMMA InvStep == ASSUME Inv, [Next]_vars PROVE Inv'
  BY TypeStep, LoopsStep, JobsStep, QueuesStep DEF Inv

LEMMA InvAlways == Spec => []Inv
  BY InitInv, InvStep, PTL DEF Spec

\* Whatever threads a slow start() or a join() that timed out have left
\* behind, submit() hands its coroutine to a loop that is neither closed nor
\* stopped.
THEOREM LoopAlwaysAccepts == Spec => []LoopAcceptsJobs
  <1>1. Inv => LoopAcceptsJobs
    BY LoopOpen DEF LoopAcceptsJobs
  <1>2. QED
    BY <1>1, InvAlways, PTL

-----------------------------------------------------------------------------
(* Each step as a step of the port.                                        *)

\* The status the port sees of the other jobs is left alone.
LEMMA StatusStep ==
  ASSUME TypeOK, NEW j \in Job, OnlyMoves(j)
  PROVE  [i \in Job |-> StatusOf(i)'] = [[i \in Job |-> StatusOf(i)] EXCEPT ![j] = StatusOf(j)']
  BY DEF StatusOf, OnlyMoves

LEMMA PortStep ==
  ASSUME Inv, [Next]_vars
  PROVE  [Port!Next]_(Port!vars)
  <1> DEFINE status == [i \in Job |-> StatusOf(i)]
  <1>1. ASSUME NEW j \in Job, Submit(j) PROVE Port!Submit(j)
    <2>1. PICK ph \in {"creating", "refused"} : phase' = [phase EXCEPT ![j] = ph]
      BY <1>1 DEF Submit
    <2>2. phase[j] = "unused" /\ UNCHANGED <<outcome, calls>>
      BY <1>1 DEF Submit
    <2>3. phase'[j] = ph /\ \A i \in Job : i # j => phase'[i] = phase[i]
      BY <2>1 DEF Inv, TypeOK
    <2>4. StatusOf(j) = "unused" /\ StatusOf(j)' \in {"accepted", "refused"}
      BY <2>2, <2>3 DEF StatusOf
    <2>5. status' = [status EXCEPT ![j] = StatusOf(j)']
      BY <2>3 DEF StatusOf
    <2>6. QED
      BY <2>2, <2>4, <2>5 DEF Port!Submit
  <1>2. CASE TaskStep
    <2>0. PICK t \in Thread, j \in Job, k \in Kind : TaskMove(t, j, k)
      BY <1>2, TaskMoves
    <2>1. /\ phase[j] = PhaseOf(k) /\ OnlyMoves(j) /\ UNCHANGED calls
          /\ \/ phase'[j] \in {"stepping", "waiting", "posted"} /\ UNCHANGED outcome
             \/ /\ phase'[j] = "settling" /\ k = "step"
                /\ \E o \in Outcome : outcome' = [outcome EXCEPT ![j] = o]
      BY <2>0 DEF TaskMove
    <2>2. phase[j] \in {"creating", "stepping", "settling"} /\ (k = "step" => phase[j] = "stepping")
      BY <2>1 DEF PhaseOf
    <2>3. StatusOf(j) = "accepted" /\ StatusOf(j)' = "accepted"
      BY <2>1, <2>2 DEF StatusOf
    <2>4. status' = status
      BY <2>1, <2>3 DEF StatusOf, OnlyMoves
    <2>5. CASE UNCHANGED outcome
      BY <2>1, <2>4, <2>5 DEF Port!vars
    <2>6. CASE k = "step" /\ \E o \in Outcome : outcome' = [outcome EXCEPT ![j] = o]
      <3>1. outcome[j] = "none"
        BY <2>2, <2>6 DEF Inv, JobsOK
      <3>2. Port!Finish(j)
        BY <2>1, <2>3, <2>4, <2>6, <3>1 DEF Port!Finish, Port!Outcome, Outcome
      <3>3. QED
        BY <3>2 DEF Port!Next
    <2>7. QED
      BY <2>1, <2>5, <2>6
  <1>3. CASE Deliver
    <2> DEFINE j == Head(idle)
    <2>1. j \in Posted
      BY <1>3, TailLists DEF Deliver, Inv, QueuesOK
    <2>2. /\ phase' = [phase EXCEPT ![j] = "called"] /\ calls' = [calls EXCEPT ![j] = @ + 1]
          /\ UNCHANGED outcome
      BY <1>3 DEF Deliver
    <2> HIDE DEF j
    <2>3. j \in Job /\ phase[j] = "posted" /\ outcome[j] # "none"
      BY <2>1 DEF Posted, Inv, JobsOK
    <2>4. phase'[j] = "called" /\ \A i \in Job : i # j => phase'[i] = phase[i]
      BY <2>2, <2>3 DEF Inv, TypeOK
    <2>5. status[j] = "accepted" /\ status' = [status EXCEPT ![j] = "answered"]
      BY <2>3, <2>4 DEF StatusOf
    <2>6. Port!Answer(j)
      BY <2>2, <2>3, <2>5 DEF Port!Answer
    <2>7. QED
      BY <2>3, <2>6 DEF Port!Next
  <1>4. ASSUME NEW j \in Job, Resume(j) PROVE UNCHANGED Port!vars
    <2>1. phase[j] = "waiting" /\ phase' = [phase EXCEPT ![j] = "stepping"] /\ UNCHANGED <<outcome, calls>>
      BY <1>4 DEF Resume
    <2>2. phase'[j] = "stepping" /\ \A i \in Job : i # j => phase'[i] = phase[i]
      BY <2>1 DEF Inv, TypeOK
    <2>3. status' = status
      BY <2>1, <2>2 DEF StatusOf
    <2>4. QED
      BY <2>1, <2>3 DEF Port!vars
  <1>5. CASE Start \/ StartReturns \/ StartTimesOut \/ Stop \/ JoinReturns \/ UNCHANGED vars
             \/ \E t \in Thread : SetLoop(t) \/ SetReady(t) \/ TakeBatch(t) \/ Close(t) \/ RunStop(t)
    <2>1. UNCHANGED <<phase, outcome, calls>>
      BY <1>5 DEF Start, StartReturns, StartTimesOut, Stop, JoinReturns, SetLoop, SetReady,
        TakeBatch, Close, RunStop, jobVars, vars
    <2>2. QED
      BY <2>1 DEF Port!vars, StatusOf
  <1>6. QED
    BY <1>1, <1>2, <1>3, <1>4, <1>5, NextCases DEF Port!Next

\* Threads, batches, timeouts and restarts stay behind the port: a job is
\* refused or accepted, ends once, and only then is answered, once.
THEOREM ThreadLoopImplementsPort == Spec => ImplementsPort
  <1>1. Init => Port!Init
    BY DEF Init, Port!Init, StatusOf
  <1>2. Inv /\ [Next]_vars => [Port!Next]_(Port!vars)
    BY PortStep
  <1>3. QED
    BY <1>1, <1>2, InvAlways, PTL DEF Spec, ImplementsPort, Port!Spec

-----------------------------------------------------------------------------
(* The order of the answers.                                               *)

Stage(j) == CASE phase[j] = "creating" -> 1 [] phase[j] = "stepping" -> 2
              [] phase[j] = "settling" -> 3 [] phase[j] = "posted" -> 4
              [] phase[j] = "called" -> 5   [] OTHER -> 0

\* a is further than b, or as far and before it in the queue they are both in.
Ahead(a, b) ==
    \/ Stage(a) > Stage(b)
    \/ /\ phase[a] = phase[b]
       /\ phase[a] = "posted" => Before(idle, a, b)
       /\ \A k \in Kind : phase[a] = PhaseOf(k) /\ tpc[home[a]] # "closed"
                            => Before(readyQ[home[a]], Handle(a, k), Handle(b, k))

\* Of two jobs of one loop that have not suspended, the one submitted first
\* stays ahead: each pass of the FIFO takes it one stage further before the
\* other.
FirstAhead ==
    \A i, k \in 1 .. Len(order) :
        /\ i < k /\ home[order[i]] = home[order[k]]
        /\ awaits[order[i]] = 0 /\ awaits[order[k]] = 0
        => Ahead(order[i], order[k])

\* A step that leaves both jobs and their order in the queues alone.
LEMMA AheadKept ==
  ASSUME NEW a, NEW b, Ahead(a, b), phase'[a] = phase[a], phase'[b] = phase[b],
         home'[a] = home[a], Before(idle, a, b) => Before(idle', a, b),
         tpc'[home[a]] # "closed" =>
           /\ tpc[home[a]] # "closed"
           /\ \A k \in Kind : Before(readyQ[home[a]], Handle(a, k), Handle(b, k))
                => Before(readyQ'[home[a]], Handle(a, k), Handle(b, k))
  PROVE  Ahead(a, b)'
  BY DEF Ahead, Stage

\* A step of the task of j leaves it ahead of those it was ahead of, and
\* behind those it was behind.
LEMMA TaskKeepsAhead ==
  ASSUME Inv, Inv', TaskStep, NEW a \in Job, NEW b \in Job, a # b, home[a] = home[b],
         awaits'[a] = 0, awaits'[b] = 0, a \in Accepted, b \in Accepted, Ahead(a, b)
  PROVE  Ahead(a, b)'
  <1>0. PICK t \in Thread, j \in Job, k \in Kind : TaskMove(t, j, k)
    BY TaskMoves
  <1>1. /\ Pops(t, Handle(j, k)) /\ phase[j] = PhaseOf(k) /\ home[j] = t
        /\ UNCHANGED <<tpc, home>> /\ OnlyMoves(j)
        /\ \A i \in Job : i # j => awaits'[i] = awaits[i]
        /\ \A i \in Thread : i # t => readyQ'[i] = readyQ[i]
        /\ \/ /\ k = "create" /\ phase'[j] = "stepping" /\ UNCHANGED idle
              /\ readyQ'[t] = Append(Tail(readyQ[t]), Handle(j, "step"))
           \/ k = "step" /\ phase'[j] = "waiting" /\ readyQ'[t] = Tail(readyQ[t])
              /\ awaits'[j] = awaits[j] + 1 /\ UNCHANGED idle
           \/ /\ k = "step" /\ phase'[j] = "settling" /\ UNCHANGED idle
              /\ readyQ'[t] = Append(Tail(readyQ[t]), Handle(j, "settle"))
           \/ k = "settle" /\ phase'[j] = "posted" /\ idle' = Append(idle, j)
              /\ readyQ'[t] = Tail(readyQ[t])
    BY <1>0 DEF TaskMove
  <1>2. readyQ[t] # <<>> /\ Head(readyQ[t]) = Handle(j, k) /\ tpc[t] # "closed"
        /\ Lists(readyQ[t], OnLoop(t))
        /\ Lists(Tail(readyQ[t]), Others(phase, home, j, t) \cup Stops(t))
    BY <1>1, HeadPhase DEF Pops, Inv, QueuesOK, FifoOK
  <1>3. Kind = {"create", "step", "settle"} /\ PhaseOf("create") = "creating"
        /\ PhaseOf("step") = "stepping" /\ PhaseOf("settle") = "settling"
    BY DEF Kind, PhaseOf
  <1>4. j \notin Posted
    BY <1>1 DEF Posted, PhaseOf
  <1>5. home[a] \in Thread
    BY HomeType DEF Inv, Accepted
  <1>6. awaits[j] + 1 # 0
    <2>1. awaits[j] \in 0 .. MaxAwaits
      BY DEF Inv, TypeOK
    <2>2. QED
      BY <2>1, BoundAssumption
  <1>7. CASE j \notin {a, b}
    <2>1. phase'[a] = phase[a] /\ phase'[b] = phase[b]
      BY <1>1, <1>7 DEF OnlyMoves
    <2>2. Before(idle, a, b) => Before(idle', a, b)
      <3>1. Before(idle, a, b) => Before(Append(idle, j), a, b)
        BY <1>4, <1>7, AppendBefore DEF Inv, QueuesOK
      <3>2. QED
        BY <1>1, <3>1
    <2>3. ASSUME NEW n \in Kind, Before(readyQ[t], Handle(a, n), Handle(b, n))
          PROVE  Before(readyQ'[t], Handle(a, n), Handle(b, n))
      <3>1. Before(Tail(readyQ[t]), Handle(a, n), Handle(b, n))
        BY <1>2, <2>3, TailBefore
      <3>2. ASSUME NEW m \in Kind
            PROVE  Before(Append(Tail(readyQ[t]), Handle(j, m)), Handle(a, n), Handle(b, n))
        <4>1. Handle(j, m) # Handle(a, n) /\ Handle(j, m) # Handle(b, n)
          BY <1>7, HandleType
        <4>2. Handle(j, m) \notin Others(phase, home, j, t) \cup Stops(t)
          BY NotAmongOthers
        <4>3. QED
          BY <1>2, <3>1, <4>1, <4>2, AppendBefore
      <3>3. QED
        BY <1>1, <1>3, <3>1, <3>2
    <2>4. \A n \in Kind : Before(readyQ[home[a]], Handle(a, n), Handle(b, n))
                            => Before(readyQ'[home[a]], Handle(a, n), Handle(b, n))
      BY <1>1, <1>5, <2>3
    <2>5. QED
      BY <1>1, <2>1, <2>2, <2>4, AheadKept
  <1>8. CASE j = a
    <2>1. phase'[b] = phase[b] /\ phase'[a] # "waiting"
      BY <1>1, <1>8, <1>6 DEF OnlyMoves
    <2>2. Stage(a)' = Stage(a) + 1 /\ Stage(b)' = Stage(b) /\ Stage(a) >= Stage(b)
      BY <1>1, <1>3, <1>8, <2>1 DEF Stage, Ahead
    <2>3. Stage(a) \in 0 .. 5 /\ Stage(b) \in 0 .. 5
      BY DEF Stage
    <2>4. Stage(a)' > Stage(b)'
      BY <2>2, <2>3
    <2>5. QED
      BY <2>4 DEF Ahead
  <1>9. CASE j = b
    <2>1. phase'[a] = phase[a] /\ phase'[b] # "waiting"
      BY <1>1, <1>9, <1>6 DEF OnlyMoves
    <2>2. Stage(b)' = Stage(b) + 1 /\ Stage(a)' = Stage(a)
      BY <1>1, <1>3, <1>9, <2>1 DEF Stage
    <2>3. ~(phase[a] = phase[b] /\ Before(readyQ[t], Handle(a, k), Handle(b, k)))
      <3> SUFFICES ASSUME phase[a] = phase[b] PROVE ~Before(readyQ[t], Handle(a, k), Handle(b, k))
        OBVIOUS
      <3>1. Handle(a, k) \in OnLoop(t)
        BY <1>1, <1>9, HandleType DEF OnLoop, HandlesOf
      <3>2. QED
        BY <1>2, <1>9, <3>1, HeadIsFirst
    <2>4. Stage(a) > Stage(b)
      BY <1>1, <1>2, <1>9, <2>3 DEF Ahead
    <2>5. Stage(a) \in 0 .. 5 /\ Stage(b) \in 0 .. 5
      BY DEF Stage
    <2>6. CASE Stage(a)' = Stage(b)'
      <3>1. phase'[a] = phase'[b] /\ phase[a] = phase'[b]
        BY <1>1, <1>3, <1>9, <2>1, <2>2, <2>6 DEF Stage
      <3>2. ASSUME phase'[a] = "posted" PROVE Before(idle', a, b)
        <4>1. idle' = Append(idle, b)
          BY <1>1, <1>9, <3>1, <3>2
        <4>2. QED
          BY <1>4, <1>9, <4>1, AppendBefore DEF Inv, QueuesOK
      <3>3. ASSUME NEW n \in Kind, phase'[a] = PhaseOf(n)
            PROVE  Before(readyQ'[t], Handle(a, n), Handle(b, n))
        <4>1. readyQ'[t] = Append(Tail(readyQ[t]), Handle(b, n))
          BY <1>1, <1>3, <1>9, <2>1, <3>1, <3>3
        <4>2. Handle(b, n) \notin Others(phase, home, j, t) \cup Stops(t)
          BY <1>9, NotAmongOthers
        <4>3. Handle(b, n) # Handle(a, n)
          BY HandleType
        <4>4. QED
          BY <1>2, <4>1, <4>2, <4>3, AppendBefore
      <3>4. home'[a] = t
        BY <1>1, <1>9
      <3>5. QED
        BY <3>1, <3>2, <3>3, <3>4 DEF Ahead
    <2>7. CASE Stage(a)' # Stage(b)'
      <3>1. Stage(a)' > Stage(b)'
        BY <2>2, <2>4, <2>5, <2>7
      <3>2. QED
        BY <3>1 DEF Ahead
    <2>8. QED
      BY <2>6, <2>7
  <1>10. QED
    BY <1>7, <1>8, <1>9

\* No other step of a loop, and no callback, changes who is ahead.
LEMMA OthersKeepAhead ==
  ASSUME Inv, [Next]_vars, ~TaskStep, NEW a \in Job, NEW b \in Job, a # b, home[a] = home[b],
         awaits[a] = 0, awaits[b] = 0, a \in Accepted, b \in Accepted, Ahead(a, b)
  PROVE  Ahead(a, b)'
  <1> Lists(idle, Posted) /\ \A t \in Thread : FifoOK(t)
    BY DEF Inv, QueuesOK
  <1>1. home[a] \in Thread
    BY HomeType DEF Inv, Accepted
  <1>2. phase[a] \notin {"unused", "waiting"} /\ phase[b] \notin {"unused", "waiting"}
    BY DEF Inv, JobsOK, Accepted
  \* Another job's handle, or a stop, goes to the end of a FIFO.
  <1>3. ASSUME UNCHANGED <<idle, tpc>>, phase'[a] = phase[a], phase'[b] = phase[b],
               home'[a] = home[a], NEW t \in Thread, tpc[t] # "closed", NEW h, h \notin OnLoop(t),
               \A k \in Kind : h # Handle(a, k), readyQ' = [readyQ EXCEPT ![t] = Append(@, h)]
        PROVE  Ahead(a, b)'
    <2>1. \A u \in Thread : readyQ'[u] = IF u = t THEN Append(readyQ[u], h) ELSE readyQ[u]
      BY <1>3 DEF Inv, TypeOK
    <2>2. \A x, y : x # h /\ Before(readyQ[t], x, y) => Before(Append(readyQ[t], h), x, y)
      BY <1>3, AppendBefore DEF FifoOK
    <2>3. \A k \in Kind : Before(readyQ[home[a]], Handle(a, k), Handle(b, k))
                            => Before(readyQ'[home[a]], Handle(a, k), Handle(b, k))
      BY <1>1, <1>3, <2>1, <2>2
    <2>4. QED
      BY <1>3, <2>3, AheadKept
  <1>4. ASSUME NEW j \in Job, Submit(j) PROVE Ahead(a, b)'
    <2>1. phase[j] = "unused" /\ main = "idle" /\ UNCHANGED <<tpc, idle>>
      BY <1>4 DEF Submit, threadVars
    <2>2. phase'[a] = phase[a] /\ phase'[b] = phase[b] /\ home'[a] = home[a]
      BY <1>2, <1>4, <2>1 DEF Submit, Inv, TypeOK
    <2>3. CASE loop = 0
      BY <1>4, <2>1, <2>2, <2>3, AheadKept DEF Submit
    <2>4. CASE loop # 0
      <3>1. loop \in Thread /\ tpc[loop] # "closed"
        BY <2>1, <2>4, LoopOpen
      <3>2. Handle(j, "create") \notin OnLoop(loop)
        BY <2>1, HandleType DEF OnLoop, HandlesOf, Stops, Kind, PhaseOf
      <3>3. \A k \in Kind : Handle(j, "create") # Handle(a, k)
        BY <1>2, <2>1, HandleType DEF Kind
      <3>4. readyQ' = [readyQ EXCEPT ![loop] = Append(@, Handle(j, "create"))]
        BY <1>4, <2>4 DEF Submit, Enqueue
      <3>5. QED
        BY <1>3, <2>1, <2>2, <3>1, <3>2, <3>3, <3>4
    <2>5. QED
      BY <2>3, <2>4
  <1>5. ASSUME NEW j \in Job, Resume(j) PROVE Ahead(a, b)'
    <2>1. /\ phase[j] = "waiting" /\ tpc[home[j]] = "running" /\ UNCHANGED <<tpc, idle, home>>
          /\ readyQ' = [readyQ EXCEPT ![home[j]] = Append(@, Handle(j, "step"))]
      BY <1>5 DEF Resume, Enqueue, threadVars
    <2>2. phase'[a] = phase[a] /\ phase'[b] = phase[b]
      BY <1>2, <1>5, <2>1 DEF Resume, Inv, TypeOK
    <2>3. home[j] \in Thread
      BY <2>1, HomeType DEF Inv
    <2>4. Handle(j, "step") \notin OnLoop(home[j])
      BY <2>1, HandleType DEF OnLoop, HandlesOf, Stops, Kind, PhaseOf
    <2>5. \A k \in Kind : Handle(j, "step") # Handle(a, k)
      BY <1>2, <2>1, HandleType DEF Kind
    <2>6. QED
      BY <1>3, <2>1, <2>2, <2>3, <2>4, <2>5
  <1>6. CASE Stop
    <2>1. UNCHANGED <<phase, home, idle, tpc>>
      BY <1>6 DEF Stop, jobVars
    <2>2. CASE loop = 0
      BY <1>6, <2>1, <2>2, AheadKept DEF Stop
    <2>3. CASE loop # 0
      <3>1. loop \in Thread /\ tpc[loop] # "closed" /\ stopping[loop] = "no"
        BY <1>6, <2>3, LoopOpen DEF Stop
      <3>2. StopHandle \notin JobHandle /\ \A k \in Kind : StopHandle # Handle(a, k)
        <4>1. StopHandle \notin JobHandle
          BY HandleType DEF JobHandle
        <4>2. ASSUME NEW k \in Kind PROVE StopHandle # Handle(a, k)
          BY HandleType
        <4>3. QED
          BY <4>1, <4>2
      <3>3. StopHandle \notin OnLoop(loop)
        BY <3>1, <3>2 DEF OnLoop, HandlesOf, Stops
      <3>4. readyQ' = [readyQ EXCEPT ![loop] = Append(@, StopHandle)]
        BY <1>6, <2>3 DEF Stop, Enqueue
      <3>5. QED
        BY <1>3, <2>1, <3>1, <3>2, <3>3, <3>4
    <2>4. QED
      BY <2>2, <2>3
  <1>7. ASSUME NEW t \in Thread, RunStop(t) PROVE Ahead(a, b)'
    <2>1. /\ UNCHANGED <<phase, home, idle, tpc>> /\ readyQ[t] # <<>> /\ tpc[t] # "closed"
          /\ \A u \in Thread : readyQ'[u] = IF u = t THEN Tail(readyQ[u]) ELSE readyQ[u]
      BY <1>7 DEF RunStop, Pops, threadVars, jobVars, Inv, TypeOK
    <2>2. \A x, y : Before(readyQ[t], x, y) => Before(Tail(readyQ[t]), x, y)
      BY <2>1, TailBefore DEF FifoOK
    <2>3. \A k \in Kind : Before(readyQ[home[a]], Handle(a, k), Handle(b, k))
                            => Before(readyQ'[home[a]], Handle(a, k), Handle(b, k))
      BY <1>1, <2>1, <2>2
    <2>4. QED
      BY <2>1, <2>3, AheadKept
  <1>8. ASSUME NEW t \in Thread, Close(t) PROVE Ahead(a, b)'
    <2>1. /\ UNCHANGED <<phase, home, idle>> /\ tpc'[t] = "closed"
          /\ \A u \in Thread : u # t => readyQ'[u] = readyQ[u] /\ tpc'[u] = tpc[u]
      BY <1>8 DEF Close, jobVars, Inv, TypeOK
    <2>2. CASE home[a] = t
      BY <2>1, <2>2, AheadKept
    <2>3. CASE home[a] # t
      BY <1>1, <2>1, <2>3, AheadKept
    <2>4. QED
      BY <2>2, <2>3
  <1>9. CASE Deliver
    <2> DEFINE j == Head(idle)
    <2>1. j \in Posted /\ idle # <<>> /\ UNCHANGED <<home, tpc, readyQ>> /\ idle' = Tail(idle)
      BY <1>9, TailLists DEF Deliver, threadVars, loopVars
    <2>2. \A i \in Job : phase'[i] = IF i = j THEN "called" ELSE phase[i]
      BY <1>9 DEF Deliver, Inv, TypeOK
    <2>3. Before(idle, a, b) => Before(idle', a, b)
      BY <2>1, TailBefore
    <2>4. a \in Posted => ~Before(idle, a, j)
      BY <2>1, HeadIsFirst
    <2> HIDE DEF j
    <2>5. phase[j] = "posted" /\ j \in Job
      BY <2>1 DEF Posted
    <2>6. CASE j \notin {a, b}
      BY <2>1, <2>2, <2>3, <2>6, AheadKept
    <2>7. CASE j = a
      <3>1. Stage(a)' = 5 /\ Stage(b)' = Stage(b) /\ Stage(b) \in 0 .. 4
        BY <2>2, <2>5, <2>7 DEF Stage, Ahead
      <3>2. QED
        BY <3>1 DEF Ahead
    <2>8. CASE j = b
      <3>1. Stage(b) = 4 /\ phase'[a] = phase[a] /\ phase'[b] = "called"
        BY <2>2, <2>5, <2>8 DEF Stage
      <3>2. phase[a] # "posted"
        BY <2>4, <2>5, <2>8, <3>1 DEF Ahead, Posted, Stage
      <3>3. phase[a] = "called"
        BY <2>5, <2>8, <3>1, <3>2 DEF Ahead, Stage
      <3>4. QED
        BY <3>1, <3>3 DEF Ahead, PhaseOf
    <2>9. QED
      BY <2>6, <2>7, <2>8
  <1>10. ASSUME UNCHANGED <<phase, home, idle, readyQ>>,
                \A t \in Thread : tpc'[t] = "closed" <=> tpc[t] = "closed"
         PROVE  Ahead(a, b)'
    BY <1>1, <1>10, AheadKept
  <1>11. CASE Start
    <2>1. born + 1 \in Thread /\ tpc' = [tpc EXCEPT ![born + 1] = "new"]
      BY <1>11, BoundAssumption DEF Start, Thread, Inv, TypeOK
    <2>2. tpc[born + 1] = "none"
      BY <2>1 DEF Inv, LoopsOK, TypeOK
    <2>3. \A t \in Thread : tpc'[t] = "closed" <=> tpc[t] = "closed"
      BY <2>1, <2>2 DEF Inv, TypeOK
    <2>4. QED
      BY <1>10, <1>11, <2>3 DEF Start, loopVars, jobVars
  <1>12. CASE StartReturns \/ StartTimesOut \/ JoinReturns \/ UNCHANGED vars
    BY <1>10, <1>12 DEF StartReturns, StartTimesOut, JoinReturns, vars, loopVars, jobVars
  <1>13. ASSUME NEW t \in Thread, SetLoop(t) \/ SetReady(t) \/ TakeBatch(t) PROVE Ahead(a, b)'
    <2>1. \A u \in Thread : tpc'[u] = "closed" <=> tpc[u] = "closed"
      BY <1>13 DEF SetLoop, SetReady, TakeBatch, threadVars, Inv, TypeOK
    <2>2. QED
      BY <1>10, <1>13, <2>1 DEF SetLoop, SetReady, TakeBatch, loopVars, jobVars
  <1>14. QED
    BY <1>4, <1>5, <1>6, <1>7, <1>8, <1>9, <1>11, <1>12, <1>13, NextCases

\* What is submitted later starts behind.
LEMMA NewIsBehind ==
  ASSUME Inv, NEW j \in Job, Submit(j), loop # 0, NEW a \in Accepted, home[a] = loop, awaits[a] = 0
  PROVE  Ahead(a, j)'
  <1>1. /\ phase[j] = "unused" /\ main = "idle" /\ UNCHANGED tpc
        /\ \A i \in Job : phase'[i] = IF i = j THEN "creating" ELSE phase[i]
        /\ \A i \in Job : home'[i] = IF i = j THEN loop ELSE home[i]
        /\ \A t \in Thread : readyQ'[t] = IF t = loop THEN Append(readyQ[t], Handle(j, "create"))
                                                      ELSE readyQ[t]
    <2>1. /\ phase[j] = "unused" /\ main = "idle" /\ UNCHANGED tpc
          /\ phase' = [phase EXCEPT ![j] = "creating"] /\ home' = [home EXCEPT ![j] = loop]
          /\ readyQ' = [readyQ EXCEPT ![loop] = Append(@, Handle(j, "create"))]
      BY DEF Submit, Enqueue, threadVars
    <2>2. /\ phase \in [Job -> Phase] /\ home \in [Job -> 0 .. MaxStarts]
          /\ readyQ \in [Thread -> Seq(JobHandle \cup {StopHandle})]
      BY DEF Inv, TypeOK
    <2>3. QED
      BY <2>1, <2>2
  <1>2. a \in Job /\ a # j /\ phase[a] \in Phase \ {"unused", "refused", "waiting"}
    BY <1>1 DEF Accepted, Inv, TypeOK, JobsOK
  <1>3. Stage(a)' = Stage(a) /\ Stage(a) \in 1 .. 5 /\ Stage(j)' = 1
    BY <1>1, <1>2 DEF Stage, Phase
  <1>4. CASE Stage(a) > 1
    BY <1>3, <1>4 DEF Ahead
  <1>5. CASE Stage(a) = 1
    <2>1. phase'[a] = "creating" /\ phase'[j] = "creating" /\ home'[a] = loop
      BY <1>1, <1>2, <1>5 DEF Stage, Phase
    <2>2. loop \in Thread /\ tpc[loop] # "closed"
      BY <1>1, LoopOpen
    <2>3. Lists(readyQ[loop], OnLoop(loop)) /\ Handle(j, "create") \notin OnLoop(loop)
      BY <1>1, <2>2, HandleType DEF Inv, QueuesOK, FifoOK, OnLoop, HandlesOf, Stops, Kind, PhaseOf
    <2>4. Handle(j, "create") # Handle(a, "create")
      BY <1>2, HandleType DEF Kind
    <2>5. Before(Append(readyQ[loop], Handle(j, "create")), Handle(a, "create"), Handle(j, "create"))
      BY <2>3, <2>4, AppendBefore
    <2>6. \A k \in Kind : PhaseOf(k) = "creating" => k = "create"
      BY DEF Kind, PhaseOf
    <2>7. \A k \in Kind : phase'[a] = PhaseOf(k) => Before(readyQ'[home'[a]], Handle(a, k), Handle(j, k))
      BY <1>1, <2>1, <2>2, <2>5, <2>6
    <2>8. QED
      BY <2>1, <2>7 DEF Ahead
  <1>6. QED
    BY <1>3, <1>4, <1>5

LEMMA FirstAheadStep == ASSUME Inv, Inv', FirstAhead, [Next]_vars PROVE FirstAhead'
  <1>1. /\ Len(order) \in Nat /\ \A i \in 1 .. Len(order) : order[i] \in Accepted
        /\ \A i, k \in 1 .. Len(order) : order[i] = order[k] => i = k
    BY DEF Inv, QueuesOK, Lists
  <1>2. Accepted \subseteq Job
    BY DEF Accepted
  <1>3. \A j \in Job : awaits'[j] = 0 => awaits[j] = 0
    <2>1. CASE TaskStep
      <3>0. PICK t \in Thread, j \in Job, k \in Kind : TaskMove(t, j, k)
        BY <2>1, TaskMoves
      <3>1. /\ \A i \in Job : i # j => awaits'[i] = awaits[i]
            /\ awaits'[j] \in {awaits[j], awaits[j] + 1}
        BY <3>0 DEF TaskMove
      <3>2. awaits[j] \in 0 .. MaxAwaits
        BY DEF Inv, TypeOK
      <3>3. QED
        BY <3>1, <3>2, BoundAssumption
    <2>2. CASE ~TaskStep
      <3>1. UNCHANGED awaits
        BY <2>2, NextCases DEF Start, StartReturns, StartTimesOut, Stop, JoinReturns, Deliver, vars,
          Submit, Resume, SetLoop, SetReady, TakeBatch, Close, RunStop, jobVars
      <3>2. QED
        BY <3>1
    <2>3. QED
      BY <2>1, <2>2
  <1>4. ASSUME NEW i \in 1 .. Len(order), NEW k \in 1 .. Len(order), i < k,
               NEW a \in Accepted, NEW b \in Accepted, a = order[i], b = order[k],
               home[a] = home[b], awaits'[a] = 0, awaits'[b] = 0
        PROVE  Ahead(a, b)'
    <2>1. a # b /\ awaits[a] = 0 /\ awaits[b] = 0
      BY <1>1, <1>2, <1>3, <1>4
    <2>2. Ahead(a, b)
      BY <1>4, <2>1 DEF FirstAhead
    <2>3. QED
      BY <1>2, <1>4, <2>1, <2>2, TaskKeepsAhead, OthersKeepAhead
  <1>5. CASE UNCHANGED <<order, home>>
    <2> SUFFICES ASSUME NEW i \in 1 .. Len(order), NEW k \in 1 .. Len(order), i < k,
                        NEW a \in Accepted, NEW b \in Accepted, a = order[i], b = order[k],
                        home[a] = home[b], awaits'[a] = 0, awaits'[b] = 0
                 PROVE  Ahead(a, b)'
      BY <1>1, <1>5 DEF FirstAhead
    <2>1. QED
      BY <1>4
  <1>6. ASSUME NEW j \in Job, Submit(j), loop # 0 PROVE FirstAhead'
    <2>1. /\ phase[j] = "unused" /\ UNCHANGED awaits /\ order' = Append(order, j)
          /\ \A i \in Job : home'[i] = IF i = j THEN loop ELSE home[i]
      BY <1>6 DEF Submit, Inv, TypeOK
    <2>2. j \notin Accepted /\ order \in Seq(Job)
      BY <2>1 DEF Accepted, Inv, TypeOK
    <2>3. /\ Len(order') = Len(order) + 1 /\ order'[Len(order) + 1] = j
          /\ \A i \in 1 .. Len(order) : order'[i] = order[i]
      BY <2>1, <2>2
    <2> SUFFICES ASSUME NEW i \in 1 .. Len(order'), NEW k \in 1 .. Len(order'), i < k,
                        NEW a, NEW b, a = order'[i], b = order'[k],
                        home'[a] = home'[b], awaits'[a] = 0, awaits'[b] = 0
                 PROVE  Ahead(a, b)'
      BY DEF FirstAhead
    <2>4. i \in 1 .. Len(order) /\ a = order[i] /\ a \in Accepted /\ a # j
      BY <1>1, <2>2, <2>3
    <2>5. CASE k = Len(order) + 1
      <3>1. b = j /\ home[a] = loop
        BY <1>2, <2>1, <2>3, <2>4, <2>5
      <3>2. QED
        BY <1>6, <2>1, <2>4, <3>1, NewIsBehind
    <2>6. CASE k # Len(order) + 1
      <3>1. k \in 1 .. Len(order) /\ b = order[k] /\ b \in Accepted /\ b # j
        BY <1>1, <2>2, <2>3, <2>6
      <3>2. home[a] = home[b]
        BY <1>2, <2>1, <2>4, <3>1
      <3>3. QED
        BY <1>4, <2>4, <3>1, <3>2
    <2>7. QED
      BY <2>5, <2>6
  <1>7. CASE TaskStep
    <2>1. UNCHANGED <<order, home>>
      BY <1>7, TaskMoves DEF TaskMove
    <2>2. QED
      BY <1>5, <2>1
  <1>8. QED
    BY <1>5, <1>6, <1>7, NextCases DEF Start, StartReturns, StartTimesOut, Stop, JoinReturns,
      Deliver, vars, Submit, Resume, SetLoop, SetReady, TakeBatch, Close, RunStop, jobVars

\* However many jobs are in flight and however the loops are stopped and
\* started again, two reads of one page that do not suspend come back in the
\* order they were asked for: the one that is shown last was asked for last.
THEOREM ThreadLoopAnswersInOrder == Spec => []AnsweredInOrder
  <1>1. Init => FirstAhead
    BY DEF Init, FirstAhead
  <1>2. FirstAhead /\ Inv /\ Inv' /\ [Next]_vars => FirstAhead'
    BY FirstAheadStep
  <1>3. Inv /\ FirstAhead => AnsweredInOrder
    <2> SUFFICES ASSUME Inv, FirstAhead, NEW i \in 1 .. Len(order), NEW k \in 1 .. Len(order),
                        i < k, home[order[i]] = home[order[k]], awaits[order[i]] = 0,
                        awaits[order[k]] = 0, phase[order[k]] = "called"
                 PROVE  phase[order[i]] = "called"
      BY DEF AnsweredInOrder
    <2>1. Ahead(order[i], order[k])
      BY DEF FirstAhead
    <2>2. Stage(order[k]) = 5 /\ Stage(order[i]) \in 0 .. 5
      BY DEF Stage
    <2>3. QED
      BY <2>1, <2>2 DEF Ahead
  <1>4. QED
    BY <1>1, <1>2, <1>3, InvAlways, PTL DEF Spec

\* A callback is called once its job is answered, and not before.
CallsOK == \A j \in Job : calls[j] = IF phase[j] = "called" THEN 1 ELSE 0

\* No interleaving of threads, stops and restarts answers a job twice.
LEMMA CallsStep == ASSUME Inv, CallsOK, [Next]_vars PROVE CallsOK'
  <1>1. CASE Deliver
    <2>1. Head(idle) \in Posted
      BY <1>1, TailLists DEF Deliver, Inv, QueuesOK
    <2>2. Head(idle) \in Job /\ phase[Head(idle)] = "posted"
      BY <2>1 DEF Posted
    <2>3. /\ \A i \in Job : phase'[i] = IF i = Head(idle) THEN "called" ELSE phase[i]
          /\ \A i \in Job : calls'[i] = IF i = Head(idle) THEN calls[i] + 1 ELSE calls[i]
      BY <1>1 DEF Deliver, Inv, TypeOK
    <2>4. QED
      BY <2>2, <2>3 DEF CallsOK
  <1>2. CASE TaskStep
    <2>0. PICK t \in Thread, j \in Job, k \in Kind : TaskMove(t, j, k)
      BY <1>2, TaskMoves
    <2>1. /\ phase[j] = PhaseOf(k) /\ OnlyMoves(j) /\ UNCHANGED calls
          /\ phase'[j] # "called"
      BY <2>0 DEF TaskMove
    <2>2. QED
      BY <2>1 DEF OnlyMoves, PhaseOf, CallsOK
  <1>3. ASSUME NEW j \in Job, Submit(j) \/ Resume(j) PROVE CallsOK'
    <2>1. /\ phase[j] # "called" /\ phase'[j] # "called" /\ UNCHANGED calls
          /\ \A i \in Job : i # j => phase'[i] = phase[i]
      BY <1>3 DEF Submit, Resume, Inv, TypeOK
    <2>2. QED
      BY <2>1 DEF CallsOK
  <1>4. CASE UNCHANGED <<phase, calls>>
    BY <1>4 DEF CallsOK
  <1>5. QED
    BY <1>1, <1>2, <1>3, <1>4, NextCases DEF Start, StartReturns, StartTimesOut, Stop,
      JoinReturns, vars, SetLoop, SetReady, TakeBatch, Close, RunStop, jobVars

\* No interleaving of threads, stops and restarts answers a job twice.
THEOREM ThreadLoopAnswersOnce == Spec => []AtMostOnce
  <1>1. Init => CallsOK
    BY DEF Init, CallsOK
  <1>2. CallsOK => AtMostOnce
    <2> SUFFICES ASSUME CallsOK, NEW j \in Job PROVE calls[j] =< 1
      BY DEF AtMostOnce
    <2>1. calls[j] = 0 \/ calls[j] = 1
      BY DEF CallsOK
    <2>2. QED
      BY <2>1
  <1>3. QED
    BY <1>1, <1>2, CallsStep, InvAlways, PTL DEF Spec

-----------------------------------------------------------------------------
(* Jobs under way: the part of EveryJobAnswered that fairness has no say   *)
(* in.                                                                     *)

\* A batch has no more handles to run than its FIFO holds.
BatchesFit == \A t \in Thread : todo[t] =< Len(readyQ[t])

\* A job that was accepted and not answered is where its next step is taken
\* from, unless its loop was asked to stop: its callback among the idle
\* sources, or it awaits I/O or has a handle on a loop that is not closed,
\* whose thread can go on.
NoJobLost ==
    \A j \in Job :
        /\ phase[j] = "posted" => \E i \in 1 .. Len(idle) : idle[i] = j
        /\ phase[j] \in {"creating", "stepping", "waiting", "settling"} =>
             LET t == home[j] IN
             stopping[t] = "no" =>
                /\ tpc[t] \in {"set", "running"}
                /\ todo[t] =< Len(readyQ[t])
                /\ phase[j] # "waiting" => \E i \in 1 .. Len(readyQ[t]) : readyQ[t][i].job = j

LEMMA FifoLengths ==
  ASSUME TypeOK, NEW t \in Thread
  PROVE  /\ todo[t] \in Nat /\ Len(readyQ[t]) \in Nat
         /\ readyQ[t] # <<>> =>
              /\ Len(Tail(readyQ[t])) = Len(readyQ[t]) - 1
              /\ \A h \in AnyHandle : Len(Append(Tail(readyQ[t]), h)) = Len(readyQ[t])
         /\ \A h \in AnyHandle : Len(Append(readyQ[t], h)) = Len(readyQ[t]) + 1
  <1>1. readyQ[t] \in Seq(AnyHandle) /\ todo[t] \in Nat
    BY FifoType DEF TypeOK
  <1>2. readyQ[t] # <<>> => /\ Tail(readyQ[t]) \in Seq(AnyHandle)
                            /\ Len(Tail(readyQ[t])) = Len(readyQ[t]) - 1
    BY <1>1
  <1>3. \A q \in Seq(AnyHandle), h \in AnyHandle : Len(Append(q, h)) = Len(q) + 1
    OBVIOUS
  <1>4. Len(readyQ[t]) \in Nat
    BY <1>1
  <1>5. QED
    BY <1>1, <1>2, <1>3, <1>4

\* A handle that comes does not shorten a FIFO.
LEMMA EnqueueFits ==
  ASSUME TypeOK, BatchesFit, NEW t \in Thread, NEW h \in AnyHandle, Enqueue(t, h), UNCHANGED todo
  PROVE  BatchesFit'
  <1>1. \A u \in Thread : readyQ'[u] = IF u = t THEN Append(readyQ[u], h) ELSE readyQ[u]
    BY DEF Enqueue, TypeOK
  <1>2. todo[t] =< Len(Append(readyQ[t], h))
    <2>1. /\ todo[t] \in Nat /\ Len(readyQ[t]) \in Nat /\ todo[t] =< Len(readyQ[t])
          /\ Len(Append(readyQ[t], h)) = Len(readyQ[t]) + 1
      BY FifoLengths DEF BatchesFit
    <2>2. QED
      BY <2>1
  <1>3. ASSUME NEW u \in Thread PROVE todo[u] =< Len(readyQ'[u])
    <2>1. CASE u = t
      BY <1>1, <1>2, <2>1
    <2>2. CASE u # t
      BY <1>1, <2>2 DEF BatchesFit
    <2>3. QED
      BY <2>1, <2>2
  <1>4. QED
    BY <1>3 DEF BatchesFit

\* A handle that is run leaves the batch as well as the FIFO.
LEMMA PopFits ==
  ASSUME TypeOK, BatchesFit, NEW t \in Thread, NEW h, Pops(t, h), NEW q,
         q = Tail(readyQ[t]) \/ \E n \in AnyHandle : q = Append(Tail(readyQ[t]), n),
         readyQ' = [readyQ EXCEPT ![t] = q]
  PROVE  BatchesFit'
  <1>1. \A u \in Thread : /\ readyQ'[u] = IF u = t THEN q ELSE readyQ[u]
                          /\ todo'[u] = IF u = t THEN todo[u] - 1 ELSE todo[u]
    BY DEF Pops, TypeOK
  <1>2. Len(q) >= Len(readyQ[t]) - 1 /\ Len(q) \in Nat
    BY FifoLengths, FifoType DEF Pops
  <1>3. todo[t] - 1 =< Len(q)
    BY <1>2, FifoLengths DEF BatchesFit
  <1>4. QED
    BY <1>1, <1>3 DEF BatchesFit

LEMMA BatchStep == ASSUME Inv, BatchesFit, [Next]_vars PROVE BatchesFit'
  <1>t. TypeOK
    BY DEF Inv
  <1>1. CASE Stop
    <2>1. CASE loop = 0
      BY <1>1, <2>1 DEF Stop, BatchesFit
    <2>2. CASE loop # 0
      <3>1. loop \in Thread /\ StopHandle \in AnyHandle
        BY <1>t, <2>2 DEF TypeOK, Thread, AnyHandle
      <3>2. QED
        BY <1>1, <1>t, <2>2, <3>1, EnqueueFits DEF Stop
    <2>3. QED
      BY <2>1, <2>2
  <1>2. ASSUME NEW j \in Job, Submit(j) PROVE BatchesFit'
    <2>1. CASE loop = 0
      BY <1>2, <2>1 DEF Submit, BatchesFit
    <2>2. CASE loop # 0
      <3>1. loop \in Thread /\ Handle(j, "create") \in AnyHandle
        BY <1>t, <2>2, HandleType DEF TypeOK, Thread, Kind
      <3>2. QED
        BY <1>2, <1>t, <2>2, <3>1, EnqueueFits DEF Submit
    <2>3. QED
      BY <2>1, <2>2
  <1>3. ASSUME NEW j \in Job, Resume(j) PROVE BatchesFit'
    <2>1. home[j] \in Thread /\ Handle(j, "step") \in AnyHandle
      BY <1>3, <1>t, HomeType, HandleType DEF Resume, Inv, Kind
    <2>2. QED
      BY <1>3, <1>t, <2>1, EnqueueFits DEF Resume
  <1>4. ASSUME NEW t \in Thread, TakeBatch(t) PROVE BatchesFit'
    <2>1. \A u \in Thread : todo'[u] = IF u = t THEN Len(readyQ[u]) ELSE todo[u]
      BY <1>4, <1>t DEF TakeBatch, TypeOK
    <2>2. QED
      BY <1>4, <1>t, <2>1, FifoLengths DEF TakeBatch, BatchesFit
  <1>5. ASSUME NEW t \in Thread, Close(t) PROVE BatchesFit'
    <2>1. \A u \in Thread : readyQ'[u] = IF u = t THEN <<>> ELSE readyQ[u]
      BY <1>5, <1>t DEF Close, TypeOK
    <2>2. todo' = todo /\ todo[t] = 0 /\ Len(<<>>) = 0
      BY <1>5 DEF Close
    <2>3. QED
      BY <2>1, <2>2 DEF BatchesFit
  <1>6. ASSUME NEW t \in Thread, RunStop(t) PROVE BatchesFit'
    BY <1>6, <1>t, PopFits DEF RunStop
  <1>7. CASE TaskStep
    <2>1. PICK t \in Thread, j \in Job : \/ RunCreate(t, j) \/ RunStepSuspends(t, j)
                                         \/ RunStepEnds(t, j) \/ RunSettle(t, j)
      BY <1>7 DEF TaskStep
    <2>2. PICK q : /\ q = Tail(readyQ[t]) \/ \E n \in AnyHandle : q = Append(Tail(readyQ[t]), n)
                   /\ readyQ' = [readyQ EXCEPT ![t] = q]
      BY <2>1, HandleType DEF RunCreate, RunStepSuspends, RunStepEnds, RunSettle, Kind
    <2>3. PICK h : Pops(t, h)
      BY <2>1 DEF RunCreate, RunStepSuspends, RunStepEnds, RunSettle
    <2>4. QED
      BY <1>t, <2>2, <2>3, PopFits
  <1>8. CASE UNCHANGED <<readyQ, todo>>
    BY <1>8 DEF BatchesFit
  <1>9. QED
    BY <1>1, <1>2, <1>3, <1>4, <1>5, <1>6, <1>7, <1>8, NextCases DEF Start, StartReturns,
      StartTimesOut, JoinReturns, Deliver, SetLoop, SetReady, vars, loopVars

\* submit() and everything behind it: no step of start(), stop() or a loop
\* thread drops a job, or closes the loop under it, before its loop is asked
\* to stop.
THEOREM ThreadLoopLosesNoJob == Spec => []NoJobLost
  <1>1. Init => BatchesFit
    BY DEF Init, BatchesFit
  <1>2. Inv /\ BatchesFit => NoJobLost
    <2> SUFFICES ASSUME Inv, BatchesFit, NEW j \in Job
                 PROVE  /\ phase[j] = "posted" => \E i \in 1 .. Len(idle) : idle[i] = j
                        /\ phase[j] \in {"creating", "stepping", "waiting", "settling"}
                             /\ stopping[home[j]] = "no" =>
                              /\ tpc[home[j]] \in {"set", "running"}
                              /\ todo[home[j]] =< Len(readyQ[home[j]])
                              /\ phase[j] # "waiting" =>
                                   \E i \in 1 .. Len(readyQ[home[j]]) : readyQ[home[j]][i].job = j
      BY DEF NoJobLost
    <2>1. phase[j] = "posted" => \E i \in 1 .. Len(idle) : idle[i] = j
      BY DEF Inv, QueuesOK, Posted, Lists
    <2>2. ASSUME phase[j] \in {"creating", "stepping", "waiting", "settling"},
                 stopping[home[j]] = "no"
          PROVE  /\ home[j] \in Thread
                 /\ tpc[home[j]] \in {"set", "running"}
      <3>1. home[j] \in Thread /\ home[j] # 0
        BY <2>2, HomeType DEF Inv, JobsOK
      <3>2. tpc[home[j]] \notin {"none", "new", "closed"}
        BY <2>2, <3>1 DEF Inv, JobsOK, LoopsOK
      <3>3. tpc[home[j]] \in {"none", "new", "set", "running", "closed"}
        BY <3>1 DEF Inv, TypeOK
      <3>4. QED
        BY <3>1, <3>2, <3>3
    <2>3. ASSUME phase[j] \in {"creating", "stepping", "settling"}, home[j] \in Thread,
                 tpc[home[j]] \in {"set", "running"}
          PROVE  \E i \in 1 .. Len(readyQ[home[j]]) : readyQ[home[j]][i].job = j
      <3>1. PICK k \in Kind : phase[j] = PhaseOf(k)
        BY <2>3 DEF Kind, PhaseOf
      <3>2. Handle(j, k) \in OnLoop(home[j])
        BY <3>1, HandleType DEF OnLoop, HandlesOf
      <3>3. Lists(readyQ[home[j]], OnLoop(home[j]))
        BY <2>3 DEF Inv, QueuesOK, FifoOK
      <3>4. PICK i \in 1 .. Len(readyQ[home[j]]) : readyQ[home[j]][i] = Handle(j, k)
        BY <3>2, <3>3 DEF Lists
      <3>5. QED
        BY <3>4, HandleType
    <2>4. QED
      BY <2>1, <2>2, <2>3 DEF BatchesFit
  <1>3. QED
    BY <1>1, <1>2, BatchStep, InvAlways, PTL DEF Spec
=============================================================================
