-------------------------- MODULE BatteryPageProofs --------------------------
(***************************************************************************)
(* Proofs about BatteryPage, for any batteries, contents, number of days   *)
(* and limit of the history, over swapped batteries, midnights, failing    *)
(* writes and restarts.                                                    *)
(***************************************************************************)
EXTENDS BatteryPage, FiniteSetTheorems, SequenceTheorems, TLAPS

Table == [Day -> [Battery -> Wear \cup {Unread, NoRow}]]
Points == SUBSET (Day \X Wear)
Gather == [runs : BOOLEAN, read : [Battery -> Reading], todo : SUBSET Battery, chart : Chart]
Result == [ok : BOOLEAN, read : [Battery -> Reading], chart : Chart]

\* Chart c ends in wear r, if r is one.
EndsIn(c, r) == r \in Wear => \E p \in c : p[2] = r /\ \A q \in c : q[1] <= p[1]

\* No point of chart c of b lies after d, and those before its last one are in
\* table t, as far as they are older than d.
Kept(c, b, t, d) ==
    \A p \in c :
        /\ p[1] <= d
        /\ p[1] < d /\ (\E q \in c : q[1] > p[1]) => t[p[1]][b] = p[2]

\* Nothing is recorded ahead of time.
NothingAhead == \A d \in Day : d > day => \A b \in Battery : rows[d][b] = NoRow

\* What gather g has recorded, and what it has not.
GatherFits(g, t, d) ==
    \A b \in Battery :
        /\ b \in g.todo => g.read[b] # Absent
        /\ b \notin g.todo => EndsIn(g.chart[b], g.read[b])
        /\ Kept(g.chart[b], b, t, d)

\* Charts c belong to readings r.
ChartsFit(c, r, t, d) == \A b \in Battery : EndsIn(c[b], r[b]) /\ Kept(c[b], b, t, d)

GatherOK == GatherFits(gather, rows, day)
DoneOK == \A i \in 1 .. Len(doneQ) :
              doneQ[i].ok => ChartsFit(doneQ[i].chart, doneQ[i].read, rows, day)
PageOK == ChartsFit(chart, cards, rows, day)

Inv == TypeOK /\ NothingAhead /\ GatherOK /\ DoneOK /\ PageOK

-----------------------------------------------------------------------------
(* The table and the charts.                                               *)

LEMMA NotWear == Absent \notin Wear /\ Unread \notin Wear /\ NoRow \notin Wear
  BY NamesAssumption

LEMMA NoChartFits ==
  ASSUME NEW b \in Battery, NEW t, NEW d
  PROVE  EndsIn(NoChart[b], Absent) /\ Kept(NoChart[b], b, t, d) /\ NoBattery[b] = Absent
  BY NotWear DEF NoChart, NoBattery, EndsIn, Kept

LEMMA Empties == NoChart \in Chart /\ NoBattery \in [Battery -> Reading]
  <1>1. {} \in SUBSET (Day \X Wear) /\ Absent \in Reading
    BY DEF Reading
  <1>2. QED
    BY <1>1 DEF NoChart, NoBattery, Chart

LEMMA HistoryTyped == ASSUME NEW t, NEW b PROVE History(t, b) \in Points
  <1> SUFFICES ASSUME NEW p \in History(t, b) PROVE p \in Day \X Wear
    BY DEF Points
  <1>1. PICK d \in Recent({f \in Day : t[f][b] # NoRow}) : p = <<d, t[d][b]>> /\ t[d][b] \in Wear
    BY DEF History
  <1>2. QED
    BY <1>1 DEF Recent

\* A chart stays as good while the days that are over keep their rows.
LEMMA KeptStep ==
  ASSUME NEW c \in Points, NEW b, NEW t, NEW u, NEW d \in Nat, NEW e \in Nat, d <= e,
         \A f \in Day : f < d => u[f] = t[f],
         Kept(c, b, t, d)
  PROVE  Kept(c, b, u, e)
  <1> SUFFICES ASSUME NEW p \in c
               PROVE  /\ p[1] <= e
                      /\ p[1] < e /\ (\E q \in c : q[1] > p[1]) => u[p[1]][b] = p[2]
    BY DEF Kept
  <1>1. p[1] \in Day /\ p[1] \in Nat /\ p[1] <= d
    BY DEF Kept, Points, Day
  <1>2. ASSUME NEW q \in c, q[1] > p[1] PROVE u[p[1]][b] = p[2]
    <2>1. q[1] \in Nat /\ q[1] <= d
      BY DEF Kept, Points, Day
    <2>2. p[1] < d
      BY <1>1, <1>2, <2>1
    <2>3. t[p[1]][b] = p[2] /\ u[p[1]] = t[p[1]]
      BY <1>1, <1>2, <2>2 DEF Kept
    <2>4. QED
      BY <2>3
  <1>3. QED
    BY <1>1, <1>2

LEMMA SnapshotTyped ==
  ASSUME TypeOK, NEW b \in Battery, gather.read[b] # Absent
  PROVE  /\ Snapshot(b) \in Table
         /\ Snapshot(b)[day][b] = gather.read[b]
         /\ \A d \in Day : d # day => Snapshot(b)[d] = rows[d]
  <1>1. gather.read[b] \in Wear \cup {Unread, NoRow}
    BY DEF TypeOK, Reading
  <1>2. rows \in Table /\ day \in Day
    BY DEF TypeOK, Table
  <1>3. [rows[day] EXCEPT ![b] = gather.read[b]] \in [Battery -> Wear \cup {Unread, NoRow}]
    BY <1>1, <1>2 DEF Table
  <1>4. QED
    BY <1>2, <1>3 DEF Snapshot, WithRow, Table

\* The history that is read after today's row was written ends in today's wear:
\* descending order and limit keep the newest rows.
LEMMA HistoryFits ==
  ASSUME NEW t \in Table, NEW b \in Battery, NEW d \in Day,
         \A e \in Day : e > d => t[e][b] = NoRow
  PROVE  EndsIn(History(t, b), t[d][b]) /\ Kept(History(t, b), b, t, d)
  <1> DEFINE Rows == {f \in Day : t[f][b] # NoRow}
  <1>1. \A p \in History(t, b) : p[1] \in Rows /\ p[1] <= d /\ p[2] = t[p[1]][b]
    <2> SUFFICES ASSUME NEW p \in History(t, b)
                 PROVE  p[1] \in Rows /\ p[1] <= d /\ p[2] = t[p[1]][b]
      OBVIOUS
    <2>1. PICK e \in Recent(Rows) : p = <<e, t[e][b]>>
      BY DEF History
    <2>2. e \in Day /\ t[e][b] # NoRow
      BY <2>1 DEF Recent
    <2>3. QED
      BY <2>1, <2>2 DEF Day
  <1>2. ASSUME t[d][b] \in Wear
        PROVE  <<d, t[d][b]>> \in History(t, b)
    <2>1. d \in Rows
      BY <1>2, NotWear
    <2>2. {e \in Rows : e > d} = {}
      OBVIOUS
    <2>3. Cardinality({e \in Rows : e > d}) = 0
      BY <2>2, FS_EmptySet
    <2>4. d \in Recent(Rows)
      BY <2>1, <2>3, BoundAssumption DEF Recent
    <2>5. QED
      BY <1>2, <2>4 DEF History
  <1>3. EndsIn(History(t, b), t[d][b])
    BY <1>1, <1>2 DEF EndsIn
  <1>4. QED
    BY <1>1, <1>3 DEF Kept

-----------------------------------------------------------------------------
(* The types.                                                              *)

LEMMA BadTyped == Bad \in Result
  BY Empties, Zenon DEF Bad, Result

LEMMA NewPageTyped ==
  ASSUME NewPage'
  PROVE  /\ signals' \in 0 .. MaxSignals /\ subscribed' \in BOOLEAN
         /\ queued' \in 0 .. MaxJobs /\ gather' \in Gather /\ doneQ' \in Seq(Result)
         /\ main' \in {"new", "loaded", "idle"}
         /\ reloadPending' \in BOOLEAN /\ timers' \in Nat
         /\ state' \in {"loading", "ready", "unavailable", "error"}
         /\ cards' \in [Battery -> Reading] /\ chart' \in Chart
         /\ missed' \in BOOLEAN
  <1>1. NoGather \in Gather
    BY Empties, Zenon DEF NoGather, Gather
  <1>2. subscribed' \in BOOLEAN /\ reloadPending' \in BOOLEAN /\ missed' \in BOOLEAN
    BY Zenon DEF NewPage
  <1>3. QED
    BY <1>1, <1>2, Empties, BoundAssumption DEF NewPage

LEMMA SubmitTyped == ASSUME TypeOK, Submit PROVE queued' \in 0 .. MaxJobs
  <1>1. Len(doneQ) \in Nat
    BY DEF TypeOK
  <1>2. queued + Len(doneQ) < MaxJobs
    BY <1>1, BoundAssumption DEF Submit, InFlight, TypeOK
  <1>3. QED
    BY <1>1, <1>2, BoundAssumption DEF Submit, TypeOK

LEMMA DeliveredTyped ==
  ASSUME TypeOK, Delivers
  PROVE  doneQ' \in Seq(Result) /\ Head(doneQ) \in Result
  <1>1. doneQ \in Seq(Result)
    BY DEF TypeOK, Result
  <1>2. QED
    BY <1>1 DEF Delivers

\* The machine, and the main thread.
LEMMA TypeOfOthers == ASSUME TypeOK, Machine \/ Page PROVE TypeOK'
  <1>1. CASE Change
    <2>1. now' \in Contents /\ signals' \in 0 .. MaxSignals
      BY <1>1, BoundAssumption DEF Change, TypeOK
    <2>2. missed' \in BOOLEAN
      BY <1>1, Zenon DEF Change, TypeOK
    <2>3. QED
      BY <1>1, <2>1, <2>2 DEF Change, jobVars, timerVars, pageVars, TypeOK
  <1>2. CASE Storm
    <2>1. signals' \in 0 .. MaxSignals
      BY <1>2, BoundAssumption DEF Storm, TypeOK
    <2>2. QED
      BY <1>2, <2>1 DEF Storm, machineVars, jobVars, timerVars, pageVars, TypeOK
  <1>3. CASE Midnight
    <2>1. day' \in Day
      BY <1>3, BoundAssumption DEF Midnight, TypeOK, Day
    <2>2. QED
      BY <1>3, <2>1 DEF Midnight, signalVars, jobVars, timerVars, pageVars, TypeOK
  <1>4. CASE Restart
    <2>1. NewPage'
      BY <1>4 DEF Restart, NewPage
    <2>2. QED
      BY <1>4, <2>1, NewPageTyped DEF Restart, machineVars, TypeOK, Gather, Result
  <1>5. CASE Load
    <2>1. queued' \in 0 .. MaxJobs
      BY <1>5, SubmitTyped DEF Load
    <2>2. QED
      BY <1>5, <2>1 DEF Load, Submit, machineVars, signalVars, timerVars, TypeOK
  <1>6. CASE StartLiveUpdates
    BY <1>6 DEF StartLiveUpdates, machineVars, jobVars, timerVars, pageVars, TypeOK
  <1>7. CASE OnStatusChanged
    <2>1. signals' \in 0 .. MaxSignals /\ timers' \in Nat
      BY <1>7, BoundAssumption DEF OnStatusChanged, timerVars, TypeOK
    <2>2. reloadPending' \in BOOLEAN
      BY <1>7, Zenon DEF OnStatusChanged, timerVars, TypeOK
    <2>3. QED
      BY <1>7, <2>1, <2>2 DEF OnStatusChanged, machineVars, jobVars, pageVars, TypeOK
  <1>8. CASE Reload
    <2>1. queued' \in 0 .. MaxJobs /\ timers' \in Nat
      BY <1>8, SubmitTyped DEF Reload, TypeOK
    <2>2. reloadPending' \in BOOLEAN
      BY <1>8, Zenon DEF Reload
    <2>3. QED
      BY <1>8, <2>1, <2>2 DEF Reload, Submit, machineVars, signalVars, pageVars, TypeOK
  <1>9. CASE Apply
    <2>1. doneQ' \in Seq(Result) /\ Head(doneQ) \in Result
      BY <1>9, DeliveredTyped DEF Apply
    <2>2. cards' \in [Battery -> Reading] /\ chart' \in Chart
      BY <1>9, <2>1 DEF Apply, TypeOK, Result
    <2>3. QED
      BY <1>9, <2>1, <2>2 DEF Apply, machineVars, signalVars, timerVars, TypeOK, Result
  <1>10. CASE HandleError
    <2>1. doneQ' \in Seq(Result)
      BY <1>10, DeliveredTyped DEF HandleError
    <2>2. QED
      BY <1>10, <2>1 DEF HandleError, machineVars, signalVars, timerVars, TypeOK, Result
  <1>11. QED
    BY <1>1, <1>2, <1>3, <1>4, <1>5, <1>6, <1>7, <1>8, <1>9, <1>10 DEF Machine, Page

LEMMA EndsTyped ==
  ASSUME TypeOK, NEW result \in Result, Ends(result)
  PROVE  doneQ' \in Seq(Result) /\ gather' \in Gather
  <1>1. NoGather \in Gather
    BY Empties, Zenon DEF NoGather, Gather
  <1>2. QED
    BY <1>1 DEF Ends, TypeOK, Result

LEMMA TypeOfGathers ==
  ASSUME TypeOK, Gathers, \A b \in gather.todo : gather.read[b] # Absent
  PROVE  TypeOK'
  <1> USE DEF Gather, Result, Table
  <1>1. CASE GatherWear
    <2>1. queued' \in 0 .. MaxJobs
      BY <1>1, BoundAssumption DEF GatherWear, TypeOK
    <2>2. missed' \in BOOLEAN
      BY <1>1, Zenon DEF GatherWear, TypeOK
    <2>3. doneQ' \in Seq(Result) /\ gather' \in Gather
      <3>1. CASE Ends(Bad)
        BY <3>1, BadTyped, EndsTyped
      <3>2. CASE UNCHANGED doneQ /\ gather' = [runs |-> TRUE, read |-> now, chart |-> NoChart,
                                               todo |-> {b \in Battery : now[b] # Absent}]
        <4>1. now \in [Battery -> Reading]
          BY ContentsAssumption DEF TypeOK
        <4>2. QED
          BY <3>2, <4>1, Empties DEF TypeOK
      <3>3. QED
        BY <1>1, <3>1, <3>2 DEF GatherWear
    <2>4. QED
      BY <1>1, <2>1, <2>2, <2>3
      DEF GatherWear, machineVars, timerVars, pageVars, signalVars, TypeOK
  <1>2. ASSUME NEW b \in Battery, Record(b) PROVE TypeOK'
    <2>1. b \in gather.todo
      BY <1>2 DEF Record, IsNext
    <2>2. rows' \in Table
      BY <1>2, <2>1, SnapshotTyped DEF Record
    <2>3. gather' \in Gather
      <3>1. History(rows', b) \in SUBSET (Day \X Wear)
        BY HistoryTyped DEF Points
      <3>2. [gather.chart EXCEPT ![b] = History(rows', b)] \in Chart
        BY <3>1 DEF TypeOK, Chart
      <3>3. QED
        BY <1>2, <3>2 DEF Record, TypeOK
    <2>4. QED
      BY <1>2, <2>2, <2>3 DEF Record, machineVars, signalVars, timerVars, pageVars, TypeOK
  <1>3. ASSUME NEW b \in Battery, RecordFails(b) PROVE TypeOK'
    <2>1. b \in gather.todo
      BY <1>3 DEF RecordFails, IsNext
    <2>2. rows' \in Table
      BY <1>3, <2>1, SnapshotTyped DEF RecordFails, TypeOK
    <2>3. doneQ' \in Seq(Result) /\ gather' \in Gather
      BY <1>3, BadTyped, EndsTyped DEF RecordFails
    <2>4. QED
      BY <1>3, <2>2, <2>3 DEF RecordFails, machineVars, signalVars, timerVars, pageVars, TypeOK
  <1>4. CASE GatherEnds
    <2>1. Good(gather) \in Result
      BY Zenon DEF Good, TypeOK
    <2>2. doneQ' \in Seq(Result) /\ gather' \in Gather
      BY <1>4, <2>1, EndsTyped DEF GatherEnds
    <2>3. QED
      BY <1>4, <2>2 DEF GatherEnds, machineVars, signalVars, timerVars, pageVars, TypeOK
  <1>5. QED
    BY <1>1, <1>2, <1>3, <1>4 DEF Gathers

-----------------------------------------------------------------------------
(* What a step does to the table, to the gather, to the results that wait   *)
(* and to the page.                                                        *)

LEMMA RowsStep ==
  ASSUME [Next]_vars
  PROVE  \/ rows' = rows /\ day' \in {day, day + 1}
         \/ day' = day /\ \E b \in Battery : b \in gather.todo /\ rows' = Snapshot(b)
  BY DEF Next, Machine, Gathers, Page, Change, Storm, Midnight, Restart, GatherWear, Record,
         RecordFails, GatherEnds, IsNext, Load, StartLiveUpdates, OnStatusChanged, Reload, Apply,
         HandleError, machineVars, vars

LEMMA GatherStep ==
  ASSUME [Next]_vars
  PROVE  \/ gather' = gather
         \/ gather' = NoGather
         \/ gather' = [runs |-> TRUE, read |-> now, chart |-> NoChart,
                       todo |-> {b \in Battery : now[b] # Absent}]
         \/ \E b \in Battery : Record(b)
  BY DEF Next, Machine, Gathers, Page, Change, Storm, Midnight, Restart, GatherWear, Ends,
         RecordFails, GatherEnds, Submit, Load, StartLiveUpdates, OnStatusChanged, Reload, Apply,
         HandleError, jobVars, vars

LEMMA DoneStep ==
  ASSUME [Next]_vars
  PROVE  \/ doneQ' = doneQ
         \/ doneQ' = <<>>
         \/ doneQ # <<>> /\ doneQ' = Tail(doneQ)
         \/ doneQ' = Append(doneQ, Bad)
         \/ gather.todo = {} /\ doneQ' = Append(doneQ, Good(gather))
  BY DEF Next, Machine, Gathers, Page, Change, Storm, Midnight, Restart, GatherWear, Ends, Record,
         RecordFails, GatherEnds, Submit, Load, StartLiveUpdates, OnStatusChanged, Reload, Apply,
         HandleError, Delivers, jobVars, vars

LEMMA PageStep ==
  ASSUME [Next]_vars
  PROVE  \/ UNCHANGED <<cards, chart>>
         \/ cards' = NoBattery /\ chart' = NoChart
         \/ /\ doneQ # <<>> /\ Head(doneQ).ok
            /\ cards' = Head(doneQ).read /\ chart' = Head(doneQ).chart
  BY DEF Next, Machine, Gathers, Page, Change, Storm, Midnight, Restart, GatherWear, Record,
         RecordFails, GatherEnds, Load, StartLiveUpdates, OnStatusChanged, Reload, Apply,
         HandleError, Delivers, pageVars, vars

-----------------------------------------------------------------------------
(* The invariant holds initially and is preserved.                         *)

LEMMA InitInv == Init => Inv
  <1> SUFFICES ASSUME Init PROVE Inv
    OBVIOUS
  <1>1. day \in Day /\ now \in Contents /\ rows \in Table
    BY BoundAssumption DEF Init, Day, Table
  <1>2. /\ gather = NoGather /\ doneQ = <<>> /\ cards = NoBattery /\ chart = NoChart
        /\ main = "new" /\ state = "loading"
        /\ signals = 0 /\ queued = 0 /\ timers = 0
    BY DEF Init, NewPage
  <1>3. subscribed \in BOOLEAN /\ reloadPending \in BOOLEAN /\ missed \in BOOLEAN
    BY Zenon DEF Init, NewPage
  <1>4. NoGather \in Gather
    BY Empties, Zenon DEF NoGather, Gather
  <1>5. TypeOK
    BY <1>1, <1>2, <1>3, <1>4, Empties, BoundAssumption DEF TypeOK, Table, Gather
  <1>6. NothingAhead
    BY DEF Init, NothingAhead
  <1>7. GatherOK /\ PageOK
    BY <1>2, NoChartFits DEF GatherOK, GatherFits, PageOK, ChartsFit, NoGather
  <1>8. DoneOK
    BY <1>2 DEF DoneOK
  <1>9. QED
    BY <1>5, <1>6, <1>7, <1>8 DEF Inv

\* Days that are over keep their rows.
LEMMA PastStep ==
  ASSUME Inv, [Next]_vars
  PROVE  /\ day \in Nat /\ day' \in Nat /\ day <= day'
         /\ \A d \in Day : d < day => rows'[d] = rows[d]
         /\ \A d \in Day : d > day' => \A b \in Battery : rows'[d][b] = NoRow
  <1>1. day \in Day /\ day \in Nat /\ Day \subseteq Nat
    BY DEF Inv, TypeOK, Day
  <1>2. CASE rows' = rows /\ day' \in {day, day + 1}
    BY <1>1, <1>2 DEF Inv, NothingAhead
  <1>3. ASSUME NEW b \in Battery, day' = day, b \in gather.todo, rows' = Snapshot(b)
        PROVE  \A d \in Day : d # day => rows'[d] = rows[d]
    BY <1>3, SnapshotTyped DEF Inv, GatherOK, GatherFits
  <1>4. CASE day' = day /\ \E b \in Battery : b \in gather.todo /\ rows' = Snapshot(b)
    BY <1>1, <1>3, <1>4 DEF Inv, NothingAhead
  <1>5. QED
    BY <1>2, <1>4, RowsStep

LEMMA FitStep ==
  ASSUME Inv, [Next]_vars, NEW c \in Chart, NEW r, ChartsFit(c, r, rows, day)
  PROVE  ChartsFit(c, r, rows', day')
  <1>1. \A b \in Battery : c[b] \in Points
    BY DEF Chart, Points
  <1>2. QED
    BY <1>1, PastStep, KeptStep DEF ChartsFit

LEMMA InvStep == Inv /\ [Next]_vars => Inv'
  <1> SUFFICES ASSUME Inv, [Next]_vars PROVE Inv'
    OBVIOUS
  <1>1. TypeOK'
    <2>1. CASE UNCHANGED vars
      BY <2>1 DEF vars, Inv, TypeOK
    <2>2. \A b \in gather.todo : gather.read[b] # Absent
      BY DEF Inv, TypeOK, GatherOK, GatherFits
    <2>3. QED
      BY <2>1, <2>2, TypeOfOthers, TypeOfGathers DEF Inv, Next
  <1>2. NothingAhead'
    BY PastStep DEF NothingAhead
  <1>3. GatherFits(gather', rows', day')
    <2>1. CASE gather' = gather
      <3>1. \A b \in Battery : gather.chart[b] \in Points
        BY DEF Inv, TypeOK, Chart, Points
      <3>2. QED
        BY <2>1, <3>1, PastStep, KeptStep DEF Inv, GatherOK, GatherFits
    <2>2. CASE gather' = NoGather
      BY <2>2, NoChartFits DEF GatherFits, NoGather
    <2>3. CASE gather' = [runs |-> TRUE, read |-> now, chart |-> NoChart,
                          todo |-> {b \in Battery : now[b] # Absent}]
      BY <2>3, NoChartFits DEF GatherFits
    <2>4. ASSUME NEW b \in Battery, Record(b) PROVE GatherFits(gather', rows', day')
      <3>1. b \in gather.todo /\ gather.read[b] # Absent
        BY <2>4 DEF Record, IsNext, Inv, GatherOK, GatherFits
      <3>2. rows' = Snapshot(b) /\ day' = day
        BY <2>4 DEF Record, machineVars
      <3>3. rows' \in Table /\ rows'[day][b] = gather.read[b] /\ day \in Day
        BY <3>1, <3>2, SnapshotTyped DEF Inv, TypeOK
      <3>4. \A e \in Day : e > day => rows'[e][b] = NoRow
        BY <3>2, PastStep
      <3>5. EndsIn(History(rows', b), gather.read[b]) /\ Kept(History(rows', b), b, rows', day)
        BY <3>3, <3>4, HistoryFits
      <3>6. /\ gather'.todo = gather.todo \ {b} /\ gather'.read = gather.read
            /\ gather'.chart = [gather.chart EXCEPT ![b] = History(rows', b)]
        BY <2>4 DEF Record, Inv, TypeOK
      <3>7. gather.chart \in Chart
        BY DEF Inv, TypeOK
      <3>8. /\ gather'.chart[b] = History(rows', b)
            /\ \A a \in Battery \ {b} : gather'.chart[a] = gather.chart[a]
        BY <3>6, <3>7 DEF Chart
      <3>9. \A a \in Battery : Kept(gather.chart[a], a, rows', day)
        <4>1. \A a \in Battery : gather.chart[a] \in Points
          BY <3>7 DEF Chart, Points
        <4>2. QED
          BY <3>2, <4>1, PastStep, KeptStep DEF Inv, GatherOK, GatherFits
      <3>10. QED
        BY <3>2, <3>5, <3>6, <3>8, <3>9 DEF Inv, GatherOK, GatherFits
    <2>5. QED
      BY <2>1, <2>2, <2>3, <2>4, GatherStep
  <1>4. DoneOK'
    <2> DEFINE Fits(r) == r.ok => ChartsFit(r.chart, r.read, rows', day')
    <2>1. doneQ \in Seq(Result) /\ \A i \in 1 .. Len(doneQ) : Fits(doneQ[i])
      <3>1. doneQ \in Seq(Result) /\ \A i \in 1 .. Len(doneQ) : doneQ[i].chart \in Chart
        <4>1. doneQ \in Seq(Result)
          BY DEF Inv, TypeOK, Result
        <4>2. \A i \in 1 .. Len(doneQ) : doneQ[i] \in Result
          BY <4>1
        <4>3. QED
          BY <4>1, <4>2 DEF Result
      <3>2. QED
        BY <3>1, FitStep DEF Inv, DoneOK
    <2>2. Fits(Bad)
      BY DEF Bad
    <2>3. gather.todo = {} => Fits(Good(gather))
      <3>1. gather.todo = {} => ChartsFit(gather.chart, gather.read, rows, day)
        BY DEF Inv, GatherOK, GatherFits, ChartsFit
      <3>2. gather.chart \in Chart
        BY DEF Inv, TypeOK
      <3>3. gather.todo = {} => ChartsFit(gather.chart, gather.read, rows', day')
        BY <3>1, <3>2, FitStep
      <3>4. Good(gather).chart = gather.chart /\ Good(gather).read = gather.read
        BY DEF Good
      <3>5. QED
        BY <3>3, <3>4, Zenon
    <2>4. \A i \in 1 .. Len(doneQ') : Fits(doneQ'[i])
      <3> HIDE DEF Fits
      <3>1. ASSUME NEW x, doneQ' = Append(doneQ, x), Fits(x)
            PROVE  \A i \in 1 .. Len(doneQ') : Fits(doneQ'[i])
        BY <2>1, <3>1
      <3>2. CASE doneQ # <<>> /\ doneQ' = Tail(doneQ)
        BY <2>1, <3>2
      <3>3. CASE doneQ' = doneQ \/ doneQ' = <<>>
        BY <2>1, <3>3
      <3>4. QED
        BY <2>2, <2>3, <3>1, <3>2, <3>3, DoneStep
    <2>5. QED
      BY <2>4 DEF DoneOK
  <1>5. ChartsFit(chart', cards', rows', day')
    <2>1. CASE UNCHANGED <<cards, chart>>
      BY <2>1, FitStep DEF Inv, PageOK, TypeOK
    <2>2. CASE cards' = NoBattery /\ chart' = NoChart
      BY <2>2, NoChartFits DEF ChartsFit
    <2>3. CASE /\ doneQ # <<>> /\ Head(doneQ).ok
               /\ cards' = Head(doneQ).read /\ chart' = Head(doneQ).chart
      <3>1. doneQ \in Seq(Result)
        BY DEF Inv, TypeOK, Result
      <3>2. Head(doneQ) \in Result /\ Head(doneQ) = doneQ[1] /\ 1 \in 1 .. Len(doneQ)
        BY <2>3, <3>1
      <3>3. ChartsFit(Head(doneQ).chart, Head(doneQ).read, rows, day)
        BY <2>3, <3>2 DEF Inv, DoneOK
      <3>4. QED
        BY <2>3, <3>2, <3>3, FitStep DEF Result
    <2>4. QED
      BY <2>1, <2>2, <2>3, PageStep
  <1>6. QED
    BY <1>1, <1>2, <1>3, <1>4, <1>5 DEF Inv, GatherOK, PageOK

-----------------------------------------------------------------------------
\* The inductive invariant of the battery page: the types, no row of a day to
\* come, and charts that end in their readings in the gather, in the results
\* that wait and on the page.
THEOREM BatteryInvHolds == Spec => []Inv
  BY InitInv, InvStep, PTL DEF Spec

\* wear_history and _gather: the chart under a card ends in the wear the card
\* shows, and its earlier points are what the database holds.
THEOREM ChartsEndInCards == Spec => []ChartEndsInCard
  <1>1. Inv => ChartEndsInCard
    BY DEF Inv, PageOK, ChartsFit, EndsIn, Kept, ChartEndsInCard
  <1>2. QED
    BY <1>1, BatteryInvHolds, PTL

\* record_wear's INSERT OR REPLACE touches today's rows alone, however gathers,
\* kills and midnights fall.
THEOREM PastIsKept == Spec => PastDaysKept
  <1>1. ASSUME Inv, [Next]_vars PROVE [\A d \in 1 .. day - 1 : rows'[d] = rows[d]]_vars
    <2> SUFFICES ASSUME NEW d \in 1 .. day - 1 PROVE rows'[d] = rows[d]
      OBVIOUS
    <2>1. d \in Day /\ d < day
      BY <1>1, BoundAssumption DEF Inv, TypeOK, Day
    <2>2. QED
      BY <1>1, <2>1, PastStep
  <1>2. QED
    BY <1>1, BatteryInvHolds, PTL DEF Spec, PastDaysKept
-----------------------------------------------------------------------------
(* Live updates: the part of FreshInTheEnd that fairness has no say in.     *)

\* Nothing is under way.
Quiet ==
    /\ main = "idle" /\ signals = 0 /\ ~reloadPending
    /\ queued = 0 /\ ~gather.runs /\ doneQ = <<>>

\* A page with nothing under way shows the batteries as they are, unless a
\* change came before it listened.
FreshWhenQuiet == Quiet /\ state = "ready" /\ ~missed => cards = now

\* _reload_pending counts the armed debounce timeouts.
OneTimer == timers = IF reloadPending THEN 1 ELSE 0

\* A read of sysfs is to come: a signal waits, a timeout is armed or a gather
\* is queued.
Promised == signals > 0 \/ timers > 0 \/ queued > 0

\* The last read, wherever it has got to, is of the batteries as they are, or
\* ended in an error that the page will show.
Current ==
    /\ gather.runs => gather.read = now
    /\ ~gather.runs /\ doneQ # <<>> =>
         LET last == doneQ[Len(doneQ)] IN last.ok => last.read = now
    /\ ~gather.runs /\ doneQ = <<>> /\ state = "ready" => cards = now

UpToDate == missed \/ Promised \/ Current

LEMMA TimerStep == ASSUME Inv, OneTimer, [Next]_vars PROVE OneTimer'
  <1>1. timers \in Nat
    BY DEF Inv, TypeOK
  <1>2. \/ UNCHANGED timerVars
        \/ timers' = 0 /\ reloadPending' = FALSE
        \/ ~reloadPending /\ reloadPending' = TRUE /\ timers' = timers + 1
        \/ timers > 0 /\ timers' = timers - 1 /\ reloadPending' = FALSE
    BY DEF Next, Machine, Gathers, Page, Change, Storm, Midnight, Restart, GatherWear, Record,
           RecordFails, GatherEnds, Load, StartLiveUpdates, OnStatusChanged, Reload, Apply,
           HandleError, vars, timerVars
  <1>3. QED
    BY <1>1, <1>2 DEF OneTimer, timerVars

\* A gather that ends leaves its result behind those that wait.
LEMMA EndsLast ==
  ASSUME Inv, NEW r \in Result, Ends(r)
  PROVE  ~gather'.runs /\ doneQ' # <<>> /\ doneQ'[Len(doneQ')] = r
  <1>1. doneQ \in Seq(Result)
    BY DEF Inv, TypeOK, Result
  <1>2. doneQ' # <<>> /\ doneQ'[Len(doneQ')] = r
    BY <1>1 DEF Ends
  <1>3. QED
    BY <1>2 DEF Ends, NoGather

\* The result that is applied was the last one, or another one still is.
LEMMA DeliversLast ==
  ASSUME Inv, Delivers
  PROVE  IF doneQ' = <<>> THEN Head(doneQ) = doneQ[Len(doneQ)]
                          ELSE doneQ'[Len(doneQ')] = doneQ[Len(doneQ)]
  <1>1. doneQ \in Seq(Result) /\ doneQ # <<>> /\ doneQ' = Tail(doneQ)
    BY DEF Inv, TypeOK, Result, Delivers
  <1>2. Len(doneQ) \in Nat /\ Len(doneQ) # 0
    BY <1>1
  <1>3. /\ Head(doneQ) = doneQ[1]
        /\ Len(Tail(doneQ)) = Len(doneQ) - 1
        /\ \A i \in 1 .. Len(doneQ) - 1 : Tail(doneQ)[i] = doneQ[i + 1]
    BY <1>1
  <1>4. Tail(doneQ) \in Seq(Result)
    BY <1>1
  <1>5. CASE Tail(doneQ) = <<>>
    <2>1. Len(Tail(doneQ)) = 0
      BY <1>5, EmptySeq
    <2>2. Len(doneQ) = 1
      BY <1>2, <1>3, <2>1
    <2>3. QED
      BY <1>1, <1>3, <1>5, <2>2
  <1>6. CASE Tail(doneQ) # <<>>
    <2>1. Len(doneQ) - 1 \in 1 .. (Len(doneQ) - 1)
      <3>1. \A n \in Nat : n # 0 /\ n # 1 => n - 1 \in 1 .. (n - 1)
        OBVIOUS
      <3>2. Len(Tail(doneQ)) \in Nat \ {0}
        BY <1>4, <1>6, EmptySeq
      <3>3. QED
        BY <1>2, <1>3, <3>1, <3>2
    <2>2. Tail(doneQ)[Len(doneQ) - 1] = doneQ[(Len(doneQ) - 1) + 1]
      BY <1>3, <2>1
    <2>3. (Len(doneQ) - 1) + 1 = Len(doneQ)
      BY <1>2
    <2>4. QED
      BY <1>1, <1>3, <1>6, <2>2, <2>3
  <1>7. QED
    BY <1>5, <1>6

LEMMA UpToDateOfOthers ==
  ASSUME Inv, OneTimer, UpToDate, Machine \/ Page PROVE UpToDate'
  <1>t. /\ signals \in Nat /\ timers \in Nat /\ queued \in Nat
        /\ doneQ \in Seq(Result) /\ reloadPending \in BOOLEAN
    BY BoundAssumption DEF Inv, TypeOK, Result
  <1>1. CASE Change
    BY <1>1, <1>t DEF Change, UpToDate, Promised
  <1>2. CASE Storm
    BY <1>2, <1>t DEF Storm, UpToDate, Promised
  <1>3. CASE Midnight
    BY <1>3 DEF Midnight, signalVars, jobVars, timerVars, pageVars, UpToDate, Promised, Current
  <1>4. CASE Restart
    BY <1>4 DEF Restart, UpToDate, Current, NoGather
  <1>5. CASE Load
    BY <1>5, <1>t DEF Load, Submit, UpToDate, Promised
  <1>6. CASE StartLiveUpdates
    BY <1>6 DEF StartLiveUpdates, machineVars, jobVars, timerVars, pageVars,
                UpToDate, Promised, Current
  <1>7. CASE OnStatusChanged
    BY <1>7, <1>t DEF OnStatusChanged, timerVars, OneTimer, UpToDate, Promised
  <1>8. CASE Reload
    BY <1>8, <1>t DEF Reload, Submit, UpToDate, Promised
  <1>9. CASE Apply
    <2>1. UNCHANGED <<now, signals, timers, queued, gather, missed>>
      BY <1>9 DEF Apply, machineVars, signalVars, timerVars
    <2>2. Delivers /\ Head(doneQ).ok /\ doneQ # <<>>
      BY <1>9 DEF Apply, Delivers
    <2>3. state' = "ready" => cards' = Head(doneQ).read
      BY <1>9 DEF Apply
    <2>4. Current => Current'
      BY <2>1, <2>2, <2>3, DeliversLast DEF Current
    <2>5. QED
      BY <2>1, <2>4 DEF UpToDate, Promised
  <1>10. CASE HandleError
    <2>1. UNCHANGED <<now, signals, timers, queued, gather, missed>> /\ state' = "error"
      BY <1>10 DEF HandleError, machineVars, signalVars, timerVars
    <2>2. Delivers /\ doneQ # <<>>
      BY <1>10 DEF HandleError, Delivers
    <2>3. Current => Current'
      BY <2>1, <2>2, DeliversLast DEF Current
    <2>4. QED
      BY <2>1, <2>3 DEF UpToDate, Promised
  <1>11. QED
    BY <1>1, <1>2, <1>3, <1>4, <1>5, <1>6, <1>7, <1>8, <1>9, <1>10 DEF Machine, Page

LEMMA UpToDateOfGathers == ASSUME Inv, UpToDate, Gathers PROVE UpToDate'
  <1>1. CASE GatherWear
    <2>1. CASE Ends(Bad)
      BY <2>1, BadTyped, EndsLast DEF UpToDate, Current, Bad
    <2>2. CASE gather' = [runs |-> TRUE, read |-> now, chart |-> NoChart,
                          todo |-> {b \in Battery : now[b] # Absent}]
      BY <1>1, <2>2 DEF GatherWear, machineVars, UpToDate, Current
    <2>3. QED
      BY <1>1, <2>1, <2>2 DEF GatherWear
  <1>2. ASSUME NEW b \in Battery, Record(b) PROVE UpToDate'
    <2>1. gather'.runs = gather.runs /\ gather'.read = gather.read
      BY <1>2 DEF Record, Inv, TypeOK
    <2>2. UNCHANGED <<now, signals, timers, queued, doneQ, state, cards, missed>>
      BY <1>2 DEF Record, machineVars, signalVars, timerVars, pageVars
    <2>3. QED
      BY <2>1, <2>2 DEF UpToDate, Promised, Current
  <1>3. ASSUME NEW b \in Battery, RecordFails(b) PROVE UpToDate'
    BY <1>3, BadTyped, EndsLast DEF RecordFails, UpToDate, Current, Bad
  <1>4. CASE GatherEnds
    <2>1. Good(gather) \in Result
      BY Zenon DEF Good, Inv, TypeOK, Result
    <2>2. /\ ~gather'.runs /\ doneQ' # <<>>
          /\ doneQ'[Len(doneQ')].read = gather.read
      BY <1>4, <2>1, EndsLast DEF GatherEnds, Good
    <2>3. gather.runs /\ UNCHANGED <<now, signals, timers, queued, missed>>
      BY <1>4 DEF GatherEnds, machineVars, signalVars, timerVars
    <2>4. QED
      BY <2>2, <2>3 DEF UpToDate, Promised, Current
  <1>5. QED
    BY <1>1, <1>2, <1>3, <1>4 DEF Gathers

\* _on_status_changed and _reload: every change that is signalled ends in a
\* read that comes after it, through storms, swaps, failures and restarts, so
\* a ready page with nothing under way shows the batteries as they are.
THEOREM QuietPageIsFresh == Spec => []FreshWhenQuiet
  <1>1. Init => OneTimer /\ UpToDate
    BY DEF Init, NewPage, OneTimer, UpToDate, Current, NoGather
  <1>2. Inv /\ OneTimer /\ UpToDate /\ [Next]_vars => (OneTimer /\ UpToDate)'
    <2> SUFFICES ASSUME Inv, OneTimer, UpToDate, [Next]_vars PROVE UpToDate'
      BY TimerStep
    <2>1. CASE UNCHANGED vars
      BY <2>1 DEF vars, UpToDate, Promised, Current
    <2>2. QED
      BY <2>1, UpToDateOfOthers, UpToDateOfGathers DEF Next
  <1>3. Inv /\ OneTimer /\ UpToDate => FreshWhenQuiet
    BY DEF FreshWhenQuiet, Quiet, OneTimer, UpToDate, Promised, Current
  <1>4. QED
    BY <1>1, <1>2, <1>3, BatteryInvHolds, PTL DEF Spec
=============================================================================
