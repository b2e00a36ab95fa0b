----------------------------- MODULE BatteryPage -----------------------------
(***************************************************************************)
(* The battery page: BatteryViewModel, the two providers its gather reads  *)
(* (sysfs for wear, UPower for charge and for change signals) and the wear *)
(* history it keeps in SQLite, over hot-swapped batteries, midnight and a  *)
(* program that may be killed at any moment.                               *)
(*                                                                         *)
(* The loop runs beside the main thread, as with ThreadLoopScheduler; the  *)
(* native scheduler allows fewer interleavings.  No coroutine here ever    *)
(* suspends, so gathers run one after the other.                           *)
(***************************************************************************)
EXTENDS Naturals, Sequences, FiniteSets

CONSTANTS
    Battery,        \* batteries under /sys/class/power_supply, in sorted() order
    Wear,           \* wear percentages
    Contents,       \* what sysfs may hold (bound)
    Days,           \* bound: the days of a behaviour
    Limit,          \* wear_history's limit
    MaxJobs,        \* bound: gathers in flight at one time
    MaxSignals      \* bound: UPower signals not yet dispatched

Absent == "absent"      \* no such battery
Unread == "unread"      \* a battery whose capacities cannot be read
NoRow == "no row"
Reading == Wear \cup {Absent, Unread}

ASSUME BatteryAssumption == Battery \subseteq Nat
ASSUME NamesAssumption == Wear \cap {Absent, Unread, NoRow} = {}
ASSUME ContentsAssumption == Contents \subseteq [Battery -> Reading] /\ Contents # {}
ASSUME BoundAssumption ==
    /\ Days \in Nat \ {0} /\ Limit \in Nat \ {0}
    /\ MaxJobs \in Nat \ {0} /\ MaxSignals \in Nat

VARIABLES
    now,            \* sysfs
    day,            \* datetime.date.today()
    rows,           \* the database: wear of each day and battery
    signals,        \* UPower's signals queued on the main context
    subscribed,     \* UPowerDbus.subscribe() succeeded
    queued,         \* gathers submitted and not started
    gather,         \* the gather that runs
    doneQ,          \* results whose callback waits on the main context
    main,           \* where the view's constructor is
    reloadPending,  \* _reload_pending
    timers,         \* _reload timeouts armed
    state,          \* PageViewModel.state
    cards,          \* the wear on the cards
    chart,          \* the points of each card's history
    missed          \* history: a change since the last read was not signalled

machineVars == <<now, day>>
signalVars == <<signals, subscribed>>
jobVars == <<queued, gather, doneQ>>
timerVars == <<reloadPending, timers>>
pageVars == <<state, cards, chart>>
vars == <<now, day, rows, signals, subscribed, queued, gather, doneQ, main,
          reloadPending, timers, state, cards, chart, missed>>

Day == 1 .. Days
NoBattery == [b \in Battery |-> Absent]
NoChart == [b \in Battery |-> {}]

\* A gather: what it read, and the batteries it has not recorded yet.
NoGather == [runs |-> FALSE, read |-> NoBattery, todo |-> {}, chart |-> NoChart]
Good(g) == [ok |-> TRUE, read |-> g.read, chart |-> g.chart]
Bad == [ok |-> FALSE, read |-> NoBattery, chart |-> NoChart]

NewPage ==
    /\ signals = 0 /\ subscribed = FALSE
    /\ queued = 0 /\ gather = NoGather /\ doneQ = <<>>
    /\ main = "new" /\ reloadPending = FALSE /\ timers = 0
    /\ state = "loading" /\ cards = NoBattery /\ chart = NoChart
    /\ missed = FALSE

Init ==
    /\ now \in Contents /\ day = 1
    /\ rows = [d \in Day |-> [b \in Battery |-> NoRow]]
    /\ NewPage

-----------------------------------------------------------------------------
(* The machine (external).                                                 *)

\* A battery is swapped or re-read; UPower tells whoever has subscribed.
Change ==
    /\ now' \in Contents \ {now}
    /\ IF subscribed
         THEN signals < MaxSignals /\ signals' = signals + 1 /\ UNCHANGED missed
         ELSE missed' = TRUE /\ UNCHANGED signals
    /\ UNCHANGED <<day, rows, subscribed, jobVars, main, timerVars, pageVars>>

\* Charge and state change all the time.
Storm ==
    /\ subscribed /\ signals < MaxSignals /\ signals' = signals + 1
    /\ UNCHANGED <<machineVars, rows, subscribed, jobVars, main, timerVars, pageVars, missed>>

Midnight ==
    /\ day < Days /\ day' = day + 1
    /\ UNCHANGED <<now, rows, signalVars, jobVars, main, timerVars, pageVars, missed>>

\* The program is killed and started again; the database stays.
Restart ==
    /\ main # "new"
    /\ signals' = 0 /\ subscribed' = FALSE
    /\ queued' = 0 /\ gather' = NoGather /\ doneQ' = <<>>
    /\ main' = "new" /\ reloadPending' = FALSE /\ timers' = 0
    /\ state' = "loading" /\ cards' = NoBattery /\ chart' = NoChart
    /\ missed' = FALSE
    /\ UNCHANGED <<machineVars, rows>>

-----------------------------------------------------------------------------
(* The history store.                                                      *)

\* Mutant: the row is found by its battery alone.
WithRowEveryDay(d, b, r) ==
    [e \in Day |-> IF rows[e][b] # NoRow \/ e = d THEN [rows[e] EXCEPT ![b] = r] ELSE rows[e]]

\* record_wear: INSERT OR REPLACE of (day, battery_name).
WithRow(d, b, r) == [rows EXCEPT ![d] = [rows[d] EXCEPT ![b] = r]]

\* Mutant: ascending order before the limit.
RecentAscending(days) == {d \in days : Cardinality({e \in days : e < d}) < Limit}

\* ORDER BY day DESC LIMIT.
Recent(days) == {d \in days : Cardinality({e \in days : e > d}) < Limit}

\* wear_history of b in table t, without the rows that have no wear.
History(t, b) ==
    {<<d, t[d][b]>> : d \in {e \in Recent({f \in Day : t[f][b] # NoRow}) : t[e][b] \in Wear}}

-----------------------------------------------------------------------------
(* _gather, on the loop.                                                   *)

Ends(result) == gather' = NoGather /\ doneQ' = Append(doneQ, result)

\* list_batteries; an unreadable directory is an OSError.  read_status comes
\* next: its failure costs the page its charge texts and nothing else.
GatherWear ==
    /\ ~gather.runs /\ queued > 0 /\ queued' = queued - 1
    /\ \/ /\ gather' = [runs |-> TRUE, read |-> now, chart |-> NoChart,
                        todo |-> {b \in Battery : now[b] # Absent}]
          /\ missed' = FALSE
          /\ UNCHANGED doneQ
       \/ Ends(Bad) /\ UNCHANGED missed
    /\ UNCHANGED <<machineVars, rows, signalVars, main, timerVars, pageVars>>

IsNext(b) == b \in gather.todo /\ \A c \in gather.todo : b =< c

\* snapshot_from_wear: the wear that was read, on the day it is recorded.
Snapshot(b) == WithRow(day, b, gather.read[b])

\* One turn of the loop: today's snapshot of b, then its history.
Record(b) ==
    /\ IsNext(b)
    /\ rows' = Snapshot(b)
    /\ gather' = [gather EXCEPT !.todo = @ \ {b},
                                !.chart = [gather.chart EXCEPT ![b] = History(rows', b)]]
    /\ UNCHANGED <<machineVars, signalVars, queued, doneQ, main, timerVars, pageVars, missed>>

\* An sqlite3.Error of record_wear, or of wear_history after it.
RecordFails(b) ==
    /\ IsNext(b)
    /\ rows' \in {rows, Snapshot(b)}
    /\ Ends(Bad)
    /\ UNCHANGED <<machineVars, signalVars, queued, main, timerVars, pageVars, missed>>

GatherEnds ==
    /\ gather.runs /\ gather.todo = {}
    /\ Ends(Good(gather))
    /\ UNCHANGED <<machineVars, rows, signalVars, queued, main, timerVars, pageVars, missed>>

-----------------------------------------------------------------------------
(* View and view-model, on the main thread.                                *)

InFlight == queued + Len(doneQ) + (IF gather.runs THEN 1 ELSE 0)
Submit == InFlight < MaxJobs /\ queued' = queued + 1 /\ UNCHANGED <<gather, doneQ>>

\* BatteryPage.__init__: load() ...
Load ==
    /\ main = "new" /\ main' = "loaded"
    /\ state' = "loading" /\ Submit
    /\ UNCHANGED <<machineVars, rows, signalVars, timerVars, cards, chart, missed>>

\* ... then start_live_updates(), which tolerates a missing bus.
StartLiveUpdates ==
    /\ main = "loaded" /\ main' = "idle"
    /\ subscribed' \in BOOLEAN
    /\ UNCHANGED <<machineVars, rows, signals, jobVars, timerVars, pageVars, missed>>

\* Mutant: a signal is ignored while a gather is under way.
OnStatusChangedUnlessBusy ==
    /\ main = "idle" /\ signals > 0 /\ signals' = signals - 1
    /\ IF reloadPending \/ InFlight > 0
         THEN UNCHANGED timerVars
         ELSE reloadPending' = TRUE /\ timers' = timers + 1
    /\ UNCHANGED <<machineVars, rows, subscribed, jobVars, main, pageVars, missed>>

\* _on_status_changed.
OnStatusChanged ==
    /\ main = "idle" /\ signals > 0 /\ signals' = signals - 1
    /\ IF reloadPending
         THEN UNCHANGED timerVars
         ELSE reloadPending' = TRUE /\ timers' = timers + 1
    /\ UNCHANGED <<machineVars, rows, subscribed, jobVars, main, pageVars, missed>>

\* The debounce timeout fires: _reload.
Reload ==
    /\ main = "idle" /\ timers > 0 /\ timers' = timers - 1
    /\ reloadPending' = FALSE
    /\ Submit
    /\ UNCHANGED <<machineVars, rows, signalVars, main, pageVars, missed>>

Delivers == main = "idle" /\ doneQ # <<>> /\ doneQ' = Tail(doneQ)

\* _apply; without a battery only the page state changes.
Apply ==
    /\ Delivers /\ Head(doneQ).ok
    /\ IF Head(doneQ).read = NoBattery
         THEN state' = "unavailable" /\ UNCHANGED <<cards, chart>>
         ELSE /\ state' = "ready" /\ cards' = Head(doneQ).read
              /\ chart' = Head(doneQ).chart
    /\ UNCHANGED <<machineVars, rows, signalVars, queued, gather, main, timerVars, missed>>

\* handle_error on what is no LapcareError.
HandleError ==
    /\ Delivers /\ ~Head(doneQ).ok
    /\ state' = "error"
    /\ UNCHANGED <<machineVars, rows, signalVars, queued, gather, main, timerVars,
                   cards, chart, missed>>

-----------------------------------------------------------------------------
Machine == Change \/ Storm \/ Midnight \/ Restart
Gathers == GatherWear \/ GatherEnds \/ \E b \in Battery : Record(b) \/ RecordFails(b)
Page == Load \/ StartLiveUpdates \/ OnStatusChanged \/ Reload \/ Apply \/ HandleError
Next == Machine \/ Gathers \/ Page

Spec == Init /\ [][Next]_vars

\* The loop and the main context serve what waits for them; the machine, the
\* user and the clock owe nothing.  A timeout may find the bound MaxJobs met
\* again and again.
FairSpec ==
    /\ Spec
    /\ WF_vars(Gathers) /\ WF_vars(Load) /\ WF_vars(StartLiveUpdates)
    /\ WF_vars(OnStatusChanged) /\ WF_vars(Apply \/ HandleError) /\ SF_vars(Reload)

-----------------------------------------------------------------------------
(* Properties.                                                             *)

Chart == [Battery -> SUBSET (Day \X Wear)]

TypeOK ==
    /\ now \in Contents /\ day \in Day
    /\ rows \in [Day -> [Battery -> Wear \cup {Unread, NoRow}]]
    /\ signals \in 0 .. MaxSignals /\ subscribed \in BOOLEAN
    /\ queued \in 0 .. MaxJobs
    /\ gather \in [runs : BOOLEAN, read : [Battery -> Reading], todo : SUBSET Battery, chart : Chart]
    /\ doneQ \in Seq([ok : BOOLEAN, read : [Battery -> Reading], chart : Chart])
    /\ main \in {"new", "loaded", "idle"}
    /\ reloadPending \in BOOLEAN /\ timers \in Nat
    /\ state \in {"loading", "ready", "unavailable", "error"}
    /\ cards \in [Battery -> Reading] /\ chart \in Chart
    /\ missed \in BOOLEAN

\* The daily snapshot replaces the row of its own day and battery: a day that
\* is over keeps its rows, whatever gathers, kills and midnights follow.
PastDaysKept ==
    [][\A d \in 1 .. day - 1 : rows'[d] = rows[d]]_vars

\* The chart under a card ends in the wear the card shows, however many
\* gathers and days lie behind the result, and its earlier points are what
\* the database holds.
ChartEndsInCard ==
    state = "ready" =>
        \A b \in Battery :
            /\ cards[b] \in Wear =>
                 \E p \in chart[b] : p[2] = cards[b] /\ \A q \in chart[b] : q[1] =< p[1]
            /\ \A p \in chart[b] : p[1] < day /\ (\E q \in chart[b] : q[1] > p[1])
                 => rows[p[1]][b] = p[2]

\* When the batteries stay as they are, the page ends up showing them, or a
\* failed read took it away; storms of signals notwithstanding.
FreshInTheEnd ==
    <>[][now' = now]_now /\ <>[](subscribed /\ ~missed)
        => <>[](state = "ready" => cards = now)

\* A good reading of today is not replaced by one without capacities: "makes
\* the daily snapshot idempotent" (platform/history.py).
DayNotSpoiled ==
    [][\A b \in Battery : rows[day][b] \in Wear => rows'[day][b] # Unread]_vars
=============================================================================
