---------------------------- MODULE DiagnosticsRun ----------------------------
(***************************************************************************)
(* core/diagnostics.py, run(): one coroutine that asks the five sources in *)
(* turn and then runs the checks.  Its callers are the diagnostics page,   *)
(* which asks for storage health, and the dashboard, which must not.       *)
(*                                                                         *)
(* A drive is read as SmartRead promises.  A provider that was not given   *)
(* to run() leaves its input None, like one that fails.                    *)
(***************************************************************************)
EXTENDS DiagnosticChecks, SmartAnswers

\* The machines a run may meet (bound): on each, the lists a source may
\* answer, how many disks at most are listed and what one says of itself.
CONSTANT Machines

Optional == Nat \cup {Unknown}
Machine ==
    [batteries : SUBSET Seq([full : Optional, design : Optional]),
     drives : Nat,
     health : SUBSET [verdict : Verdict, pending : Optional, used : Optional],
     firmware : SUBSET Seq([updatable : BOOLEAN, releases : Seq(STRING)]),
     temps : SUBSET Seq(Int),
     mounts : SUBSET Seq([source : STRING, mount : STRING, free : Optional, total : Nat])]

ASSUME MachinesAssumption == \A i \in DOMAIN Machines : Machines[i] \in Machine

VARIABLES
    machine,    \* the machine of this run
    include,    \* include_storage_health, and a storage provider is given
    stage,      \* the source asked next, "checks", "done" or "raised"
    wears, reports, skip, pending, temps, usages,   \* the inputs gathered
    todo,       \* the disks or firmware devices still to be asked about
    results,    \* the report's results, in the order of CHECK_IDS
    total,      \* the report's score and number of measured checks
    answers,    \* history: what read_smart answered in this run
    mounts      \* history: the /proc/mounts that was read

inputVars == <<wears, reports, skip, pending, temps, usages>>
vars == <<machine, include, stage, wears, reports, skip, pending, temps, usages, todo, results, total, answers, mounts>>

M == Machines[machine]
NoScore == [score |-> Unknown, measured |-> 0]

Init ==
    /\ machine \in DOMAIN Machines /\ include \in BOOLEAN
    /\ stage = "battery"
    /\ wears = NoData /\ reports = NoData /\ pending = NoData /\ temps = NoData /\ usages = NoData
    /\ skip = "not-requested"
    /\ todo = <<>> /\ results = <<>> /\ total = NoScore /\ answers = <<>> /\ mounts = <<>>

\* The answer of a source that is one call: its list, or a LapcareError.
Source(lists) == {NoData} \cup {Data(list) : list \in lists}

GatherBattery ==
    /\ stage = "battery" /\ stage' = "drives"
    /\ wears' \in Source(M.batteries)
    /\ UNCHANGED <<machine, include, reports, skip, pending, temps, usages, todo, results, total, answers, mounts>>

-----------------------------------------------------------------------------
(* Storage: one try block around the listing and every read.               *)

\* list_devices fails with a LapcareError, or names the disks.
ListDrives ==
    /\ stage = "drives"
    /\ \/ /\ ~include
          /\ stage' = "firmware" /\ UNCHANGED <<reports, skip, todo>>
       \/ /\ include
          /\ stage' = "firmware" /\ skip' = "unavailable" /\ UNCHANGED <<reports, todo>>
       \/ /\ include
          /\ \E n \in 0 .. M.drives : todo' = [i \in 1 .. n |-> i]
          /\ stage' = "drive" /\ reports' = Data(<<>>) /\ UNCHANGED skip
    /\ UNCHANGED <<machine, include, wears, pending, temps, usages, results, total, answers, mounts>>

DriveReport(d) ==
    {[disk |-> d, verdict |-> h.verdict, pending |-> h.pending, used |-> h.used] : h \in M.health}

\* The next disk answers.
ReadDrive ==
    /\ stage = "drive" /\ todo # <<>>
    /\ \E r \in DriveReport(Head(todo)) :
         /\ reports' = Data(Append(reports.list, r))
         /\ answers' = Append(answers, Reported(r))
    /\ todo' = Tail(todo)
    /\ UNCHANGED <<machine, include, stage, wears, skip, pending, temps, usages, results, total, mounts>>

\* Mutant: a failed read is skipped and the loop goes on.
DriveFailsGoesOn ==
    /\ stage = "drive" /\ todo # <<>>
    /\ \E f \in CoreError :
         /\ answers' = Append(answers, Failed(f))
         /\ skip' = IF f = "denied" THEN "declined" ELSE "unavailable"
    /\ todo' = Tail(todo)
    /\ UNCHANGED <<machine, include, stage, wears, reports, pending, temps, usages, results, total, mounts>>

\* Mutant: every failure is taken for a missing provider.
DriveFailsUnavailable ==
    /\ stage = "drive" /\ todo # <<>>
    /\ \E f \in CoreError : answers' = Append(answers, Failed(f))
    /\ stage' = "firmware" /\ skip' = "unavailable"
    /\ reports' = NoData /\ todo' = <<>>
    /\ UNCHANGED <<machine, include, wears, pending, temps, usages, results, total, mounts>>

\* Mutant: reports keeps what was read before the failure.
DriveFailsKeeping ==
    /\ stage = "drive" /\ todo # <<>>
    /\ \E f \in CoreError :
         /\ answers' = Append(answers, Failed(f))
         /\ skip' = IF f = "denied" THEN "declined" ELSE "unavailable"
    /\ stage' = "firmware" /\ todo' = <<>>
    /\ UNCHANGED <<machine, include, wears, reports, pending, temps, usages, results, total, mounts>>

\* A LapcareError ends the block and discards the reports already read.
DriveFails ==
    /\ stage = "drive" /\ todo # <<>>
    /\ \E f \in CoreError :
         /\ answers' = Append(answers, Failed(f))
         /\ skip' = IF f = "denied" THEN "declined" ELSE "unavailable"
    /\ stage' = "firmware"
    /\ reports' = NoData /\ todo' = <<>>
    /\ UNCHANGED <<machine, include, wears, pending, temps, usages, results, total, mounts>>

\* Any other exception of read_smart leaves run().
DriveRaises ==
    /\ stage = "drive" /\ todo # <<>>
    /\ answers' = Append(answers, Failed("oserror"))
    /\ stage' = "raised"
    /\ UNCHANGED <<machine, include, inputVars, todo, results, total, mounts>>

DrivesRead ==
    /\ stage = "drive" /\ todo = <<>>
    /\ stage' = "firmware"
    /\ UNCHANGED <<machine, include, inputVars, todo, results, total, answers, mounts>>

-----------------------------------------------------------------------------
(* Firmware: one try block around the listing and every list_upgrades.     *)

ListFirmware ==
    /\ stage = "firmware"
    /\ \/ stage' = "thermal" /\ UNCHANGED <<pending, todo>>
       \/ \E list \in M.firmware :
            todo' = SelectSeq(list, LAMBDA d : d.updatable)
              /\ pending' = Data(<<>>) /\ stage' = "upgrades"
    /\ UNCHANGED <<machine, include, wears, reports, skip, temps, usages, results, total, answers, mounts>>

ListUpgrades ==
    /\ stage = "upgrades" /\ todo # <<>>
    /\ \/ /\ pending' = Data(pending.list \o Head(todo).releases)
          /\ todo' = Tail(todo) /\ UNCHANGED stage
       \/ pending' = NoData /\ todo' = <<>> /\ stage' = "thermal"
    /\ UNCHANGED <<machine, include, wears, reports, skip, temps, usages, results, total, answers, mounts>>

UpgradesListed ==
    /\ stage = "upgrades" /\ todo = <<>>
    /\ stage' = "thermal"
    /\ UNCHANGED <<machine, include, inputVars, todo, results, total, answers, mounts>>

-----------------------------------------------------------------------------

GatherTemps ==
    /\ stage = "thermal" /\ stage' = "disk"
    /\ temps' \in Source({ListTemperatures(slots) : slots \in M.temps})
    /\ UNCHANGED <<machine, include, wears, reports, skip, pending, usages, todo, results, total, answers, mounts>>

GatherUsage ==
    /\ stage = "disk" /\ stage' = "checks"
    /\ \/ usages' = NoData /\ UNCHANGED mounts
       \/ mounts' \in M.mounts /\ usages' = Data(ListUsage(mounts'))
    /\ UNCHANGED <<machine, include, wears, reports, skip, pending, temps, todo, results, total, answers>>

Checks ==
    /\ stage = "checks" /\ stage' = "done"
    /\ results' = <<CheckBatteryWear(wears), CheckStorageHealth(reports, skip),
                    CheckFirmwareCurrency(pending), CheckThermal(temps), CheckDiskSpace(usages)>>
    /\ total' = Score(results')
    /\ UNCHANGED <<machine, include, inputVars, todo, answers, mounts>>

Next ==
    \/ GatherBattery
    \/ ListDrives \/ ReadDrive \/ DriveFails \/ DriveRaises \/ DrivesRead
    \/ ListFirmware \/ ListUpgrades \/ UpgradesListed
    \/ GatherTemps \/ GatherUsage \/ Checks

Spec == Init /\ [][Next]_vars

-----------------------------------------------------------------------------
(* Properties.                                                             *)

TypeOK ==
    /\ machine \in DOMAIN Machines /\ include \in BOOLEAN
    /\ stage \in {"battery", "drives", "drive", "firmware", "upgrades", "thermal", "disk",
                  "checks", "done", "raised"}
    /\ wears \in Source(M.batteries)
    /\ \A i \in DOMAIN temps.list : temps.list[i] \in Int
    /\ mounts \in M.mounts \cup {<<>>} /\ ToSet(usages.list) \subseteq ToSet(mounts)
    /\ skip \in SkipCode \ {"none", "no-data"}
    /\ \A i \in DOMAIN reports.list : reports.list[i] \in DriveReport(i)
    /\ Len(answers) <= M.drives
    /\ \A i \in DOMAIN results :
         results[i].status \in Status /\ results[i].confidence \in Confidence
           /\ (results[i].status = "skipped") = (results[i].skip # "none")
    /\ total.measured \in 0 .. 5 /\ total.score \in {Unknown} \cup 0 .. 100

\* A mount that counts: of a device, the first one listed of it, and sized.
RealMount(i) ==
    /\ mounts[i].source # Pseudo /\ ~Stale(mounts[i]) /\ mounts[i].total > 0
    /\ \A j \in 1 .. i - 1 : mounts[j].source # mounts[i].source

\* The verdicts are those of the table in docs/health-score-calibration.md,
\* for whatever was gathered: the worst battery, any drive, any release, the
\* hottest plausible sensor and the worst real mount decide, in any order.
Verdict5 ==
    LET battery == {b \in ToSet(wears.list) : WearKnown(b)}
        drive == ToSet(reports.list)
        sensor == {t \in ToSet(temps.list) : 1 < t /\ t < 119}
        mount == {mounts[i] : i \in {i \in DOMAIN mounts : RealMount(i)}}
        Grade(measured, critical, warning) ==
            IF ~measured THEN "skipped"
            ELSE IF critical THEN "critical" ELSE IF warning THEN "warning" ELSE "ok"
    IN <<Grade(battery # {}, \E b \in battery : b.full * 10 <= 7 * b.design,
                             \E b \in battery : b.full * 20 <= 17 * b.design),
         Grade(drive # {}, \E r \in drive : r.verdict = "failing",
                           \E r \in drive : r.pending > 0 \/ r.used >= 80),
         Grade(pending.ok, "critical" \in ToSet(pending.list), pending.list # <<>>),
         Grade(sensor # {}, \E t \in sensor : t >= 95, \E t \in sensor : t >= 85),
         Grade(usages.ok /\ mount # {}, \E u \in mount : u.free * 20 < u.total,
                           \E u \in mount : u.free * 10 < u.total)>>

VerdictsMatchTable ==
    stage = "done" => [i \in 1 .. 5 |-> results[i].status] = Verdict5

\* The score is the mean of the measured checks as a whole number of
\* hundredths, off by half a point at most; skipped checks change the
\* coverage only.
ScoreIsMean ==
    stage = "done" =>
        LET Count(s) == Cardinality({i \in DOMAIN results : results[i].status = s})
            n == 5 - Count("skipped")
            exact == 100 * Count("ok") + 50 * Count("warning")    \* n times the mean
        IN /\ total.measured = n
           /\ (total.score = Unknown) = (n = 0)
           /\ n > 0 => /\ 2 * (total.score * n - exact) <= n
                       /\ 2 * (exact - total.score * n) <= n

\* No disk is read, and nobody is prompted, unless storage health was asked
\* for; a run goes on past no failed read, so it prompts in vain once.
PromptsWhenAsked ==
    /\ answers # <<>> => include
    /\ \A i \in 1 .. Len(answers) - 1 : answers[i].kind = "report"

\* A check that was skipped says why: storage was not requested, was
\* declined, failed, or there is no disk.
SkipSaysWhy ==
    stage = "done" /\ results[2].status = "skipped" =>
        LET why == results[2].skip
            declined == answers # <<>> /\ Last(answers).kind = "denied"
        IN /\ (why = "not-requested") = ~include
           /\ (why = "declined") = declined
           /\ why = "no-data" => reports.ok /\ answers = <<>>

\* A storage verdict rests on every disk that was listed: each read
\* answered, and each failing disk is named in the evidence.
EvidenceIsComplete ==
    stage = "done" /\ results[2].status # "skipped" =>
        /\ \A a \in ToSet(answers) : a.kind = "report"
        /\ \A a \in ToSet(answers) : a.report.verdict = "failing" =>
             <<"failing_device", a.report.disk>> \in ToSet(results[2].metrics)

\* diagnostics.py, lines 6-8: a source that cannot answer makes its check
\* SKIPPED, "never an exception to the caller".
NeverRaises == stage # "raised"

\* docs/health-score-calibration.md: "CRITICAL: any `passed=false`".
FailingDriveCritical ==
    stage = "done" /\ (\E a \in ToSet(answers) : a.report.verdict = "failing") =>
        results[2].status = "critical"

\* to_json's "metrics": a dict, where the last of equal keys wins.
JsonMetrics(metrics) ==
    {metrics[i] : i \in {j \in DOMAIN metrics :
                            \A k \in j + 1 .. Len(metrics) : metrics[k][1] # metrics[j][1]}}

\* docs/user-guide.md: "Each check shows its verdict, the evidence it used",
\* and the JSON export "saves the results".
JsonKeepsEvidence ==
    \A i \in DOMAIN results : JsonMetrics(results[i].metrics) = ToSet(results[i].metrics)
=============================================================================
