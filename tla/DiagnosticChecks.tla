--------------------------- MODULE DiagnosticChecks ---------------------------
(***************************************************************************)
(* core/diagnostics.py without run(): the five checks, pure functions from *)
(* what a source answered to a result, and the score.                      *)
(*                                                                         *)
(* A source answers NoData or a list.  Wear and free space are fractions   *)
(* of integers, compared without rounding (the code's doubles agree with   *)
(* them on every value the sources report); temperatures are whole         *)
(* degrees.                                                                *)
(***************************************************************************)
EXTENDS Integers, Sequences, SequencesExt

\* None of an optional number, and the None or the list of a source.
Unknown == -1
NoData == [ok |-> FALSE, list |-> <<>>]
Data(list) == [ok |-> TRUE, list |-> list]

Status == {"ok", "warning", "critical", "skipped"}
Confidence == {"high", "medium", "low"}
SkipCode == {"no-data", "unavailable", "declined", "not-requested", "none"}

\* metrics: the evidence, pairs of a key and what it is about.
Result(status, confidence, metrics) ==
    [status |-> status, confidence |-> confidence, skip |-> "none", metrics |-> metrics]
Skipped(code) ==
    [status |-> "skipped", confidence |-> "low", skip |-> code, metrics |-> <<>>]

-----------------------------------------------------------------------------
(* Battery wear: [full, design], each perhaps Unknown.                     *)

GoodMaxWear == 15
FairMaxWear == 30

WearKnown(b) == b.full # Unknown /\ b.design > 0

\* Charge lost, 0 for a battery that holds more than its design.
Lost(b) == IF b.full > b.design THEN 0 ELSE b.design - b.full
WearAtLeast(b, percent) == Lost(b) * 100 >= percent * b.design
WearsMore(a, b) == Lost(a) * b.design > Lost(b) * a.design

\* classify_wear, as the check uses it.
WearStatus(b) ==
    CASE WearAtLeast(b, FairMaxWear) -> "critical"
      [] WearAtLeast(b, GoodMaxWear) /\ ~WearAtLeast(b, FairMaxWear) -> "warning"
      [] OTHER -> "ok"

\* worst is None.
NoBattery == [full |-> Unknown, design |-> Unknown]

\* Mutant: the last battery counts, not the worst.
WithWearLast(worst, b) == IF WearKnown(b) THEN b ELSE worst

\* One turn of the loop over the batteries.
WithWear(worst, b) ==
    IF WearKnown(b) /\ (WearKnown(worst) => WearsMore(b, worst)) THEN b ELSE worst

CheckBatteryWear(wears) ==
    LET worst == FoldLeft(WithWear, NoBattery, wears.list)
    IN CASE ~wears.ok -> Skipped("unavailable")
         [] wears.ok /\ ~WearKnown(worst) -> Skipped("no-data")
         [] OTHER -> Result(WearStatus(worst), "high", <<<<"wear", worst>>>>)

-----------------------------------------------------------------------------
(* Storage health: reports [disk, verdict, pending, used], one per disk in *)
(* the order they were read.                                               *)

EnduranceWarn == 80

WithEvidence(result, status, key, value) ==
    [result EXCEPT !.status = status, !.metrics = Append(@, <<key, value>>)]

\* The drive's own verdict; a drive without one costs confidence.
WithVerdict(result, r) ==
    CASE r.verdict = "failing" -> WithEvidence(result, "critical", "failing_device", r.disk)
      [] r.verdict = "silent" -> [result EXCEPT !.confidence = "medium"]
      [] OTHER -> result

\* Only a result that is still "ok" becomes a warning.
WithWarning(result, applies, key, value) ==
    IF applies /\ result.status = "ok" THEN WithEvidence(result, "warning", key, value) ELSE result

\* Mutant: a warning replaces a worse verdict of an earlier drive.
WithReportDowngrading(result, r) ==
    LET judged == WithVerdict(result, r)
    IN IF r.pending > 0 THEN WithEvidence(judged, "warning", "pending_sectors", r.pending)
       ELSE WithWarning(judged, r.used >= EnduranceWarn, "endurance_used_pct", r.used)

\* One turn of the loop over the reports.  Unknown is neither positive nor
\* at the endurance limit.
WithReport(result, r) ==
    WithWarning(WithWarning(WithVerdict(result, r),
                            r.pending > 0, "pending_sectors", r.pending),
                r.used >= EnduranceWarn, "endurance_used_pct", r.used)

CheckStorageHealth(reports, skip) ==
    CASE ~reports.ok -> Skipped(skip)
      [] reports.ok /\ reports.list = <<>> -> Skipped("no-data")
      [] OTHER -> FoldLeft(WithReport, Result("ok", "high", <<>>), reports.list)

-----------------------------------------------------------------------------
(* Firmware currency: the urgencies of the pending releases.               *)

CheckFirmwareCurrency(pending) ==
    CASE ~pending.ok -> Skipped("unavailable")
      [] pending.ok /\ pending.list = <<>> -> Result("ok", "medium", <<>>)
      [] OTHER -> Result(IF "critical" \in ToSet(pending.list) THEN "critical" ELSE "warning",
                         "medium", <<<<"pending_updates", Len(pending.list)>>>>)

-----------------------------------------------------------------------------
(* Temperatures.                                                           *)

PlausibleMin == 1
PlausibleMax == 119
ThermalWarn == 85
ThermalCrit == 95

Plausible(t) == PlausibleMin < t /\ t < PlausibleMax

\* list_temperatures: a slot that cannot be read is left out.
WithSlot(readings, t) == IF t = Unknown THEN readings ELSE Append(readings, t)
ListTemperatures(slots) == FoldLeft(WithSlot, <<>>, slots)

CheckThermal(temps) ==
    LET plausible == {t \in ToSet(temps.list) : Plausible(t)}
        hottest == Max(plausible)
        status == CASE hottest >= ThermalCrit -> "critical"
                    [] ThermalWarn <= hottest /\ hottest < ThermalCrit -> "warning"
                    [] OTHER -> "ok"
    IN CASE ~temps.ok -> Skipped("unavailable")
         [] temps.ok /\ plausible = {} -> Skipped("no-data")
         [] OTHER -> Result(status, "medium", <<<<"max_temp_c", hottest>>>>)

-----------------------------------------------------------------------------
(* Disk space.  A line of /proc/mounts is [source, mount, free, total],     *)
(* where free and total are what statvfs says of the mount point.          *)

Pseudo == "tmpfs"       \* a source that does not start with /dev/
Stale(line) == line.free = Unknown

\* Mutant: a device is taken for seen only once statvfs has answered.
WithLineRetrying(read, line) ==
    CASE line.source = Pseudo \/ line.source \in read.seen -> read
      [] Stale(line) -> read
      [] OTHER -> [seen |-> read.seen \cup {line.source}, usages |-> Append(read.usages, line)]

\* One turn of the loop over the lines: a device counts at its first mount
\* point, if that one answers.
WithLine(read, line) ==
    IF line.source = Pseudo \/ line.source \in read.seen THEN read
    ELSE [seen |-> read.seen \cup {line.source},
          usages |-> IF Stale(line) THEN read.usages ELSE Append(read.usages, line)]

ListUsage(mounts) == FoldLeft(WithLine, [seen |-> {}, usages |-> <<>>], mounts).usages

DiskWarnFree == 10
DiskCritFree == 5

Measured(u) == u.total > 0
FreeBelow(u, percent) == u.free * 100 < percent * u.total
Fuller(a, b) == a.free * b.total < b.free * a.total

\* fullest is None.
NoUsage == [source |-> Pseudo, mount |-> "none", free |-> Unknown, total |-> 0]

\* One turn of the loop over the usages: judged is [result, fullest].
WithUsage(judged, u) ==
    IF ~Measured(u) THEN judged
    ELSE [result |->
            IF FreeBelow(u, DiskCritFree)
            THEN WithEvidence(judged.result, "critical", "critical_mount", u.mount)
            ELSE WithWarning(judged.result, FreeBelow(u, DiskWarnFree), "low_mount", u.mount),
          fullest |->
            IF Measured(judged.fullest) => Fuller(u, judged.fullest) THEN u ELSE judged.fullest]

CheckDiskSpace(usages) ==
    LET judged == FoldLeft(WithUsage, [result |-> Result("ok", "high", <<>>), fullest |-> NoUsage],
                           usages.list)
    IN CASE ~usages.ok -> Skipped("unavailable")
         [] usages.ok /\ ~Measured(judged.fullest) -> Skipped("no-data")
         [] OTHER -> [judged.result EXCEPT !.metrics =
                        Append(@, <<"min_free_mount", judged.fullest.mount>>)]

-----------------------------------------------------------------------------
(* The score.                                                              *)

Points(status) == CASE status = "ok" -> 2 [] status = "warning" -> 1 [] status = "critical" -> 0

\* Python's round() of a / b: to the nearest, halves to the even neighbour.
RoundHalfEven(a, b) ==
    LET q == a \div b  r == 2 * (a % b)
    IN IF r > b \/ (r = b /\ q % 2 = 1) THEN q + 1 ELSE q

IsMeasured(result) == result.status # "skipped"

\* The points of the measured results and their number.
WithPoints(tally, result) ==
    IF ~IsMeasured(result) THEN tally
    ELSE [points |-> tally.points + Points(result.status), measured |-> tally.measured + 1]
Tally(results) == FoldLeft(WithPoints, [points |-> 0, measured |-> 0], results)

\* Mutant: skipped checks count as zero.
ScoreOfTotal(results) ==
    LET t == Tally(results)
    IN [score |-> IF t.measured = 0 THEN Unknown ELSE RoundHalfEven(50 * t.points, Len(results)),
        measured |-> t.measured]

\* score: (score or None, measured); total is the number of checks.
Score(results) ==
    LET t == Tally(results)
    IN [score |-> IF t.measured = 0 THEN Unknown ELSE RoundHalfEven(50 * t.points, t.measured),
        measured |-> t.measured]
=============================================================================
