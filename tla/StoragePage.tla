----------------------------- MODULE StoragePage -----------------------------
(***************************************************************************)
(* The storage page: StorageViewModel, what StoragePage (the view) lets    *)
(* the user see and click, and the two coroutines it submits: the sysfs    *)
(* inventory and the SMART run, which reads one disk after the other.      *)
(*                                                                         *)
(* One read is atomic here and answers as SmartRead promises; disks come,  *)
(* go and fail between the reads.                                          *)
(***************************************************************************)
EXTENDS Naturals, SmartAnswers

CONSTANT Disks      \* bound: number of physical disks ever plugged in

ASSUME DisksAssumption == Disks \in Nat \ {0}

VARIABLES
    present,    \* the disks under /sys/block, in the order of their names
    health,     \* what each disk has to say of itself
    state,      \* PageViewModel.state
    cards,      \* the disks that have a card
    card,       \* the health part of each card
    busy,       \* busy_text is not empty
    job,        \* the coroutine submitted, and how far it is
    next,       \* the disk the SMART run reads next
    results,    \* answers of the SMART run so far
    shown       \* history: answers of the last SMART run that was delivered

worldVars == <<present, health>>
viewVars == <<state, cards, card>>
pageVars == <<present, health, state, cards, card, busy, job, next, results, shown>>

Disk == 1 .. Disks

\* A card's summary is that of its last report, "none" before the first one.
EmptyCard == [summary |-> "none", rows |-> FALSE, note |-> FALSE]
CardOf(r, note) == [summary |-> r.verdict, rows |-> r.rows, note |-> note]
Card == [summary : Verdict \cup {"none"}, rows : BOOLEAN, note : BOOLEAN]

\* The coroutine: none, the inventory, a SMART run, or one that ended and
\* waits for its callback.
Job == {"none", "inventory", "smart", "smart done"} \cup Failure
NoAnswers == [d \in Disk |-> NoAnswer]

PageInit ==
    /\ present \in SUBSET Disk
    /\ health \in [Disk -> SmartReport]
    /\ state = "loading" /\ cards = {} /\ card = [d \in Disk |-> EmptyCard]
    /\ busy = FALSE
    /\ job = "none" /\ next = 1 /\ results = NoAnswers /\ shown = NoAnswers

-----------------------------------------------------------------------------
(* Disks (external).                                                       *)

Hotplug ==
    /\ \E d \in Disk : present' = IF d \in present THEN present \ {d} ELSE present \cup {d}
    /\ UNCHANGED <<health, viewVars, busy, job, next, results, shown>>

DiskFails ==
    /\ \E d \in Disk :
         /\ health[d].verdict # "failing"
         /\ health' = [health EXCEPT ![d] = [verdict |-> "failing", rows |-> health[d].rows]]
    /\ UNCHANGED <<present, viewVars, busy, job, next, results, shown>>

-----------------------------------------------------------------------------
(* The inventory.                                                          *)

\* StoragePage.__init__ loads once.
Load ==
    /\ state = "loading" /\ job = "none"
    /\ job' = "inventory"
    /\ UNCHANGED <<worldVars, viewVars, busy, next, results, shown>>

\* list_devices: the disks, or nothing when /sys/block cannot be listed.
Listings == {present, {}}

\* _apply of the list, or _load_failed: without disks the page is unavailable
\* either way.
Apply ==
    /\ job = "inventory" /\ job' = "none"
    /\ \E found \in Listings :
         IF found = {}
           THEN state' = "unavailable" /\ UNCHANGED <<cards, card>>
           ELSE /\ state' = "ready"
                /\ cards' = found /\ card' = [d \in Disk |-> EmptyCard]
    /\ UNCHANGED <<worldVars, busy, next, results, shown>>

-----------------------------------------------------------------------------
(* The SMART run.                                                          *)

\* The button of the ready page: read_health.
ReadHealth ==
    /\ state = "ready" /\ ~busy /\ cards # {}
    /\ busy' = TRUE
    /\ job' = "smart" /\ next' = 1 /\ results' = NoAnswers
    /\ UNCHANGED <<worldVars, viewVars, shown>>

\* What read_smart may answer about disk d; a disk that is gone reports
\* nothing.
AnswersFor(d) ==
    {Failed(f) : f \in Failure}
      \cup (IF d \in present THEN {Reported(health[d])} ELSE {})

\* Mutant: every core error becomes a note.
AbortsNever == {"oserror"}

\* The failures that end the run: the two that would repeat for every disk,
\* and whatever is not a LapcareError.
Aborts == Unavailable \cup {"denied", "oserror"}

\* One iteration of _gather_health.
SmartRead ==
    /\ job = "smart" /\ next \in Disk
    /\ IF next \in cards
         THEN \E a \in AnswersFor(next) :
                /\ results' = [results EXCEPT ![next] = a]
                /\ IF a.kind \in Aborts
                     THEN job' = a.kind /\ UNCHANGED next
                     ELSE next' = next + 1 /\ UNCHANGED job
         ELSE next' = next + 1 /\ UNCHANGED <<job, results>>
    /\ UNCHANGED <<worldVars, viewVars, busy, shown>>

RunEnds ==
    /\ job = "smart" /\ next = Disks + 1
    /\ job' = "smart done"
    /\ UNCHANGED <<worldVars, viewVars, busy, next, results, shown>>

\* Mutant: a note stays once it is there.
NewCardStickyNote(old, a) ==
    IF a.kind = "report" THEN CardOf(a.report, old.note) ELSE [old EXCEPT !.note = TRUE]

\* _health_done for one card: a failed read sets the note and keeps the rest.
NewCard(old, a) ==
    IF a.kind = "report" THEN CardOf(a.report, FALSE) ELSE [old EXCEPT !.note = TRUE]

\* The coroutine and its locals are gone once its callback runs.
RunGone == job' = "none" /\ next' = 1 /\ results' = NoAnswers

HealthDone ==
    /\ job = "smart done" /\ RunGone
    /\ busy' = FALSE /\ state' = "ready"
    /\ card' = [d \in Disk |-> IF d \in cards THEN NewCard(card[d], results[d]) ELSE card[d]]
    /\ shown' = results
    /\ UNCHANGED <<worldVars, cards>>

\* Mutant: a failed run goes through handle_error, like a failed load.
HealthFailedPage ==
    /\ job \in Failure /\ RunGone
    /\ busy' = FALSE
    /\ state' = IF job \in Unavailable THEN "unavailable" ELSE "error"
    /\ UNCHANGED <<worldVars, cards, card, shown>>

\* Mutant: one branch returns before busy_text is cleared.
HealthFailedBusy ==
    /\ job \in Failure /\ RunGone
    /\ busy' = (job \in Unavailable)
    /\ UNCHANGED <<worldVars, state, cards, card, shown>>

\* _health_failed: a toast (toast_text, which _on_toast shows and clears at
\* once), whatever failed.
HealthFailed ==
    /\ job \in Failure /\ RunGone
    /\ busy' = FALSE
    /\ UNCHANGED <<worldVars, state, cards, card, shown>>

Page == Load \/ Apply \/ ReadHealth \/ SmartRead \/ RunEnds \/ HealthDone \/ HealthFailed
PageNext == Hotplug \/ DiskFails \/ Page

PageSpec == PageInit /\ [][PageNext]_pageVars

\* The loop and the main context serve what is submitted (ReadEnds of
\* PrivilegedRead ends each read); the user need not click.
FairPageSpec ==
    /\ PageSpec
    /\ WF_pageVars(Load) /\ WF_pageVars(Apply) /\ WF_pageVars(SmartRead)
    /\ WF_pageVars(RunEnds) /\ WF_pageVars(HealthDone \/ HealthFailed)

-----------------------------------------------------------------------------
(* Properties.                                                             *)

PageTypeOK ==
    /\ present \subseteq Disk /\ cards \subseteq Disk
    /\ health \in [Disk -> SmartReport]
    /\ state \in {"loading", "ready", "unavailable", "error"}
    /\ card \in [Disk -> Card]
    /\ busy \in BOOLEAN
    /\ job \in Job /\ next \in 1 .. Disks + 1
    /\ results \in [Disk -> Answer \cup {NoAnswer}]
    /\ shown \in [Disk -> Answer \cup {NoAnswer}]

\* After a run, each card tells what that run learned of its own disk: its
\* report and no note, or a note on that disk only (view_model.py docstring,
\* lines 8-9).
CardsTellTheRun ==
    \A d \in cards :
        /\ shown[d].kind = "report" => card[d] = CardOf(shown[d].report, FALSE)
        /\ card[d].note <=> shown[d].kind \in {"timeout", "parse"}

\* A run whose prompt is declined is over: the user is asked once, not once
\* per disk.
DeclinedOnce ==
    \A d, e \in Disk :
        results[d].kind = "denied" /\ results[e].kind = "denied" => d = e

\* A run that is declined or finds no tool "is a toast, never a page state,
\* and the inventory keeps rendering": a page that is ready stays ready and
\* its cards change only with the results of a whole run.
ReadyStays ==
    [][state = "ready" => state' = "ready" /\ (card' # card => job = "smart done")]_pageVars

\* Every run ends, and the page can be used again.
BusyEnds == busy ~> ~busy

\* What _device_row shows of a card: the summary only beside rows, the note
\* only without them.
SummaryVisible(c) == c.rows
NoteVisible(c) == c.note /\ ~c.rows

\* health_failed "drives the destructive style on the row" (view_model.py,
\* line 69): a card of a failing disk looks failing.
FailingLooksFailing ==
    \A d \in cards : card[d].summary = "failing" => SummaryVisible(card[d])

\* "One device's failed SMART read degrades to a note on that device": the
\* note can be read on the page.
FailedReadIsNoted ==
    \A d \in cards : shown[d].kind \in {"timeout", "parse"} => NoteVisible(card[d])
=============================================================================
