--------------------------- MODULE DiagnosticsPage ---------------------------
(***************************************************************************)
(* The diagnostics page: DiagnosticsViewModel, what DiagnosticsPage (the   *)
(* view) lets the user click, the export it submits, and the report writer *)
(* platform/report.py step by step, in a program that may be killed at any *)
(* moment and started again.                                               *)
(*                                                                         *)
(* A run ends as DiagnosticsRun does: with a report, or with the exception *)
(* that read_smart let through.  The user always exports to the same file. *)
(***************************************************************************)
CONSTANTS
    Report,     \* what runs may find
    None        \* no report

ASSUME ReportAssumption == None \notin Report

VARIABLES
    state,      \* PageViewModel.state
    busy,       \* busy_text
    last,       \* _last_report
    cards,      \* the report in cards, score_text and coverage_text
    dialog,     \* the report on the page when the file dialog was opened
    job,        \* the coroutine submitted, and how far it is
    document,   \* its text: the report it was rendered from
    toast,      \* history: what the last export told the user
    target,     \* the file at the chosen path
    temp        \* the temporary file beside it, the last one that was made

viewVars == <<state, busy, last, cards>>
fileVars == <<target, temp>>
pageVars == <<state, busy, last, cards, dialog, job, document, toast, target, temp>>

\* Contents of a file: nothing or a part of a document, a whole one, or what
\* the user had there before; "absent" is no file.
Whole(r) == <<"whole", r>>
Part == <<"part", None>>
Old == <<"old", None>>
Absent == <<"absent", None>>
Content == {Whole(r) : r \in Report} \cup {Part, Old, Absent}

\* load() makes the page ready before it is shown.
PageInit ==
    /\ state = "ready" /\ busy = "no"
    /\ last = None /\ cards = None /\ dialog = None
    /\ job = "none" /\ document = None /\ toast = "none"
    /\ target \in {Old, Absent} /\ temp = Absent

-----------------------------------------------------------------------------
(* Runs.                                                                   *)

\* The button of the ready page: run.
Run ==
    /\ state = "ready" /\ busy = "no" /\ dialog = None
    /\ busy' = "running" /\ job' = "run"
    /\ UNCHANGED <<state, last, cards, dialog, document, toast, fileVars>>

\* Mutant: the report for JSON is not replaced by a later run.
RunDoneKeepsReport ==
    /\ job = "run" /\ job' = "none"
    /\ busy' = "no" /\ state' = "ready"
    /\ \E r \in Report : last' = (IF last = None THEN r ELSE last) /\ cards' = r
    /\ UNCHANGED <<dialog, document, toast, fileVars>>

RunDone ==
    /\ job = "run" /\ job' = "none"
    /\ busy' = "no" /\ state' = "ready"
    /\ \E r \in Report : last' = r /\ cards' = r
    /\ UNCHANGED <<dialog, document, toast, fileVars>>

\* Mutant: handle_error alone.
RunFailedBusy ==
    /\ job = "run" /\ job' = "none"
    /\ state' = "error"
    /\ UNCHANGED <<busy, last, cards, dialog, document, toast, fileVars>>

\* _run_failed: the error page, which has no button.
RunFailed ==
    /\ job = "run" /\ job' = "none"
    /\ busy' = "no" /\ state' = "error"
    /\ UNCHANGED <<last, cards, dialog, document, toast, fileVars>>

-----------------------------------------------------------------------------
(* The export, up to the writer.                                           *)

\* The Export button is there once there are cards and can_export holds; its
\* dialog is modal.
OpenDialog ==
    /\ state = "ready" /\ busy = "no" /\ dialog = None
    /\ cards # None /\ last # None
    /\ dialog' = cards
    /\ UNCHANGED <<viewVars, job, document, toast, fileVars>>

Dismiss ==
    /\ dialog # None /\ job = "none"
    /\ dialog' = None
    /\ UNCHANGED <<viewVars, job, document, toast, fileVars>>

\* _on_export_chosen and export.  dialog keeps what the user saw until the
\* export ends.
Export ==
    /\ dialog # None /\ job = "none" /\ last # None /\ busy = "no"
    /\ busy' = "exporting" /\ job' = "render"
    /\ UNCHANGED <<state, last, cards, dialog, document, toast, fileVars>>

\* to_json is given _last_report; render_markdown and render_html are given
\* the cards and the two score texts.
JsonDocument == last
ReadableDocument == cards

\* _render_and_write before write(): the extension of the path decides.
Render ==
    /\ job = "render"
    /\ document' \in {JsonDocument, ReadableDocument}
    /\ job' = "mkstemp"
    /\ UNCHANGED <<viewVars, dialog, toast, fileVars>>

-----------------------------------------------------------------------------
(* TextReportWriter.write.  An OSError of any call leads to "unlink" or    *)
(* straight to "failed".                                                   *)

\* Mutant: the document is written over the chosen file.
MkstempInPlace ==
    /\ job = "mkstemp"
    /\ \/ target' = Part /\ job' = "write"
       \/ UNCHANGED target /\ job' = "failed"
    /\ UNCHANGED <<viewVars, dialog, document, toast, temp>>

Mkstemp ==
    /\ job = "mkstemp"
    /\ \/ temp' = Part /\ job' = "write"
       \/ UNCHANGED temp /\ job' = "failed"
    /\ UNCHANGED <<viewVars, dialog, document, toast, target>>

\* write and close, in part when the disk is full.
Write ==
    /\ job = "write"
    /\ \/ temp' = Whole(document) /\ job' = "replace"
       \/ UNCHANGED temp /\ job' = "unlink"
    /\ UNCHANGED <<viewVars, dialog, document, toast, target>>

\* Mutant: a failed rename is not an error.
ReplaceUnchecked ==
    /\ job = "replace" /\ job' = "chmod"
    /\ \/ target' = Whole(document) /\ temp' = Absent
       \/ UNCHANGED fileVars
    /\ UNCHANGED <<viewVars, dialog, document, toast>>

Replace ==
    /\ job = "replace"
    /\ \/ /\ target' = Whole(document) /\ temp' = Absent
          /\ job' = "chmod"
       \/ UNCHANGED fileVars /\ job' = "unlink"
    /\ UNCHANGED <<viewVars, dialog, document, toast>>

\* Best-effort cleanup.
Unlink ==
    /\ job = "unlink" /\ job' = "failed"
    /\ \/ temp' = Absent
       \/ UNCHANGED temp
    /\ UNCHANGED <<viewVars, dialog, document, toast, target>>

\* chmod comes after the rename; its failure is an error all the same.
Chmod ==
    /\ job = "chmod" /\ job' \in {"exported", "failed"}
    /\ UNCHANGED <<viewVars, dialog, document, toast, fileVars>>

\* _export_done and _export_failed.
ExportEnds ==
    /\ job \in {"exported", "failed"} /\ job' = "none"
    /\ busy' = "no" /\ toast' = job
    /\ dialog' = None /\ document' = None
    /\ UNCHANGED <<state, last, cards, fileVars>>

\* The program is killed, and started again later.
Restart ==
    /\ state' = "ready" /\ busy' = "no"
    /\ last' = None /\ cards' = None /\ dialog' = None
    /\ job' = "none" /\ document' = None /\ toast' = "none"
    /\ UNCHANGED fileVars

Work == RunDone \/ RunFailed \/ Render \/ Mkstemp \/ Write \/ Replace \/ Unlink \/ Chmod \/ ExportEnds
PageNext == Run \/ OpenDialog \/ Dismiss \/ Export \/ Work \/ Restart

PageSpec == PageInit /\ [][PageNext]_pageVars

\* The loop and the main context serve what is submitted (every step of
\* DiagnosticsRun has a next one until it is done); the user need not do anything.
FairPageSpec == PageSpec /\ WF_pageVars(Work)

-----------------------------------------------------------------------------
(* Properties.                                                             *)

Maybe == Report \cup {None}

PageTypeOK ==
    /\ state \in {"loading", "ready", "unavailable", "error"}
    /\ busy \in {"no", "running", "exporting"}
    /\ last \in Maybe /\ cards \in Maybe /\ dialog \in Maybe /\ document \in Maybe
    /\ job \in {"none", "run", "render", "mkstemp", "write", "replace", "unlink", "chmod",
                "exported", "failed"}
    /\ toast \in {"none", "exported", "failed"}
    /\ target \in Content /\ temp \in Content \ {Old}

\* The document holds the report the user saw when asking for it, in every
\* format: nothing replaces it between the click and the rename.
ExportsWhatWasShown ==
    document # None => document = dialog /\ document = cards

\* "A failed write never leaves a half-document at the chosen name"
\* (platform/report.py): nor does a killed program.
TargetWhole == target # Part

\* "Report exported." is only said of a file that holds the whole document.
ExportedMeansWritten ==
    [][toast' = "exported" /\ job = "exported" => target = Whole(document)]_pageVars

\* An export or a run ends, unless the program does.
BusyEnds == busy # "no" ~> busy = "no"
=============================================================================
