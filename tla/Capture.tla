------------------------------- MODULE Capture -------------------------------
(***************************************************************************)
(* lapcare --capture-fixtures DIR [--include-identifiers]: several captures *)
(* into one directory, which outlives the process.  Each one copies its     *)
(* sources in a fixed order, README.md last; it may be killed, or stopped   *)
(* by an OSError of a write, between or within any two of them.  A source   *)
(* stands for the files of one kind.                                        *)
(***************************************************************************)
EXTENDS Naturals, Sequences

CONSTANTS
    Machine,        \* slugs: the product family, or unknown-machine
    MaxCaptures     \* bound: captures into the directory

ASSUME CapturesAssumption == MaxCaptures \in Nat

VARIABLES
    by,         \* per machine and source: the capture that wrote the files,
                \* 0 when there are none, or empty ones
    real,       \* the sources whose files hold identifiers
    readme,     \* what README.md says
    n,          \* captures begun so far
    at,         \* the step of the capture under way, 0 when there is none
    asked,      \* it was started with --include-identifiers
    machine,    \* its slug
    notes,      \* the sources whose absence it noted
    unread      \* history: the other sources it could not read

vars == <<by, real, readme, n, at, asked, machine, notes, unread>>

\* _DMI_FILES, _DMI_IDENTIFIER_FILES, _OS_INFO_FILES, _HOSTNAME_FILE, ...
Steps == <<"dmi", "ids", "os", "hostname", "acpi", "battery", "lspci", "lsusb", "readme">>
Source == {"dmi", "ids", "os", "hostname", "acpi", "battery", "lspci", "lsusb"}
Identifying == {"ids", "hostname"}
CopiedKind == {"dmi", "ids", "os", "hostname", "battery"}
\* The sources whose absence is a line in notes.
Noted == {"acpi", "lspci", "lsusb"}

NoReadme == [by |-> 0, asked |-> FALSE, missing |-> {}]

Init ==
    /\ by = [x \in Machine \X Source |-> 0] /\ real = {} /\ readme = NoReadme
    /\ n = 0 /\ at = 0 /\ asked = FALSE /\ machine \in Machine
    /\ notes = {} /\ unread = {}

-----------------------------------------------------------------------------
\* capture(): the slug, and no notes yet.  The DMI files may be readable for
\* one capture and not for the next.
StartCapture(ask, slug) ==
    /\ asked' = ask /\ machine' = slug
    /\ notes' = {} /\ unread' = {}
    /\ n' = n + 1 /\ at' = 1

\* main() with --capture-fixtures, with or without --include-identifiers.
Begin ==
    /\ at = 0 /\ n < MaxCaptures
    /\ \E ask \in BOOLEAN, slug \in Machine : StartCapture(ask, slug)
    /\ UNCHANGED <<by, real, readme>>

At(f) == at # 0 /\ Steps[at] = f

\* Mutant: only the hostname is left out by default.
WantedButHostname(f) == f # "hostname" \/ asked

\* What is copied as it is: identifiers only with the flag.
Wanted(f) == f \notin Identifying \/ asked

Writes(f) == by' = [by EXCEPT ![<<machine, f>>] = n]

\* _copy_file of each file of a kind; without the flag, kinds that identify
\* are not among those.
Copy(f) ==
    /\ At(f) /\ f \in CopiedKind /\ Wanted(f) /\ at' = at + 1
    /\ Writes(f)
    /\ real' = IF f \in Identifying THEN real \cup {<<machine, f>>} ELSE real
    /\ UNCHANGED <<readme, n, asked, machine, notes, unread>>

\* read_str gives None: what is there already stays, without a word.
Unreadable(f) ==
    /\ At(f) /\ f \in CopiedKind /\ Wanted(f) /\ at' = at + 1
    /\ unread' = unread \cup {f}
    /\ UNCHANGED <<by, real, readme, n, asked, machine, notes>>

\* The driver's directory is listed, or its absence noted.
ListAttributes ==
    /\ At("acpi") /\ at' = at + 1
    /\ \/ Writes("acpi") /\ UNCHANGED notes
       \/ notes' = notes \cup {"acpi"} /\ UNCHANGED by
    /\ UNCHANGED <<real, readme, n, asked, machine, unread>>

\* The tool's output is written, or whatever it raised is noted.
RunTool(t) ==
    /\ t \in {"lspci", "lsusb"} /\ At(t) /\ at' = at + 1
    /\ \/ Writes(t) /\ UNCHANGED notes
       \/ notes' = notes \cup {t} /\ UNCHANGED by
    /\ UNCHANGED <<real, readme, n, asked, machine, unread>>

LeaveOutIds ==
    /\ At("ids") /\ ~asked /\ at' = at + 1
    /\ UNCHANGED <<by, real, readme, n, asked, machine, notes, unread>>

\* Mutant: the hostname is replaced only where there is none yet.
RedactIfAbsent ==
    /\ At("hostname") /\ ~asked /\ at' = at + 1
    /\ IF by[<<machine, "hostname">>] = 0 THEN Writes("hostname") ELSE UNCHANGED by
    /\ UNCHANGED <<real, readme, n, asked, machine, notes, unread>>

RedactHostname ==
    /\ At("hostname") /\ ~asked /\ at' = at + 1
    /\ Writes("hostname") /\ real' = real \ {<<machine, "hostname">>}
    /\ UNCHANGED <<readme, n, asked, machine, notes, unread>>

WriteReadme ==
    /\ At("readme") /\ at' = 0
    /\ readme' = [by |-> n, asked |-> asked, missing |-> notes]
    /\ UNCHANGED <<by, real, n, asked, machine, notes, unread>>

\* write_text truncates, then writes: what is being written may end up empty.
Empties(f) ==
    /\ by' = [by EXCEPT ![<<machine, f>>] = 0]
    /\ real' = real \ {<<machine, f>>}
    /\ UNCHANGED readme

\* The process is killed, or a write raises, which nothing catches.
Dies ==
    /\ at # 0 /\ at' = 0
    /\ \/ UNCHANGED <<by, real, readme>>
       \/ At("readme") /\ readme' = NoReadme /\ UNCHANGED <<by, real>>
       \/ \E f \in Source : At(f) /\ (Wanted(f) \/ f = "hostname") /\ Empties(f)
    /\ UNCHANGED <<n, asked, machine, notes, unread>>

Next ==
    \/ Begin \/ LeaveOutIds \/ RedactHostname \/ WriteReadme \/ Dies
    \/ ListAttributes \/ \E f \in Source : Copy(f) \/ Unreadable(f) \/ RunTool(f)

Spec == Init /\ [][Next]_vars

-----------------------------------------------------------------------------
TypeOK ==
    /\ by \in [Machine \X Source -> Nat] /\ real \subseteq Machine \X Identifying
    /\ readme \in [by : Nat, asked : BOOLEAN, missing : SUBSET Noted]
    /\ n \in Nat /\ at \in 0 .. 9 /\ asked \in BOOLEAN
    /\ machine \in Machine /\ notes \subseteq Noted /\ unread \subseteq Source

\* The module's docstring: identifiers are redacted at capture time by
\* default.  No step of a default capture, a killed one included, puts an
\* identifier into the directory, whatever is there already.
NeverAddsIdentifiers == [][~asked => real' \subseteq real]_vars

\* Once README.md is that of the last capture, every file of its machine is
\* of that capture or could not be read, what the notes do not mention was
\* captured, and without the flag the hostname is redacted, over an earlier
\* capture that was complete or killed, with or without identifiers.
NotesTellTheRun ==
    (readme.by = n /\ n # 0) =>
        /\ \A f \in CopiedKind : by[<<machine, f>>] = n \/ f \in unread \/ (f = "ids" /\ ~asked)
        /\ \A f \in Noted : by[<<machine, f>>] = n \/ f \in readme.missing
        /\ ~readme.asked => <<machine, "hostname">> \notin real

\* docs/testing.md, the review checklist: no identifiers anywhere; README.md
\* must not say IDENTIFIERS INCLUDED.  Not so: a default capture into the
\* directory of one with identifiers leaves the DMI identifier files, those of
\* another slug altogether, and one with identifiers that is killed leaves
\* the README.md of the default capture before it.
ReadmeTruthful == (readme.by # 0 /\ ~readme.asked) => real = {}
=============================================================================
