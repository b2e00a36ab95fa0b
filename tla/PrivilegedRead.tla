---------------------------- MODULE PrivilegedRead ----------------------------
(***************************************************************************)
(* One SMART read: StorageSmartPkexec.read_smart, the subprocess runner    *)
(* under it, pkexec with its polkit dialog (external), the root helper     *)
(* lapcare-helper and smartctl (external).                                 *)
(*                                                                         *)
(* Time counts in ticks.  The runner's timer covers the whole child, the   *)
(* dialog included; the helper's covers smartctl.  A timer that is due is  *)
(* served before time goes on.                                             *)
(***************************************************************************)
EXTENDS Naturals

CONSTANTS
    ClientTimeout,  \* _PKEXEC_TIMEOUT_S
    ToolTimeout,    \* TOOL_TIMEOUT_S of the helper
    HelperCap,      \* MAX_OUTPUT_BYTES of the helper
    RunnerCap,      \* MAX_OUTPUT_BYTES of the runner
    MaxSize         \* bound: the longest output smartctl writes

ASSUME TimeoutAssumption == ClientTimeout \in Nat \ {0} /\ ToolTimeout \in Nat \ {0}
ASSUME CapAssumption ==
    HelperCap \in Nat \ {0} /\ RunnerCap \in Nat /\ MaxSize \in Nat \ {0} /\ HelperCap <= RunnerCap

VARIABLES
    installed,  \* which of pkexec, the helper and smartmontools are installed
    kept,       \* polkit kept an earlier authorization (auth_admin_keep)
    plugged,    \* the disk is still there
    disk,       \* what the disk has to say of itself
    child,      \* where the pkexec process is
    exit,       \* how it ended: exit status and helper error code
    out,        \* what smartctl wrote and how it exited
    read,       \* the coroutine
    answer,     \* what it returned or raised
    clock,      \* time since the child was started
    toolClock   \* time since smartctl was started

machineVars == <<installed, kept, disk>>
clientVars == <<read, answer>>
clockVars == <<clock, toolClock>>
vars == <<installed, kept, plugged, disk, child, exit, out, read, answer, clock, toolClock>>

Contract == INSTANCE SmartRead WITH read <- IF read = "reaping" THEN "asked" ELSE read

Piece == {"pkexec", "helper", "smartmontools"}

\* pkexec runs as the user until it is authorized, then becomes the helper.
UserChild == {"pkexec", "dialog"}
RootChild == {"match", "node", "tool", "smartctl", "killing"}
Child == {"none", "exited", "killed"} \cup UserChild \cup RootChild

HelperCode == {"unknown-device", "tool-missing", "tool-timeout", "tool-failed", "output-invalid"}
Exit == {"none", "good", "dismissed", "not authorized", "other", "traceback"} \cup HelperCode

\* smartctl's output; "none" until it ends.  bits: exit bits 0-1 or a signal
\* are "fatal", bits 2-7 are a "finding".
Json == {"object", "other", "garbage"}
Output == [bits : SUBSET {"fatal", "finding"}, json : Json, size : 1 .. MaxSize]
NoOutput == [bits |-> {}, json |-> "none", size |-> 0]

Init ==
    /\ installed \in SUBSET Piece
    /\ kept \in BOOLEAN /\ plugged = TRUE
    /\ disk \in Contract!SmartReport
    /\ child = "none" /\ exit = "none" /\ out = NoOutput
    /\ read = "idle" /\ answer = Contract!NoAnswer
    /\ clock = 0 /\ toolClock = 0

-----------------------------------------------------------------------------
(* The provider and the runner.                                            *)

Answers(a) == read' = "answered" /\ answer' = a
Fails(f) == Answers(Contract!Failed(f))

\* read_smart calls run_tool, which starts pkexec if it is installed.
ReadSmart ==
    /\ read = "idle"
    /\ IF "pkexec" \in installed
         THEN read' = "asked" /\ child' = "pkexec" /\ UNCHANGED answer
         ELSE Fails("no pkexec") /\ UNCHANGED child
    /\ UNCHANGED <<machineVars, plugged, exit, out, clockVars>>

\* _translate_failure: the error behind a non-zero exit.
Translated(e) ==
    CASE e \in {"dismissed", "not authorized"} -> "denied"
      [] e = "tool-missing" -> "no smartmontools"
      [] e = "tool-timeout" -> "timeout"
      [] e = "other" -> "no helper"
      [] OTHER -> "parse"

\* Mutant: a drive that gives no verdict passes.
ParsedOptimistic ==
    IF out.size > RunnerCap THEN Contract!Failed("no helper")
    ELSE IF out.json # "object" THEN Contract!Failed("parse")
    ELSE Contract!Reported([disk EXCEPT !.verdict = IF @ = "silent" THEN "healthy" ELSE @])

\* The runner's size check, json.loads and _parse_report on a good exit.
Parsed ==
    IF out.size > RunnerCap THEN Contract!Failed("no helper")
    ELSE IF out.json = "object" THEN Contract!Reported(disk)
    ELSE Contract!Failed("parse")

\* communicate() returns in time.
Communicate ==
    /\ read = "asked" /\ child = "exited"
    /\ Answers(IF exit = "good" THEN Parsed ELSE Contract!Failed(Translated(exit)))
    /\ UNCHANGED <<machineVars, plugged, child, exit, out, clockVars>>

\* Mutant: the PermissionError is swallowed and the root child waited for.
TimesOutWaits ==
    /\ read = "asked" /\ clock = ClientTimeout
    /\ \/ /\ child \in UserChild
          /\ child' = "killed" /\ read' = "reaping" /\ UNCHANGED answer
       \/ /\ child \in RootChild
          /\ read' = "reaping" /\ UNCHANGED <<child, answer>>
       \/ /\ child = "exited"
          /\ Fails("timeout") /\ UNCHANGED child
    /\ UNCHANGED <<machineVars, plugged, exit, out, clockVars>>

\* wait_for times out.  kill() works on a process that still runs as the
\* user, raises PermissionError on one that runs as root, and finds an
\* exited one either reaped by asyncio already (ProcessLookupError) or not.
TimesOut ==
    /\ read = "asked" /\ clock = ClientTimeout
    /\ \/ /\ child \in UserChild
          /\ child' = "killed" /\ read' = "reaping" /\ UNCHANGED answer
       \/ /\ child \in RootChild
          /\ Fails("oserror") /\ UNCHANGED child
       \/ /\ child = "exited"
          /\ \E f \in {"timeout", "oserror"} : Fails(f)
          /\ UNCHANGED child
    /\ UNCHANGED <<machineVars, plugged, exit, out, clockVars>>

\* proc.wait() returns: the killed process is gone.
Reaped ==
    /\ read = "reaping" /\ child \in {"killed", "exited"}
    /\ Fails("timeout")
    /\ UNCHANGED <<machineVars, plugged, child, exit, out, clockVars>>

-----------------------------------------------------------------------------
(* pkexec and its dialog (external).                                       *)

Exits(e) == child' = "exited" /\ exit' = e
Becomes(c) == child' = c /\ UNCHANGED exit

\* pkexec looks for the program before it asks anybody; its own errors end
\* with 127, or another status in some versions.
PkexecStarts ==
    /\ child = "pkexec"
    /\ IF "helper" \notin installed
         THEN \E e \in {"not authorized", "other"} : Exits(e)
         ELSE Becomes(IF kept THEN "match" ELSE "dialog")
    /\ UNCHANGED <<machineVars, plugged, out, clientVars, clockVars>>

\* The user types the password, ...
Authorize ==
    /\ child = "dialog"
    /\ Becomes("match")
    /\ UNCHANGED <<machineVars, plugged, out, clientVars, clockVars>>

\* ... dismisses the dialog, or may not have it.
Refuse ==
    /\ child = "dialog"
    /\ \E e \in {"dismissed", "not authorized"} : Exits(e)
    /\ UNCHANGED <<machineVars, plugged, out, clientVars, clockVars>>

-----------------------------------------------------------------------------
(* The helper, as root, and smartctl.                                      *)

helperFrame == <<machineVars, plugged, clientVars>>

\* _device_node enumerates /sys/block ...
MatchDevice ==
    /\ child = "match"
    /\ IF plugged THEN Becomes("node") ELSE Exits("unknown-device")
    /\ UNCHANGED <<helperFrame, out, clockVars>>

\* ... and looks at the node.
StatNode ==
    /\ child = "node"
    /\ IF plugged THEN Becomes("tool") ELSE Exits("unknown-device")
    /\ UNCHANGED <<helperFrame, out, clockVars>>

\* _smart_report looks for smartctl and starts it; an OSError of the start
\* is not handled.
StartSmartctl ==
    /\ child = "tool"
    /\ \/ "smartmontools" \notin installed /\ Exits("tool-missing") /\ UNCHANGED toolClock
       \/ "smartmontools" \in installed /\ Exits("traceback") /\ UNCHANGED toolClock
       \/ "smartmontools" \in installed /\ Becomes("smartctl") /\ toolClock' = 0
    /\ UNCHANGED <<helperFrame, out, clock>>

\* What smartctl may write: no report if the disk is gone, and a finding
\* when the disk fails.
SmartctlWrites(o) ==
    /\ ~plugged => "fatal" \in o.bits
    /\ disk.verdict = "failing" => "finding" \in o.bits

\* Mutant: any non-zero exit is fatal.
ChecksEveryBit(o) ==
    IF o.bits # {} THEN "tool-failed"
    ELSE IF o.size > HelperCap \/ o.json = "garbage" THEN "output-invalid"
    ELSE "good"

\* Mutant: the helper passes output of any length on.
ChecksNoSize(o) ==
    IF "fatal" \in o.bits THEN "tool-failed"
    ELSE IF o.json = "garbage" THEN "output-invalid"
    ELSE "good"

\* The bitmask, the size check and json.loads of _smart_report.
Checks(o) ==
    IF "fatal" \in o.bits THEN "tool-failed"
    ELSE IF o.size > HelperCap \/ o.json = "garbage" THEN "output-invalid"
    ELSE "good"

SmartctlEnds ==
    /\ child = "smartctl"
    /\ \E o \in Output :
         /\ SmartctlWrites(o)
         /\ out' = o
         /\ Exits(Checks(o))
    /\ UNCHANGED <<helperFrame, clockVars>>

\* subprocess.run times out, kills smartctl and waits for it ...
ToolTimesOut ==
    /\ child = "smartctl" /\ toolClock = ToolTimeout
    /\ Becomes("killing")
    /\ UNCHANGED <<helperFrame, out, clockVars>>

\* ... to die, which a disk that does not answer may put off.
SmartctlDies ==
    /\ child = "killing"
    /\ Exits("tool-timeout")
    /\ UNCHANGED <<helperFrame, out, clockVars>>

-----------------------------------------------------------------------------
(* Everybody else.                                                         *)

Unplug ==
    /\ plugged /\ plugged' = FALSE
    /\ UNCHANGED <<machineVars, child, exit, out, clientVars, clockVars>>

\* A tick, unless a timer is due or a killed process not yet reaped.
ClientTicks == read = "asked" /\ clock < ClientTimeout
ToolTicks == child = "smartctl" /\ toolClock < ToolTimeout
Tick ==
    /\ ClientTicks \/ ToolTicks
    /\ read = "asked" => ClientTicks
    /\ child = "smartctl" => ToolTicks
    /\ read # "reaping"
    /\ clock' = IF ClientTicks THEN clock + 1 ELSE clock
    /\ toolClock' = IF ToolTicks THEN toolClock + 1 ELSE toolClock
    /\ UNCHANGED <<machineVars, plugged, child, exit, out, clientVars>>

Client == ReadSmart \/ Communicate \/ TimesOut \/ Reaped
Helper == MatchDevice \/ StatNode \/ StartSmartctl \/ ToolTimesOut
Next == Client \/ Helper \/ PkexecStarts \/ Authorize \/ Refuse \/ SmartctlEnds
        \/ SmartctlDies \/ Unplug \/ Tick

Spec == Init /\ [][Next]_vars

\* The runner's coroutine and its timer are served and time goes on; nothing
\* is assumed of the user, of polkit, of smartctl or of the helper.
FairSpec ==
    /\ Spec
    /\ WF_vars(Communicate \/ TimesOut \/ Reaped)
    /\ WF_vars(ToolTimesOut) /\ WF_vars(Tick)

-----------------------------------------------------------------------------
(* Properties.                                                             *)

TypeOK ==
    /\ installed \in SUBSET Piece
    /\ kept \in BOOLEAN /\ plugged \in BOOLEAN
    /\ disk \in Contract!SmartReport
    /\ child \in Child /\ exit \in Exit
    /\ out \in Output \cup {NoOutput}
    /\ read \in {"idle", "asked", "reaping", "answered"}
    /\ answer \in Contract!Answer \cup {Contract!NoAnswer}
    /\ clock \in 0 .. ClientTimeout /\ toolClock \in 0 .. ToolTimeout

\* Output the helper can pass on: bits 2-7 of smartctl's exit status are
\* findings beside good JSON (lapcare_helper.py, ADR-0006 section 12).
Usable(o) == "fatal" \notin o.bits /\ o.json = "object" /\ o.size <= HelperCap

\* Only a late report is lost: once smartctl wrote usable JSON, whatever bits
\* its exit status has, read_smart does not say parse error, declined or
\* missing tool; and a report it returns is that of the disk.
FailingDiskIsData ==
    read = "answered" =>
        /\ out # NoOutput /\ Usable(out) => answer.kind \in {"report", "timeout", "oserror"}
        /\ answer.kind = "report" => Usable(out) /\ answer.report = disk

\* read_smart names a missing package only when that package is missing: the
\* two size limits, the helper's codes and pkexec's exits do not get mixed up.
BlameRightPiece ==
    /\ answer.kind = "no pkexec" => "pkexec" \notin installed
    /\ answer.kind = "no helper" => "helper" \notin installed
    /\ answer.kind = "no smartmontools" => "smartmontools" \notin installed

\* The read keeps StorageProvider.read_smart's contract: one answer, the
\* disk's own report or one of the failures the callers handle.
ImplementsSmartRead == Contract!Spec

\* However long the user leaves the dialog open and smartctl hangs, the
\* mandatory timeout of run_tool ends the read.
ReadEnds == read = "asked" ~> read = "answered"

\* The runner promises ToolTimeout to the provider, and the provider a core
\* error to its callers: a read that gives up on a child says "timeout".
GivesUpWithTimeout ==
    read = "answered" /\ child \in RootChild => answer.kind = "timeout"

\* Without the helper the missing piece is named, nobody is said to have
\* declined anything.
MissingHelperNamed ==
    "pkexec" \in installed /\ "helper" \notin installed => answer.kind # "denied"
=============================================================================
