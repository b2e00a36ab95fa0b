------------------------------ MODULE SmartRead ------------------------------
(***************************************************************************)
(* The promise of StorageProvider.read_smart to its three callers (storage *)
(* page, diagnostics, dashboard): one question about one disk, one answer, *)
(* which is the disk's own report or one of a few failures.  "oserror" is  *)
(* the one failure that is not a core.errors exception.                    *)
(***************************************************************************)
EXTENDS SmartAnswers

VARIABLES
    disk,       \* what the disk has to say of itself
    read,       \* the one read: "idle", "asked" or "answered"
    answer      \* what the coroutine returned or raised

vars == <<disk, read, answer>>

Init ==
    /\ disk \in SmartReport
    /\ read = "idle"
    /\ answer = NoAnswer

Ask ==
    /\ read = "idle"
    /\ read' = "asked"
    /\ UNCHANGED <<disk, answer>>

\* The coroutine ends, perhaps before it waited for anything.
Reply ==
    /\ read # "answered"
    /\ read' = "answered"
    /\ answer' \in {Reported(disk)} \cup {Failed(f) : f \in Failure}
    /\ UNCHANGED disk

Next == Ask \/ Reply

Spec == Init /\ [][Next]_vars
=============================================================================
