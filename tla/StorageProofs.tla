---------------------------- MODULE StorageProofs ----------------------------
(***************************************************************************)
(* Proofs about the storage page and the read it makes of each disk.       *)
(*                                                                         *)
(* PrivilegedRead, for any time limits and size limits: its types, the two *)
(* properties of its answers, that every step is a step of the contract    *)
(* SmartRead or leaves it alone, and that a read has a bounded number of   *)
(* steps and never waits for the user or smartctl alone.  StoragePage, for *)
(* any number of disks that come, go and fail between the reads of a run:  *)
(* its types and what a run leaves on the cards and asks of the user.      *)
(***************************************************************************)
EXTENDS PrivilegedRead, StoragePage, TLAPS

-----------------------------------------------------------------------------
(* PrivilegedRead.                                                         *)

\* A child past pkexec's own checks means the helper is there; its exit and
\* smartctl's output tell the same story; a settled answer is not followed by
\* new output.
ChildFits ==
    /\ child # "none" => "pkexec" \in installed
    /\ child \in RootChild \cup {"dialog"} => "helper" \in installed
    /\ exit = "other" => "helper" \notin installed
    /\ exit = "tool-missing" => "smartmontools" \notin installed
    /\ exit # "none" => child = "exited"
    /\ out # NoOutput => exit = Checks(out) /\ child = "exited"
    /\ exit = "good" => out \in Output /\ Checks(out) = "good"
    /\ read = "answered" /\ answer.kind \notin {"timeout", "oserror"}
         => child \in {"none", "exited"}
    /\ read # "answered" => answer = Contract!NoAnswer
    /\ read = "idle" => child = "none"
    /\ child = "killed" => read # "asked"

Inv == TypeOK /\ ChildFits /\ FailingDiskIsData /\ BlameRightPiece

\* The limits are numbers.
LEMMA Limits ==
    /\ ClientTimeout \in Nat /\ ToolTimeout \in Nat
    /\ HelperCap \in Nat /\ RunnerCap \in Nat /\ MaxSize \in Nat /\ HelperCap <= RunnerCap
BY TimeoutAssumption, CapAssumption

\* Failures are answers, and their kind is the failure.
LEMMA FailedKind ==
    ASSUME NEW f
    PROVE  /\ Contract!Failed(f).kind = f
           /\ f \in Contract!Failure => Contract!Failed(f) \in Contract!Answer
BY DEF Contract!Failed, Contract!Answer

\* Reports are answers.
LEMMA ReportedKind ==
    ASSUME NEW r
    PROVE  /\ Contract!Reported(r).kind = "report"
           /\ Contract!Reported(r).report = r
           /\ r \in Contract!SmartReport => Contract!Reported(r) \in Contract!Answer
BY DEF Contract!Reported, Contract!Answer

\* No output is not some output, and what the helper's checks say of it.
LEMMA OutputFacts ==
    /\ NoOutput \notin Output
    /\ \A o \in Output : Checks(o) \in Exit \ {"none", "other", "tool-missing"}
    /\ \A o \in Output : Usable(o) => Checks(o) = "good"
    /\ \A o \in Output :
         Checks(o) = "good" => o.size <= RunnerCap /\ (o.json = "object" => Usable(o))
<1>1. NoOutput \notin Output
  BY DEF NoOutput, Output, Json
<1>2. \A o \in Output : Checks(o) \in Exit \ {"none", "other", "tool-missing"}
  BY DEF Checks, Exit, HelperCode
<1>3. \A o \in Output : Usable(o) => Checks(o) = "good"
  <2> SUFFICES ASSUME NEW o \in Output, Usable(o)
               PROVE  Checks(o) = "good"
    OBVIOUS
  <2>1. o.size \in Nat
    BY Limits DEF Output
  <2> QED
    BY <2>1, Limits DEF Checks, Usable
<1>4. ASSUME NEW o \in Output, Checks(o) = "good"
      PROVE  o.size <= RunnerCap /\ (o.json = "object" => Usable(o))
  <2>1. o.size \in Nat
    BY Limits DEF Output
  <2> QED
    BY <1>4, <2>1, Limits DEF Checks, Usable
<1> QED
  BY <1>1, <1>2, <1>3, <1>4

\* Every error of pkexec, the helper and smartctl has a core error.
LEMMA TranslatedFacts ==
    ASSUME NEW e \in Exit
    PROVE  /\ Translated(e) \in {"denied", "no smartmontools", "timeout", "no helper", "parse"}
           /\ Translated(e) = "no helper" => e = "other"
           /\ Translated(e) = "no smartmontools" => e = "tool-missing"
BY DEF Translated, Exit, HelperCode

\* The state StorageSmartPkexec starts in.
LEMMA InvInit == Init => Inv
<1> SUFFICES ASSUME Init PROVE Inv
  OBVIOUS
<1>1. TypeOK
  BY Limits DEF Init, TypeOK, Child, Exit
<1>2. Contract!NoAnswer.kind = "none"
  BY FailedKind DEF Contract!NoAnswer
<1>3. ChildFits
  BY DEF Init, ChildFits, RootChild
<1>4. FailingDiskIsData /\ BlameRightPiece
  BY <1>2 DEF Init, FailingDiskIsData, BlameRightPiece
<1> QED
  BY <1>1, <1>3, <1>4 DEF Inv

\* What the runner and the provider answer keeps the invariant.
LEMMA ClientStep ==
    ASSUME Inv, Client
    PROVE  Inv'
<1> USE DEF machineVars, clockVars
<1>1. CASE ReadSmart
  <2>1. Contract!Failed("no pkexec") \in Contract!Answer
        /\ Contract!Failed("no pkexec").kind = "no pkexec"
    BY FailedKind DEF Contract!Failure, Contract!CoreError, Contract!Unavailable
  <2>2. TypeOK'
    BY <1>1, <2>1 DEF Inv, TypeOK, ReadSmart, Fails, Answers, Child, UserChild
  <2>3. ChildFits'
    BY <1>1, <2>1 DEF Inv, ChildFits, ReadSmart, Fails, Answers, RootChild, Checks
  <2>4. FailingDiskIsData'
    BY <1>1, <2>1 DEF Inv, ChildFits, FailingDiskIsData, ReadSmart, Fails, Answers, Usable, Checks
  <2>5. BlameRightPiece'
    BY <1>1, <2>1 DEF Inv, BlameRightPiece, ReadSmart, Fails, Answers
  <2> QED
    BY <2>2, <2>3, <2>4, <2>5 DEF Inv
<1>2. CASE Communicate
  <2> DEFINE f == Translated(exit)
  <2>1. CASE exit = "good"
    <3>1. out \in Output /\ out.size <= RunnerCap /\ (out.json = "object" => Usable(out))
      BY <2>1, OutputFacts DEF Inv, ChildFits
    <3>2. out.size \in Nat
      BY <3>1, Limits DEF Output
    <3>3. answer' = IF out.json = "object" THEN Contract!Reported(disk) ELSE Contract!Failed("parse")
      <4>1. ~(out.size > RunnerCap)
        BY <3>1, <3>2, Limits
      <4>2. Parsed = IF out.json = "object" THEN Contract!Reported(disk) ELSE Contract!Failed("parse")
        BY <4>1 DEF Parsed
      <4>3. answer' = Parsed
        BY <1>2, <2>1 DEF Communicate, Answers
      <4> QED
        BY <4>2, <4>3
    <3>4. Contract!Reported(disk) \in Contract!Answer /\ Contract!Failed("parse") \in Contract!Answer
      BY ReportedKind, FailedKind DEF Inv, TypeOK, Contract!Failure, Contract!CoreError
    <3>5. /\ answer'.kind \in {"report", "parse"}
          /\ answer'.kind = "report" => out.json = "object" /\ answer'.report = disk
      BY <3>3, ReportedKind, FailedKind
    <3>6. TypeOK'
      BY <1>2, <3>3, <3>4 DEF Inv, TypeOK, Communicate, Answers
    <3>7. ChildFits'
      BY <1>2 DEF Inv, ChildFits, Communicate, Answers, RootChild, Checks
    <3>8. FailingDiskIsData'
      <4>1. Usable(out) => answer'.kind = "report"
        BY <3>3, ReportedKind DEF Usable
      <4> QED
        BY <1>2, <3>1, <3>5, <4>1 DEF FailingDiskIsData, Communicate, Answers, Usable
    <3>9. BlameRightPiece'
      BY <1>2, <3>5 DEF BlameRightPiece, Communicate
    <3> QED
      BY <3>6, <3>7, <3>8, <3>9 DEF Inv
  <2>2. CASE exit # "good"
    <3>1. /\ f \in {"denied", "no smartmontools", "timeout", "no helper", "parse"}
          /\ f = "no helper" => exit = "other"
          /\ f = "no smartmontools" => exit = "tool-missing"
      BY TranslatedFacts DEF Inv, TypeOK
    <3>2. answer' = Contract!Failed(f)
      BY <1>2, <2>2 DEF Communicate, Answers
    <3>3. Contract!Failed(f) \in Contract!Answer /\ answer'.kind = f
      BY <3>1, <3>2, FailedKind DEF Contract!Failure, Contract!CoreError, Contract!Unavailable
    <3>4. TypeOK'
      BY <1>2, <3>2, <3>3 DEF Inv, TypeOK, Communicate, Answers
    <3>5. ChildFits'
      BY <1>2 DEF Inv, ChildFits, Communicate, Answers, RootChild, Checks
    <3>6. ~(out # NoOutput /\ Usable(out))
      BY <2>2, OutputFacts DEF Inv, TypeOK, ChildFits
    <3>7. FailingDiskIsData'
      BY <1>2, <3>1, <3>3, <3>6 DEF FailingDiskIsData, Communicate, Usable
    <3>8. BlameRightPiece'
      BY <1>2, <3>1, <3>3 DEF Inv, ChildFits, BlameRightPiece, Communicate
    <3> QED
      BY <3>4, <3>5, <3>7, <3>8 DEF Inv
  <2> QED
    BY <2>1, <2>2
<1>3. CASE TimesOut
  <2>1. \A f \in {"timeout", "oserror"} :
          Contract!Failed(f) \in Contract!Answer /\ Contract!Failed(f).kind = f
    BY FailedKind DEF Contract!Failure, Contract!CoreError
  <2>2. \/ child' = "killed" /\ read' = "reaping" /\ answer' = answer /\ child \in UserChild
        \/ /\ child' = child /\ read' = "answered"
           /\ \E f \in {"timeout", "oserror"} : answer' = Contract!Failed(f)
    BY <1>3 DEF TimesOut, Fails, Answers
  <2>3. TypeOK'
    BY <1>3, <2>1, <2>2 DEF Inv, TypeOK, TimesOut, Child
  <2>4. read' = "answered" => answer'.kind \in {"timeout", "oserror"}
    BY <2>1, <2>2
  <2>5. ChildFits'
    BY <1>3, <2>2, <2>4 DEF Inv, ChildFits, TimesOut, RootChild, UserChild, Checks
  <2>6. FailingDiskIsData'
    BY <1>3, <2>4 DEF FailingDiskIsData, TimesOut
  <2>7. BlameRightPiece'
    BY <1>3, <2>1, <2>2 DEF Inv, BlameRightPiece, TimesOut
  <2> QED
    BY <2>3, <2>5, <2>6, <2>7 DEF Inv
<1>4. CASE Reaped
  <2>1. Contract!Failed("timeout") \in Contract!Answer
        /\ Contract!Failed("timeout").kind = "timeout"
    BY FailedKind DEF Contract!Failure, Contract!CoreError
  <2>2. TypeOK'
    BY <1>4, <2>1 DEF Inv, TypeOK, Reaped, Fails, Answers
  <2>3. ChildFits'
    BY <1>4, <2>1 DEF Inv, ChildFits, Reaped, Fails, Answers, RootChild, Checks
  <2>4. FailingDiskIsData' /\ BlameRightPiece'
    BY <1>4, <2>1 DEF FailingDiskIsData, BlameRightPiece, Reaped, Fails, Answers
  <2> QED
    BY <2>2, <2>3, <2>4 DEF Inv
<1> QED
  BY <1>1, <1>2, <1>3, <1>4 DEF Client

\* A child that goes on or ends, apart from smartctl's own end: the answer
\* does not change, and no output appears.
LEMMA ChildMoves ==
    ASSUME Inv, UNCHANGED <<installed, disk, out, read, answer>>,
           child \notin {"none", "exited", "killed"},
           \/ /\ child' \in RootChild \cup {"dialog"} /\ exit' = exit
              /\ "helper" \in installed
           \/ /\ child' = "exited"
              /\ exit' \in Exit \ {"none", "good"}
              /\ exit' = "other" => "helper" \notin installed
              /\ exit' = "tool-missing" => "smartmontools" \notin installed
    PROVE  ChildFits' /\ FailingDiskIsData' /\ BlameRightPiece'
<1>1. out = NoOutput /\ "pkexec" \in installed
  BY DEF Inv, ChildFits
<1>2. ChildFits'
  BY <1>1 DEF Inv, ChildFits, RootChild
<1>3. FailingDiskIsData' /\ BlameRightPiece'
  BY DEF Inv, FailingDiskIsData, BlameRightPiece, Usable
<1> QED
  BY <1>2, <1>3

\* Every step of pkexec, the helper, smartctl, the user and time.
LEMMA OtherStep ==
    ASSUME Inv,
           Helper \/ PkexecStarts \/ Authorize \/ Refuse \/ SmartctlEnds
             \/ SmartctlDies \/ Unplug \/ Tick
    PROVE  Inv'
<1> USE DEF machineVars, clientVars, clockVars, helperFrame, Exits, Becomes
<1>1. CASE MatchDevice
  <2>1. TypeOK'
    BY <1>1 DEF Inv, TypeOK, MatchDevice, Child, RootChild, Exit, HelperCode
  <2>2. "helper" \in installed
    BY <1>1 DEF Inv, ChildFits, MatchDevice, RootChild
  <2>3. ChildFits' /\ FailingDiskIsData' /\ BlameRightPiece'
    BY <1>1, <2>2, ChildMoves DEF MatchDevice, RootChild, Exit, HelperCode
  <2> QED
    BY <2>1, <2>3 DEF Inv
<1>2. CASE StatNode
  <2>1. TypeOK'
    BY <1>2 DEF Inv, TypeOK, StatNode, Child, RootChild, Exit, HelperCode
  <2>2. "helper" \in installed
    BY <1>2 DEF Inv, ChildFits, StatNode, RootChild
  <2>3. ChildFits' /\ FailingDiskIsData' /\ BlameRightPiece'
    BY <1>2, <2>2, ChildMoves DEF StatNode, RootChild, Exit, HelperCode
  <2> QED
    BY <2>1, <2>3 DEF Inv
<1>3. CASE StartSmartctl
  <2>1. TypeOK'
    <3>1. toolClock' \in 0 .. ToolTimeout
      BY <1>3, Limits DEF Inv, TypeOK, StartSmartctl
    <3>2. child' \in Child /\ exit' \in Exit
      BY <1>3 DEF Inv, TypeOK, StartSmartctl, Child, RootChild, Exit, HelperCode
    <3> QED
      BY <1>3, <3>1, <3>2 DEF Inv, TypeOK, StartSmartctl
  <2>2. "helper" \in installed
    BY <1>3 DEF Inv, ChildFits, StartSmartctl, RootChild
  <2>3. ChildFits' /\ FailingDiskIsData' /\ BlameRightPiece'
    BY <1>3, <2>2, ChildMoves DEF StartSmartctl, RootChild, Exit, HelperCode
  <2> QED
    BY <2>1, <2>3 DEF Inv
<1>4. CASE ToolTimesOut
  <2>1. TypeOK'
    BY <1>4 DEF Inv, TypeOK, ToolTimesOut, Child, RootChild
  <2>2. "helper" \in installed
    BY <1>4 DEF Inv, ChildFits, ToolTimesOut, RootChild
  <2>3. ChildFits' /\ FailingDiskIsData' /\ BlameRightPiece'
    BY <1>4, <2>2, ChildMoves DEF ToolTimesOut, RootChild
  <2> QED
    BY <2>1, <2>3 DEF Inv
<1>5. CASE PkexecStarts
  <2>1. TypeOK'
    BY <1>5 DEF Inv, TypeOK, PkexecStarts, Child, RootChild, UserChild, Exit
  <2>2. ChildFits' /\ FailingDiskIsData' /\ BlameRightPiece'
    BY <1>5, ChildMoves DEF PkexecStarts, RootChild, Exit
  <2> QED
    BY <2>1, <2>2 DEF Inv
<1>6. CASE Authorize
  <2>1. TypeOK'
    BY <1>6 DEF Inv, TypeOK, Authorize, Child, RootChild
  <2>2. "helper" \in installed
    BY <1>6 DEF Inv, ChildFits, Authorize
  <2>3. ChildFits' /\ FailingDiskIsData' /\ BlameRightPiece'
    BY <1>6, <2>2, ChildMoves DEF Authorize, RootChild
  <2> QED
    BY <2>1, <2>3 DEF Inv
<1>7. CASE Refuse
  <2>1. TypeOK'
    BY <1>7 DEF Inv, TypeOK, Refuse, Child, Exit
  <2>2. ChildFits' /\ FailingDiskIsData' /\ BlameRightPiece'
    BY <1>7, ChildMoves DEF Refuse, Exit
  <2> QED
    BY <2>1, <2>2 DEF Inv
<1>8. CASE SmartctlEnds
  <2>1. PICK o \in Output : out' = o /\ child' = "exited" /\ exit' = Checks(o)
    BY <1>8 DEF SmartctlEnds
  <2>2. Checks(o) \in Exit \ {"none", "other", "tool-missing"}
    BY OutputFacts
  <2>3. TypeOK'
    BY <1>8, <2>1, <2>2 DEF Inv, TypeOK, SmartctlEnds, Child
  <2>4. "pkexec" \in installed /\ child = "smartctl"
    BY <1>8 DEF Inv, ChildFits, SmartctlEnds
  <2>5. read # "answered" \/ answer.kind \in {"timeout", "oserror"}
    BY <2>4 DEF Inv, ChildFits
  <2>6. ChildFits'
    BY <1>8, <2>1, <2>2, <2>4 DEF Inv, ChildFits, SmartctlEnds, RootChild, Checks
  <2>7. FailingDiskIsData' /\ BlameRightPiece'
    BY <1>8, <2>5 DEF Inv, FailingDiskIsData, BlameRightPiece, SmartctlEnds
  <2> QED
    BY <2>3, <2>6, <2>7 DEF Inv
<1>9. CASE SmartctlDies
  <2>1. TypeOK'
    BY <1>9 DEF Inv, TypeOK, SmartctlDies, Child, Exit, HelperCode
  <2>2. ChildFits' /\ FailingDiskIsData' /\ BlameRightPiece'
    BY <1>9, ChildMoves DEF SmartctlDies, Exit, HelperCode
  <2> QED
    BY <2>1, <2>2 DEF Inv
<1>10. CASE Unplug
  <2>1. TypeOK'
    BY <1>10 DEF Inv, TypeOK, Unplug
  <2>2. ChildFits' /\ FailingDiskIsData' /\ BlameRightPiece'
    <3>1. UNCHANGED <<installed, disk, child, exit, out, read, answer>>
      BY <1>10 DEF Unplug, machineVars, clientVars
    <3>2. ChildFits'
      BY <3>1 DEF Inv, ChildFits, Checks
    <3>3. FailingDiskIsData'
      BY <3>1 DEF Inv, FailingDiskIsData, Usable
    <3>4. BlameRightPiece'
      BY <3>1 DEF Inv, BlameRightPiece
    <3> QED
      BY <3>2, <3>3, <3>4
  <2> QED
    BY <2>1, <2>2 DEF Inv
<1>11. CASE Tick
  <2>1. clock' \in 0 .. ClientTimeout /\ toolClock' \in 0 .. ToolTimeout
    BY <1>11, Limits DEF Inv, TypeOK, Tick, ClientTicks, ToolTicks
  <2>2. TypeOK'
    BY <1>11, <2>1 DEF Inv, TypeOK, Tick
  <2>3. ChildFits' /\ FailingDiskIsData' /\ BlameRightPiece'
    <3>1. UNCHANGED <<installed, disk, child, exit, out, read, answer>>
      BY <1>11 DEF Tick, machineVars, clientVars
    <3>2. ChildFits'
      BY <3>1 DEF Inv, ChildFits, Checks
    <3>3. FailingDiskIsData'
      BY <3>1 DEF Inv, FailingDiskIsData, Usable
    <3>4. BlameRightPiece'
      BY <3>1 DEF Inv, BlameRightPiece
    <3> QED
      BY <3>2, <3>3, <3>4
  <2> QED
    BY <2>2, <2>3 DEF Inv
<1> QED
  BY <1>1, <1>2, <1>3, <1>4, <1>5, <1>6, <1>7, <1>8, <1>9, <1>10, <1>11 DEF Helper

\* The invariant survives every step of the read and of its surroundings.
LEMMA InvStep == Inv /\ [Next]_vars => Inv'
<1> SUFFICES ASSUME Inv, [Next]_vars PROVE Inv'
  OBVIOUS
<1>1. CASE Next
  BY <1>1, ClientStep, OtherStep DEF Next
<1>2. CASE UNCHANGED vars
  <2>1. TypeOK'
    BY <1>2 DEF vars, Inv, TypeOK
  <2>2. ChildFits'
    BY <1>2 DEF vars, Inv, ChildFits, Checks
  <2>3. FailingDiskIsData' /\ BlameRightPiece'
    BY <1>2 DEF vars, Inv, FailingDiskIsData, BlameRightPiece, Usable
  <2> QED
    BY <2>1, <2>2, <2>3 DEF Inv
<1> QED
  BY <1>1, <1>2

\* The inductive invariant: what the runner knows of a child at any moment of
\* run_tool, _smart_report and _translate_failure.
THEOREM ReadInvHolds == Spec => []Inv
<1> QED
  BY InvInit, InvStep, PTL DEF Spec

\* Every variable of the read keeps its type; the clocks stop at the limits
\* of run_tool and of the helper.
THEOREM ReadTypeCorrect == Spec => []TypeOK
<1>1. Inv => TypeOK
  BY DEF Inv
<1> QED
  BY <1>1, ReadInvHolds, PTL

\* For any limits, no usable report of smartctl ends as a parse error, a
\* declined prompt or a missing package, and a report returned is the disk's.
THEOREM FailingDiskReported == Spec => []FailingDiskIsData
<1>1. Inv => FailingDiskIsData
  BY DEF Inv
<1> QED
  BY <1>1, ReadInvHolds, PTL

\* read_smart never names a package that is installed, as long as the helper
\* passes no more than the runner takes (CapAssumption).
THEOREM RightPieceBlamed == Spec => []BlameRightPiece
<1>1. Inv => BlameRightPiece
  BY DEF Inv
<1> QED
  BY <1>1, ReadInvHolds, PTL

\* What the client does is one step of the contract or none.
LEMMA ClientRefines ==
    ASSUME Inv, Client
    PROVE  [Contract!Next]_(Contract!vars)
<1> USE DEF machineVars, clockVars, Contract!Next, Contract!vars
<1>1. CASE ReadSmart
  BY <1>1 DEF ReadSmart, Fails, Answers, Contract!Ask, Contract!Reply, Contract!Failure,
              Contract!CoreError, Contract!Unavailable
<1>2. CASE Communicate
  <2>1. answer' \in {Contract!Reported(disk)} \cup {Contract!Failed(f) : f \in Contract!Failure}
    <3>1. Parsed \in {Contract!Reported(disk)} \cup {Contract!Failed(f) : f \in Contract!Failure}
      BY DEF Parsed, Contract!Failure, Contract!CoreError, Contract!Unavailable
    <3>2. Translated(exit) \in Contract!Failure
      BY TranslatedFacts DEF Inv, TypeOK, Contract!Failure, Contract!CoreError,
        Contract!Unavailable
    <3> QED
      BY <1>2, <3>1, <3>2 DEF Communicate, Answers
  <2> QED
    BY <1>2, <2>1 DEF Communicate, Answers, Contract!Reply
<1>3. CASE TimesOut
  BY <1>3 DEF TimesOut, Fails, Answers, Contract!Reply, Contract!Failure, Contract!CoreError
<1>4. CASE Reaped
  BY <1>4 DEF Reaped, Fails, Answers, Contract!Reply, Contract!Failure, Contract!CoreError
<1> QED
  BY <1>1, <1>2, <1>3, <1>4 DEF Client

\* StorageSmartPkexec implements StorageProvider.read_smart, for any limits:
\* one answer, the disk's own report or a failure the contract lists.
THEOREM ReadImplementsContract == Spec => ImplementsSmartRead
<1>1. Init => Contract!Init
  BY DEF Init, Contract!Init
<1>2. Inv /\ [Next]_vars => [Contract!Next]_(Contract!vars)
  <2> SUFFICES ASSUME Inv, [Next]_vars
               PROVE  [Contract!Next]_(Contract!vars)
    OBVIOUS
  <2>1. CASE Client
    BY <2>1, ClientRefines
  <2>2. CASE UNCHANGED <<disk, read, answer>>
    BY <2>2 DEF Contract!vars
  <2> QED
    BY <2>1, <2>2 DEF Next, vars, machineVars, clientVars, helperFrame, Helper, PkexecStarts,
      Authorize,
       Refuse, MatchDevice, StatNode, StartSmartctl, SmartctlEnds, ToolTimesOut, SmartctlDies, Unplug, Tick
<1> QED
  BY <1>1, <1>2, ReadInvHolds, PTL DEF Spec, ImplementsSmartRead, Contract!Spec

-----------------------------------------------------------------------------
(* PrivilegedRead: how long a read can last.                               *)

\* smartctl's clock runs only while smartctl does, and a read that waits has
\* a child to wait for.
Timers ==
    /\ child \in {"none", "match", "node", "tool"} \cup UserChild => toolClock = 0
    /\ read = "asked" => child # "none"
    /\ read = "reaping" => child = "killed"

LiveInv == Inv /\ Timers

\* What the steps FairSpec is fair to wait for: an exited child, the runner's
\* timer, the helper's, a tick, and the death of a killed child.
CanAnswer == read = "asked" /\ child = "exited"
RunnerIsDue == read = "asked" /\ clock = ClientTimeout /\ child \in UserChild \cup RootChild
HelperIsDue == child = "smartctl" /\ toolClock = ToolTimeout
CanTick == ClientTicks /\ (child = "smartctl" => ToolTicks)

\* A read under way is never left waiting for the user, polkit or smartctl
\* alone: one of those steps is possible.
GoesOn ==
    /\ read = "asked" => CanAnswer \/ RunnerIsDue \/ HelperIsDue \/ CanTick
    /\ read = "reaping" => child = "killed"

\* The steps left to the coroutine, to the child, and to the clocks.
ReadLeft ==
    CASE read = "idle" -> 3
      [] read = "asked" -> 2
      [] read = "reaping" -> 1
      [] OTHER -> 0
ChildLeft ==
    CASE child = "none" -> 8
      [] child = "pkexec" -> 7
      [] child = "dialog" -> 6
      [] child = "match" -> 5
      [] child = "node" -> 4
      [] child = "tool" -> 3
      [] child = "smartctl" -> 2
      [] child = "killing" -> 1
      [] OTHER -> 0
ClientLeft == ClientTimeout - clock
ToolLeft == ToolTimeout - toolClock
ClocksLeft == ClientLeft + ToolLeft
PlugLeft == IF plugged THEN 1 ELSE 0
StepsLeft == ReadLeft + ChildLeft + ClocksLeft + PlugLeft

StepsBounded == StepsLeft \in 0 .. ClientTimeout + ToolTimeout + 12

\* Each step of read_smart, pkexec, the helper, the disk and time leaves
\* fewer of them.
StepsRunOut == [][StepsLeft' < StepsLeft]_vars

\* When the read is submitted no clock has run.
LEMMA LiveInit == Init => LiveInv
<1>1. Init => Timers
  BY DEF Init, Timers
<1> QED
  BY <1>1, InvInit DEF LiveInv

\* The clocks stay within what the child and the coroutine are doing.
LEMMA LiveStep == LiveInv /\ [Next]_vars => LiveInv'
<1> SUFFICES ASSUME LiveInv, [Next]_vars PROVE LiveInv'
  OBVIOUS
<1> USE DEF machineVars, clientVars, clockVars, helperFrame, Exits, Becomes, LiveInv, Timers
<1>1. Inv'
  BY InvStep
<1>2. CASE ReadSmart
  BY <1>1, <1>2 DEF ReadSmart, Fails, Answers, UserChild, Inv, ChildFits
<1>3. CASE Communicate
  BY <1>1, <1>3 DEF Communicate, Answers
<1>4. CASE TimesOut
  BY <1>1, <1>4 DEF TimesOut, Fails, Answers, UserChild
<1>5. CASE Reaped
  BY <1>1, <1>5 DEF Reaped, Fails, Answers
<1>6. CASE MatchDevice
  BY <1>1, <1>6 DEF MatchDevice, UserChild
<1>7. CASE StatNode
  BY <1>1, <1>7 DEF StatNode, UserChild
<1>8. CASE StartSmartctl
  BY <1>1, <1>8 DEF StartSmartctl, UserChild
<1>9. CASE ToolTimesOut
  BY <1>1, <1>9 DEF ToolTimesOut, UserChild
<1>10. CASE PkexecStarts
  BY <1>1, <1>10 DEF PkexecStarts, UserChild
<1>11. CASE Authorize \/ Refuse
  BY <1>1, <1>11 DEF Authorize, Refuse, UserChild
<1>12. CASE SmartctlEnds \/ SmartctlDies
  BY <1>1, <1>12 DEF SmartctlEnds, SmartctlDies, UserChild
<1>13. CASE Unplug
  BY <1>1, <1>13 DEF Unplug
<1>14. CASE Tick
  BY <1>1, <1>14 DEF Tick, ToolTicks, UserChild
<1>15. CASE UNCHANGED vars
  BY <1>1, <1>15 DEF vars
<1> QED
  BY <1>2, <1>3, <1>4, <1>5, <1>6, <1>7, <1>8, <1>9, <1>10, <1>11, <1>12, <1>13, <1>14, <1>15
  DEF Next, Client, Helper

\* The steps left are counted by natural numbers.
LEMMA LeftIsNat ==
    ASSUME TypeOK
    PROVE  ReadLeft \in 0 .. 3 /\ ChildLeft \in 0 .. 8
           /\ ClocksLeft \in 0 .. ClientTimeout + ToolTimeout /\ StepsBounded
<1>1. ReadLeft \in 0 .. 3
  BY DEF ReadLeft
<1>2. ChildLeft \in 0 .. 8
  BY DEF ChildLeft
<1>3. ClocksLeft \in 0 .. ClientTimeout + ToolTimeout
  BY Limits DEF TypeOK, ClocksLeft, ClientLeft, ToolLeft
<1>4. PlugLeft \in 0 .. 1
  BY DEF PlugLeft
<1> QED
  BY <1>1, <1>2, <1>3, <1>4, Limits DEF StepsBounded, StepsLeft

\* A sum of four numbers shrinks when one of them does and none grows.
LEMMA SumShrinks ==
    ASSUME NEW a \in Nat, NEW b \in Nat, NEW c \in Nat, NEW d \in Nat,
           NEW a2 \in Nat, NEW b2 \in Nat, NEW c2 \in Nat, NEW d2 \in Nat,
           a2 <= a, b2 <= b, c2 <= c, d2 <= d,
           a2 < a \/ b2 < b \/ c2 < c \/ d2 < d
    PROVE  a2 + b2 + c2 + d2 < a + b + c + d
OBVIOUS

\* And so does a sum of two.
LEMMA PairShrinks ==
    ASSUME NEW a \in Nat, NEW b \in Nat, NEW a2 \in Nat, NEW b2 \in Nat,
           a2 <= a, b2 <= b, a2 < a \/ b2 < b
    PROVE  a2 + b2 \in Nat /\ a2 + b2 < a + b
OBVIOUS

\* A clock that goes on within its limit has less time left.
LEMMA TimeLeft ==
    ASSUME NEW limit \in Nat, NEW c \in 0 .. limit, NEW c2 \in 0 .. limit,
           c2 = c \/ c2 = c + 1
    PROVE  /\ limit - c \in Nat /\ limit - c2 \in Nat
           /\ limit - c2 <= limit - c
           /\ c2 = c + 1 => limit - c2 < limit - c
OBVIOUS

\* A step by which the coroutine or the child gets on, and that turns no clock
\* back, leaves fewer steps.
LEMMA GettingOn ==
    ASSUME TypeOK, TypeOK',
           plugged' = plugged, ClocksLeft' = ClocksLeft,
           \/ ReadLeft' < ReadLeft /\ ChildLeft' <= ChildLeft
           \/ ReadLeft' = ReadLeft /\ ChildLeft' < ChildLeft
    PROVE  StepsLeft' < StepsLeft
<1>1. ReadLeft \in Nat /\ ChildLeft \in Nat /\ ClocksLeft \in Nat
  BY LeftIsNat, Limits
<1>2. ReadLeft' \in Nat /\ ChildLeft' \in Nat
  <2>1. ReadLeft' \in Nat
    BY DEF ReadLeft
  <2>2. ChildLeft' \in Nat
    BY DEF ChildLeft
  <2> QED
    BY <2>1, <2>2
<1>3. PlugLeft \in Nat /\ PlugLeft' = PlugLeft
  BY DEF PlugLeft
<1>4. /\ ReadLeft' <= ReadLeft /\ ChildLeft' <= ChildLeft
      /\ ReadLeft' < ReadLeft \/ ChildLeft' < ChildLeft
  BY <1>1, <1>2
<1>5. ClocksLeft <= ClocksLeft /\ PlugLeft <= PlugLeft
  BY <1>1, <1>3
<1>6. ReadLeft' + ChildLeft' + ClocksLeft + PlugLeft
        < ReadLeft + ChildLeft + ClocksLeft + PlugLeft
  BY <1>1, <1>2, <1>3, <1>4, <1>5, SumShrinks
<1> QED
  BY <1>3, <1>6 DEF StepsLeft

\* What the runner and the provider do gets the coroutine on.
LEMMA ClientGetsOn ==
    ASSUME LiveInv, LiveInv', Client
    PROVE  StepsLeft' < StepsLeft
<1>1. TypeOK /\ TypeOK'
  BY DEF LiveInv, Inv
<1>2. plugged' = plugged /\ ClocksLeft' = ClocksLeft
  BY DEF Client, ReadSmart, Communicate, TimesOut, Reaped, clockVars, ClocksLeft, ClientLeft, ToolLeft
<1>3. ReadLeft' < ReadLeft
  <2>1. CASE ReadSmart
    <3>1. read = "idle" /\ read' \in {"asked", "answered"}
      BY <2>1 DEF ReadSmart, Fails, Answers
    <3> QED
      BY <3>1 DEF ReadLeft
  <2>2. CASE Communicate
    BY <2>2 DEF Communicate, Answers, ReadLeft
  <2>3. CASE TimesOut
    BY <2>3 DEF TimesOut, Fails, Answers, ReadLeft
  <2>4. CASE Reaped
    BY <2>4 DEF Reaped, Fails, Answers, ReadLeft
  <2> QED
    BY <2>1, <2>2, <2>3, <2>4 DEF Client
<1>4. \/ child' = child
      \/ child = "none" /\ child' = "pkexec"
      \/ child' = "killed"
  <2>1. CASE ReadSmart
    BY <2>1 DEF LiveInv, Inv, ChildFits, ReadSmart
  <2>2. CASE Communicate \/ Reaped
    BY <2>2 DEF Communicate, Reaped
  <2>3. CASE TimesOut
    BY <2>3 DEF TimesOut
  <2> QED
    BY <2>1, <2>2, <2>3 DEF Client
<1>5. ChildLeft' <= ChildLeft
  <2>1. CASE child' = child
    <3>1. ChildLeft' = ChildLeft
      BY <2>1 DEF ChildLeft
    <3> QED
      BY <3>1, <1>1, LeftIsNat
  <2>2. CASE child = "none" /\ child' = "pkexec"
    BY <2>2 DEF ChildLeft
  <2>3. CASE child' = "killed"
    <3>1. ChildLeft' = 0
      BY <2>3 DEF ChildLeft
    <3> QED
      BY <3>1, <1>1, LeftIsNat
  <2> QED
    BY <1>4, <2>1, <2>2, <2>3
<1> QED
  BY <1>1, <1>2, <1>3, <1>5, GettingOn

\* What pkexec, the user, the helper and smartctl do gets the child on.
LEMMA ChildGetsOn ==
    ASSUME LiveInv, LiveInv',
           Helper \/ PkexecStarts \/ Authorize \/ Refuse \/ SmartctlEnds \/ SmartctlDies
    PROVE  StepsLeft' < StepsLeft
<1> USE DEF machineVars, clientVars, clockVars, helperFrame, Exits, Becomes
<1>1. TypeOK /\ TypeOK'
  BY DEF LiveInv, Inv
<1>2. plugged' = plugged /\ read' = read /\ clock' = clock
  BY DEF Helper, MatchDevice, StatNode, StartSmartctl, ToolTimesOut, PkexecStarts, Authorize,
         Refuse, SmartctlEnds, SmartctlDies
<1>3. toolClock' = toolClock
  <2>1. CASE StartSmartctl
    BY <2>1 DEF StartSmartctl, LiveInv, Timers
  <2> QED
    BY <2>1 DEF Helper, MatchDevice, StatNode, ToolTimesOut, PkexecStarts, Authorize,
                Refuse, SmartctlEnds, SmartctlDies
<1>4. ReadLeft' = ReadLeft /\ ClocksLeft' = ClocksLeft
  BY <1>2, <1>3 DEF ReadLeft, ClocksLeft, ClientLeft, ToolLeft
<1>5. ChildLeft' < ChildLeft
  <2>1. CASE PkexecStarts
    <3>1. child = "pkexec" /\ child' \in {"exited", "match", "dialog"}
      BY <2>1 DEF PkexecStarts
    <3> QED
      BY <3>1 DEF ChildLeft
  <2>2. CASE Authorize
    BY <2>2 DEF Authorize, ChildLeft
  <2>3. CASE Refuse
    <3>1. child = "dialog" /\ child' = "exited"
      BY <2>3 DEF Refuse
    <3> QED
      BY <3>1 DEF ChildLeft
  <2>4. CASE MatchDevice
    BY <2>4 DEF MatchDevice, ChildLeft
  <2>5. CASE StatNode
    BY <2>5 DEF StatNode, ChildLeft
  <2>6. CASE StartSmartctl
    BY <2>6 DEF StartSmartctl, ChildLeft
  <2>7. CASE ToolTimesOut
    BY <2>7 DEF ToolTimesOut, ChildLeft
  <2>8. CASE SmartctlEnds
    BY <2>8 DEF SmartctlEnds, ChildLeft
  <2>9. CASE SmartctlDies
    BY <2>9 DEF SmartctlDies, ChildLeft
  <2> QED
    BY <2>1, <2>2, <2>3, <2>4, <2>5, <2>6, <2>7, <2>8, <2>9 DEF Helper
<1> QED
  BY <1>1, <1>2, <1>4, <1>5, GettingOn

\* The disk leaves once, and time stops at the two limits.
LEMMA TimeRunsOut ==
    ASSUME LiveInv, LiveInv', Unplug \/ Tick
    PROVE  StepsLeft' < StepsLeft
<1>1. ReadLeft' = ReadLeft /\ ChildLeft' = ChildLeft
  BY DEF Unplug, Tick, clientVars, ReadLeft, ChildLeft
<1>2. ReadLeft \in Nat /\ ChildLeft \in Nat /\ ClocksLeft \in Nat
  BY LeftIsNat, Limits DEF LiveInv, Inv
<1>3. ReadLeft <= ReadLeft /\ ChildLeft <= ChildLeft
  BY <1>2
<1>4. CASE Unplug
  <2>1. ClocksLeft' = ClocksLeft
    BY <1>4 DEF Unplug, clockVars, ClocksLeft, ClientLeft, ToolLeft
  <2>2. PlugLeft = 1 /\ PlugLeft' = 0
    BY <1>4 DEF Unplug, PlugLeft
  <2>3. ReadLeft + ChildLeft + ClocksLeft + 0 < ReadLeft + ChildLeft + ClocksLeft + 1
    BY <1>2
  <2> QED
    BY <1>1, <2>1, <2>2, <2>3 DEF StepsLeft
<1>5. CASE Tick
  <2>1. /\ clock \in 0 .. ClientTimeout /\ toolClock \in 0 .. ToolTimeout
        /\ clock' \in 0 .. ClientTimeout /\ toolClock' \in 0 .. ToolTimeout
    BY DEF LiveInv, Inv, TypeOK
  <2>2. /\ clock' \in {clock, clock + 1} /\ toolClock' \in {toolClock, toolClock + 1}
        /\ clock' = clock + 1 \/ toolClock' = toolClock + 1
    BY <1>5 DEF Tick
  <2>3. /\ ClientLeft \in Nat /\ ClientLeft' \in Nat /\ ClientLeft' <= ClientLeft
        /\ clock' = clock + 1 => ClientLeft' < ClientLeft
    BY <2>1, <2>2, Limits, TimeLeft DEF ClientLeft
  <2>4. /\ ToolLeft \in Nat /\ ToolLeft' \in Nat /\ ToolLeft' <= ToolLeft
        /\ toolClock' = toolClock + 1 => ToolLeft' < ToolLeft
    BY <2>1, <2>2, Limits, TimeLeft DEF ToolLeft
  <2>5. ClientLeft' < ClientLeft \/ ToolLeft' < ToolLeft
    BY <2>2, <2>3, <2>4
  <2>6. ClocksLeft' \in Nat /\ ClocksLeft' < ClocksLeft
    BY <2>3, <2>4, <2>5, PairShrinks DEF ClocksLeft
  <2>7. PlugLeft \in Nat /\ PlugLeft' = PlugLeft
    BY <1>5 DEF Tick, PlugLeft
  <2>8. ClocksLeft' <= ClocksLeft /\ PlugLeft <= PlugLeft
    BY <1>2, <2>6, <2>7
  <2>9. ReadLeft + ChildLeft + ClocksLeft' + PlugLeft
          < ReadLeft + ChildLeft + ClocksLeft + PlugLeft
    BY <1>2, <1>3, <2>6, <2>7, <2>8, SumShrinks
  <2> QED
    BY <1>1, <2>7, <2>9 DEF StepsLeft
<1> QED
  BY <1>4, <1>5

\* The clocks are those of the child: the inductive invariant of run_tool's and
\* the helper's timers.
THEOREM ReadLiveInvHolds == Spec => []LiveInv
<1> QED
  BY LiveInit, LiveStep, PTL DEF Spec

\* run_tool's mandatory timeout: while read_smart is under way the runner, the
\* helper's own timer or time itself can act, whatever the user, polkit and
\* smartctl leave undone.
THEOREM ReadGoesOn == Spec => []GoesOn
<1>1. LiveInv => GoesOn
  <2> SUFFICES ASSUME LiveInv PROVE GoesOn
    OBVIOUS
  <2>1. read = "reaping" => child = "killed"
    BY DEF LiveInv, Timers
  <2>2. ASSUME read = "asked", ~CanAnswer, ~RunnerIsDue
        PROVE  HelperIsDue \/ CanTick
    <3>1. child \in UserChild \cup RootChild
      BY <2>2 DEF LiveInv, Inv, TypeOK, ChildFits, Timers, Child, CanAnswer
    <3>2. clock < ClientTimeout
      BY <2>2, <3>1, Limits DEF LiveInv, Inv, TypeOK, RunnerIsDue
    <3>3. child = "smartctl" /\ toolClock # ToolTimeout => toolClock < ToolTimeout
      BY Limits DEF LiveInv, Inv, TypeOK
    <3> QED
      BY <2>2, <3>2, <3>3 DEF HelperIsDue, CanTick, ClientTicks, ToolTicks
  <2> QED
    BY <2>1, <2>2 DEF GoesOn
<1> QED
  BY <1>1, ReadLiveInvHolds, PTL

\* For any limits a read has at most ClientTimeout + ToolTimeout + 12 steps to
\* take ...
THEOREM ReadIsBounded == Spec => []StepsBounded
<1>1. LiveInv => StepsBounded
  BY LeftIsNat DEF LiveInv, Inv
<1> QED
  BY <1>1, ReadLiveInvHolds, PTL

\* ... and every step of read_smart, of its child and of time takes one off:
\* no retry, no timer that is set again.
THEOREM ReadRunsOut == Spec => StepsRunOut
<1>1. LiveInv /\ LiveInv' /\ [Next]_vars => [StepsLeft' < StepsLeft]_vars
  BY ClientGetsOn, ChildGetsOn, TimeRunsOut DEF Next
<1> QED
  BY <1>1, ReadLiveInvHolds, PTL DEF Spec, StepsRunOut

-----------------------------------------------------------------------------
(* StoragePage.                                                            *)

\* What the answers of a run have been so far, if it goes on.
Goes == {"report", "timeout", "parse"}

\* The page leaves its spinner once, with the inventory; nothing is submitted
\* from it before, and nothing else has been shown.
Loading ==
    /\ state = "loading" => shown = NoAnswers /\ job \in {"none", "inventory"}
    /\ job = "inventory" => state = "loading"

\* A run that goes on has read every card's disk before next, and none after.
RunSoFar ==
    /\ job \in {"smart", "smart done"} =>
         \A d \in cards : IF d < next THEN results[d].kind \in Goes ELSE results[d] = NoAnswer
    /\ job = "smart done" => next = Disks + 1

\* The answer that declined is that of the disk the run ended with.
Declined == \A d \in Disk : results[d].kind = "denied" => job = "denied" /\ d = next

PageInv == PageTypeOK /\ Loading /\ RunSoFar /\ Declined /\ CardsTellTheRun

-----------------------------------------------------------------------------
(* Answers and cards.                                                      *)

LEMMA AnswerShape ==
  ASSUME NEW a \in Answer \cup {NoAnswer}
  PROVE  /\ a.report \in SmartReport
         /\ a.kind \in {"report", "none"} \cup Failure
  <1>1. NoReport \in SmartReport
    BY DEF NoReport, SmartReport, Verdict
  <1>2. CASE \E r \in SmartReport : a = Reported(r)
    BY <1>2 DEF Reported
  <1>3. CASE \E f \in Failure \cup {"none"} : a = Failed(f)
    BY <1>1, <1>3 DEF Failed
  <1>4. QED
    BY <1>2, <1>3 DEF Answer, NoAnswer

LEMMA AnswersTyped ==
  ASSUME PageTypeOK, NEW d \in Disk PROVE AnswersFor(d) \subseteq Answer
  <1>1. health[d] \in SmartReport
    BY DEF PageTypeOK
  <1>2. QED
    BY <1>1 DEF AnswersFor, Answer

LEMMA NoAnswersTyped == NoAnswers \in [Disk -> Answer \cup {NoAnswer}]
  BY DEF NoAnswers

LEMMA NoAnswerKind == NoAnswer.kind = "none"
  BY DEF NoAnswer, Failed

LEMMA CardTyped ==
  ASSUME NEW old \in Card, NEW a \in Answer \cup {NoAnswer}
  PROVE  NewCard(old, a) \in Card
  <1>1. CASE a.kind = "report"
    BY <1>1, AnswerShape DEF NewCard, CardOf, Card, SmartReport
  <1>2. CASE a.kind # "report"
    BY <1>2 DEF NewCard, Card
  <1>3. QED
    BY <1>1, <1>2

LEMMA CardTells ==
  ASSUME NEW old \in Card, NEW a \in Answer \cup {NoAnswer}, a.kind \in Goes
  PROVE  /\ a.kind = "report" => NewCard(old, a) = CardOf(a.report, FALSE)
         /\ NewCard(old, a).note <=> a.kind \in {"timeout", "parse"}
  BY DEF NewCard, CardOf, Goes, Card

LEMMA EmptyCardTyped == EmptyCard \in Card /\ EmptyCard.note = FALSE
  BY DEF EmptyCard, Card, Verdict

-----------------------------------------------------------------------------
(* The invariant holds initially and is preserved.                         *)

LEMMA PageInitInv == ASSUME Disks \in Nat \ {0}, PageInit PROVE PageInv
  <1>1. PageTypeOK
    <2>1. busy \in BOOLEAN
      BY Zenon DEF PageInit
    <2>2. card \in [Disk -> Card]
      BY EmptyCardTyped DEF PageInit
    <2>3. next \in 1 .. Disks + 1
      BY DEF PageInit
    <2>4. /\ results \in [Disk -> Answer \cup {NoAnswer}]
          /\ shown \in [Disk -> Answer \cup {NoAnswer}]
      BY NoAnswersTyped DEF PageInit
    <2>5. QED
      BY <2>1, <2>2, <2>3, <2>4 DEF PageInit, PageTypeOK, Job
  <1>2. QED
    BY <1>1, NoAnswerKind
    DEF PageInit, PageInv, Loading, RunSoFar, Declined, CardsTellTheRun, NoAnswers

LEMMA PageInvStep == ASSUME Disks \in Nat \ {0}, PageInv, [PageNext]_pageVars PROVE PageInv'
  <1>1. CASE Hotplug
    <2>1. present' \subseteq Disk
      BY <1>1 DEF Hotplug, PageInv, PageTypeOK
    <2>2. QED
      BY <1>1, <2>1
      DEF Hotplug, viewVars, PageInv, PageTypeOK, Loading, RunSoFar, Declined,
        CardsTellTheRun
  <1>2. CASE DiskFails
    <2>1. PICK d \in Disk :
              health' = [health EXCEPT ![d] = [verdict |-> "failing", rows |-> health[d].rows]]
      BY <1>2 DEF DiskFails
    <2>2. [verdict |-> "failing", rows |-> health[d].rows] \in SmartReport
      BY DEF PageInv, PageTypeOK, SmartReport, Verdict
    <2>3. health' \in [Disk -> SmartReport]
      BY <2>1, <2>2 DEF PageInv, PageTypeOK
    <2>4. QED
      BY <1>2, <2>3
      DEF DiskFails, viewVars, PageInv, PageTypeOK, Loading, RunSoFar, Declined,
        CardsTellTheRun
  <1>3. CASE Load
    BY <1>3
    DEF Load, worldVars, viewVars, PageInv, PageTypeOK, Job, Loading,
      RunSoFar, Declined, CardsTellTheRun
  <1>4. CASE Apply
    <2>1. /\ shown = NoAnswers /\ job' = "none" /\ state' \in {"ready", "unavailable"}
          /\ UNCHANGED <<present, health, busy, next, results, shown>>
          /\ \/ UNCHANGED <<cards, card>>
             \/ cards' \subseteq Disk /\ card' = [d \in Disk |-> EmptyCard]
      BY <1>4 DEF Apply, Listings, worldVars, PageInv, Loading, PageTypeOK
    <2>2. card' \in [Disk -> Card] /\ cards' \subseteq Disk
      BY <2>1, EmptyCardTyped DEF PageInv, PageTypeOK
    <2>3. PageTypeOK' /\ Loading' /\ RunSoFar'
      BY <2>1, <2>2 DEF PageInv, PageTypeOK, Job, Loading, RunSoFar
    <2>4. Declined'
      BY <1>4, <2>1 DEF Apply, PageInv, Declined
    <2>5. CardsTellTheRun'
      <3>1. \A d \in Disk : shown'[d].kind = "none"
        BY <2>1, NoAnswerKind DEF NoAnswers
      <3>2. \A d \in cards' : d \in Disk /\ ~card'[d].note
        <4>1. CASE UNCHANGED <<cards, card>>
          BY <2>1, <2>2, <3>1, <4>1 DEF PageInv, CardsTellTheRun
        <4>2. CASE card' = [d \in Disk |-> EmptyCard]
          BY <2>2, <4>2, EmptyCardTyped
        <4>3. QED
          BY <2>1, <4>1, <4>2
      <3>3. QED
        BY <3>1, <3>2 DEF CardsTellTheRun
    <2>6. QED
      BY <2>3, <2>4, <2>5 DEF PageInv
  <1>5. CASE ReadHealth
    <2>1. next' = 1 /\ results' = NoAnswers /\ 1 \in 1 .. Disks + 1
      BY <1>5 DEF ReadHealth
    <2>2. PageTypeOK'
      <3>1. busy' \in BOOLEAN
        BY <1>5, Zenon DEF ReadHealth
      <3>2. QED
        BY <1>5, <2>1, <3>1, NoAnswersTyped
          DEF ReadHealth, worldVars, viewVars, PageInv, PageTypeOK, Job
    <2>3. RunSoFar' /\ Declined'
      <3>1. \A d \in Disk : results'[d] = NoAnswer /\ ~(d < 1)
        BY <2>1 DEF NoAnswers, Disk
      <3>2. job' = "smart" /\ cards' \subseteq Disk
        BY <1>5 DEF ReadHealth, viewVars, PageInv, PageTypeOK
      <3>3. QED
        BY <2>1, <3>1, <3>2, NoAnswerKind DEF RunSoFar, Declined
    <2>4. Loading' /\ CardsTellTheRun'
      BY <1>5 DEF ReadHealth, viewVars, PageInv, Loading, CardsTellTheRun
    <2>5. QED
      BY <2>2, <2>3, <2>4 DEF PageInv
  <1>6. CASE SmartRead
    <2>1. job = "smart" /\ next \in Disk /\ next + 1 \in 1 .. Disks + 1
      BY <1>6 DEF SmartRead, Disk
    <2>2. /\ UNCHANGED <<present, health, state, cards, card, busy, shown>>
          /\ state # "loading"
      BY <1>6, <2>1 DEF SmartRead, worldVars, viewVars, PageInv, Loading
    <2>3. CASE next \in cards
      <3>1. PICK a \in AnswersFor(next) :
                /\ results' = [results EXCEPT ![next] = a]
                /\ IF a.kind \in Aborts
                     THEN job' = a.kind /\ UNCHANGED next
                     ELSE next' = next + 1 /\ UNCHANGED job
        BY <1>6, <2>3 DEF SmartRead
      <3>2. a \in Answer
        BY <2>1, <3>1, AnswersTyped DEF PageInv
      <3>3. a.kind \in {"report", "none"} \cup Failure /\ a.kind # "none"
        BY <3>2, AnswerShape DEF Answer, Reported, Failed, Failure,
          CoreError, Unavailable
      <3>4. results' \in [Disk -> Answer \cup {NoAnswer}]
        BY <3>1, <3>2 DEF PageInv, PageTypeOK
      <3>5. CASE a.kind \in Aborts
        <4>1. job' \in Failure \ {"smart", "smart done", "none", "inventory"} /\ next' = next
          BY <3>1, <3>5 DEF Aborts, Failure, CoreError, Unavailable
        <4>2. PageTypeOK'
          BY <2>2, <3>4, <4>1 DEF PageInv, PageTypeOK, Job
        <4>3. Declined'
          BY <2>1, <3>1, <3>5 DEF PageInv, PageTypeOK, Declined
        <4>4. QED
          BY <2>2, <4>1, <4>2, <4>3 DEF PageInv, Loading, RunSoFar, CardsTellTheRun
      <3>6. CASE a.kind \notin Aborts
        <4>1. job' = "smart" /\ next' = next + 1 /\ a.kind \in Goes
          BY <2>1, <3>1, <3>3, <3>6 DEF Aborts, Failure, CoreError, Goes
        <4>2. PageTypeOK'
          BY <2>1, <2>2, <3>4, <4>1 DEF PageInv, PageTypeOK, Job
        <4>3. RunSoFar'
          BY <2>1, <2>2, <3>1, <4>1 DEF PageInv, PageTypeOK, Disk, RunSoFar
        <4>4. Declined'
          BY <2>1, <3>1, <4>1 DEF PageInv, PageTypeOK, Declined, Goes
        <4>5. QED
          BY <2>2, <4>1, <4>2, <4>3, <4>4 DEF PageInv, Loading, CardsTellTheRun
      <3>7. QED
        BY <3>5, <3>6
    <2>4. CASE next \notin cards
      <3>1. next' = next + 1 /\ UNCHANGED <<job, results>>
        BY <1>6, <2>4 DEF SmartRead
      <3>2. PageTypeOK'
        BY <2>1, <2>2, <3>1 DEF PageInv, PageTypeOK
      <3>3. RunSoFar'
        BY <2>1, <2>2, <2>4, <3>1 DEF PageInv, PageTypeOK, Disk, RunSoFar
      <3>4. Declined'
        BY <2>1, <3>1 DEF PageInv, Declined
      <3>5. QED
        BY <2>2, <3>1, <3>2, <3>3, <3>4 DEF PageInv, Loading, CardsTellTheRun
    <2>5. QED
      BY <2>3, <2>4
  <1>7. CASE RunEnds
    BY <1>7
    DEF RunEnds, worldVars, viewVars, PageInv, PageTypeOK, Job, Loading,
      RunSoFar, Declined, CardsTellTheRun
  <1>8. CASE HealthDone
    <2>1. /\ job' = "none" /\ next' = 1 /\ results' = NoAnswers
          /\ state' = "ready" /\ UNCHANGED <<present, health, cards>> /\ shown' = results
          /\ card' = [d \in Disk |-> IF d \in cards THEN NewCard(card[d], results[d]) ELSE card[d]]
      BY <1>8 DEF HealthDone, RunGone, worldVars
    <2>9. 1 \in 1 .. Disks + 1
      OBVIOUS
    <2>2. card' \in [Disk -> Card]
      BY <2>1, CardTyped DEF PageInv, PageTypeOK
    <2>3. PageTypeOK'
      <3>1. busy' \in BOOLEAN
        BY <1>8, Zenon DEF HealthDone
      <3>2. QED
        BY <2>1, <2>9, <2>2, <3>1, NoAnswersTyped DEF PageInv, PageTypeOK, Job
    <2>4. CardsTellTheRun'
      <3> SUFFICES ASSUME NEW d \in cards
                   PROVE  /\ results[d].kind = "report" => card'[d] = CardOf(results[d].report, FALSE)
                          /\ card'[d].note <=> results[d].kind \in {"timeout", "parse"}
        BY <2>1 DEF CardsTellTheRun
      <3>1. d \in Disk /\ d < next
        <4>1. d \in Disk /\ next = Disks + 1
          BY <1>8 DEF HealthDone, PageInv, PageTypeOK, RunSoFar
        <4>2. QED
          BY <4>1 DEF Disk
      <3>2. results[d].kind \in Goes
        BY <1>8, <3>1 DEF HealthDone, PageInv, RunSoFar
      <3>3. card[d] \in Card /\ results[d] \in Answer \cup {NoAnswer}
        BY <3>1 DEF PageInv, PageTypeOK
      <3>4. card'[d] = NewCard(card[d], results[d])
        BY <2>1, <3>1
      <3>5. QED
        BY <3>2, <3>3, <3>4, CardTells
    <2>5. Loading' /\ RunSoFar' /\ Declined'
      BY <2>1, NoAnswerKind DEF Loading, RunSoFar, Declined, NoAnswers
    <2>6. QED
      BY <2>3, <2>4, <2>5 DEF PageInv
  <1>9. CASE HealthFailed
    <2>1. /\ job' = "none" /\ next' = 1 /\ results' = NoAnswers /\ 1 \in 1 .. Disks + 1
          /\ UNCHANGED <<present, health, state, cards, card, shown>>
      BY <1>9 DEF HealthFailed, RunGone, worldVars
    <2>2. PageTypeOK'
      <3>1. busy' \in BOOLEAN
        BY <1>9, Zenon DEF HealthFailed
      <3>2. QED
        BY <2>1, <3>1, NoAnswersTyped DEF PageInv, PageTypeOK, Job
    <2>3. QED
      BY <2>1, <2>2, NoAnswerKind DEF PageInv, Loading, RunSoFar, Declined, CardsTellTheRun,
        NoAnswers
  <1>10. CASE UNCHANGED pageVars
    BY <1>10 DEF pageVars, PageInv, PageTypeOK, Loading, RunSoFar, Declined,
      CardsTellTheRun
  <1>11. QED
    BY <1>1, <1>2, <1>3, <1>4, <1>5, <1>6, <1>7, <1>8, <1>9, <1>10 DEF PageNext, Page

-----------------------------------------------------------------------------
\* The inductive invariant of the page: the types, the page's one way out of
\* loading, what a run has read, and the two properties below.
THEOREM StorageInvHolds == PageSpec => []PageInv
  <1>1. PageInit => PageInv
    BY DisksAssumption, PageInitInv
  <1>2. PageInv /\ [PageNext]_pageVars => PageInv'
    BY DisksAssumption, PageInvStep
  <1>3. QED
    BY <1>1, <1>2, PTL DEF PageSpec

\* _health_done: after a run, each card tells what that run learned of its own
\* disk, however disks came, went and failed meanwhile.
THEOREM CardsAreOfTheRun == PageSpec => []CardsTellTheRun
  <1>1. PageInv => CardsTellTheRun
    BY DEF PageInv
  <1>2. QED
    BY <1>1, StorageInvHolds, PTL

\* _gather_health: a prompt that is declined ends the run, so the user is asked
\* at most once more.
THEOREM OneDecline == PageSpec => []DeclinedOnce
  <1>1. PageInv => DeclinedOnce
    BY DEF PageInv, Declined, DeclinedOnce
  <1>2. QED
    BY <1>1, StorageInvHolds, PTL

\* _health_failed and _health_done: no run takes a ready page away, and the
\* cards change only with the results of a whole one.
THEOREM ReadyPageStays == PageSpec => ReadyStays
  <1>1. ASSUME PageInv, [PageNext]_pageVars
        PROVE  [state = "ready" => state' = "ready" /\ (card' # card => job = "smart done")]_pageVars
    <2> SUFFICES ASSUME state = "ready", PageNext
                 PROVE  state' = "ready" /\ (card' # card => job = "smart done")
      BY <1>1
    <2>1. ~Apply /\ ~Load
      BY <1>1 DEF Apply, Load, PageInv, Loading
    <2>2. CASE Hotplug \/ DiskFails
      BY <2>2 DEF Hotplug, DiskFails, viewVars
    <2>3. CASE ReadHealth \/ SmartRead \/ RunEnds
      BY <2>3 DEF ReadHealth, SmartRead, RunEnds, viewVars
    <2>4. CASE HealthDone \/ HealthFailed
      BY <2>4 DEF HealthDone, HealthFailed
    <2>5. QED
      BY <2>1, <2>2, <2>3, <2>4 DEF PageNext, Page
  <1>2. QED
    BY <1>1, StorageInvHolds, PTL DEF PageSpec, ReadyStays
=============================================================================
