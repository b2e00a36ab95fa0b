---------------------------- MODULE CaptureProofs ----------------------------
(***************************************************************************)
(* Proofs about Capture, for any set of slugs and any number of captures:  *)
(* no step of a default capture adds an identifier, and a README.md that   *)
(* is that of the last capture tells what the capture wrote.               *)
(***************************************************************************)
EXTENDS Capture, TLAPS

\* The sources a capture has passed are dealt with.
Handled(f) ==
    /\ f \in CopiedKind => by[<<machine, f>>] = n \/ f \in unread \/ (f = "ids" /\ ~asked)
    /\ f \in Noted => by[<<machine, f>>] = n \/ f \in notes

Passed == \A i \in 1 .. 8 : i < at => Handled(Steps[i])

\* The hostname is the fourth step.
Redacted == (at > 4 /\ ~asked) => <<machine, "hostname">> \notin real

\* README.md is of an earlier capture, until its own one writes it.
Earlier == readme.by <= n /\ (at # 0 => readme.by < n)

Inv == TypeOK /\ Passed /\ Redacted /\ Earlier /\ NotesTellTheRun

LEMMA StepList ==
    /\ Len(Steps) = 9
    /\ Steps[1] = "dmi" /\ Steps[2] = "ids" /\ Steps[3] = "os" /\ Steps[4] = "hostname"
    /\ Steps[5] = "acpi" /\ Steps[6] = "battery" /\ Steps[7] = "lspci" /\ Steps[8] = "lsusb"
    /\ Steps[9] = "readme"
  BY DEF Steps

\* The kinds of values are kept by every step.
LEMMA TypeStep == ASSUME TypeOK, [Next]_vars PROVE TypeOK'
  <1> USE StepList DEF TypeOK
  <1>0. "acpi" \in Noted /\ "lspci" \in Noted /\ "lsusb" \in Noted
    BY DEF Noted
  <1>1. CASE Begin
    BY <1>1 DEF Begin, StartCapture
  <1>2. CASE LeaveOutIds
    BY <1>2 DEF LeaveOutIds, At
  <1>3. CASE RedactHostname
    BY <1>3 DEF RedactHostname, At, Writes, Source
  <1>4. CASE WriteReadme
    BY <1>4 DEF WriteReadme, At
  <1>5. CASE Dies
    <2>1. NoReadme \in [by : Nat, asked : BOOLEAN, missing : SUBSET Noted]
      BY DEF NoReadme
    <2>2. readme' = readme \/ readme' = NoReadme
      BY <1>5 DEF Dies, Empties
    <2>3. by' \in [Machine \X Source -> Nat]
      <3>1. CASE UNCHANGED by
        BY <3>1
      <3>2. ASSUME NEW f \in Source, Empties(f) PROVE by' \in [Machine \X Source -> Nat]
        BY <3>2 DEF Empties
      <3>3. QED
        BY <1>5, <3>1, <3>2 DEF Dies
    <2>4. real' \subseteq real
      <3>1. CASE UNCHANGED real
        BY <3>1
      <3>2. CASE \E f \in Source : Empties(f)
        BY <3>2 DEF Empties
      <3>3. QED
        BY <1>5, <3>1, <3>2 DEF Dies
    <2>5. QED
      BY <1>5, <2>1, <2>2, <2>3, <2>4 DEF Dies
  <1>6. CASE ListAttributes
    <2>1. by' \in [Machine \X Source -> Nat] /\ notes' \subseteq Noted
      BY <1>0, <1>6 DEF ListAttributes, Writes
    <2>2. QED
      BY <1>6, <2>1 DEF ListAttributes, At, Source
  <1>7. ASSUME NEW f \in Source, Copy(f) PROVE TypeOK'
    BY <1>7 DEF Copy, At, Writes, Source, Identifying
  <1>8. ASSUME NEW f \in Source, Unreadable(f) PROVE TypeOK'
    BY <1>8 DEF Unreadable, At, Source
  <1>9. ASSUME NEW f \in Source, RunTool(f) PROVE TypeOK'
    <2>1. by' \in [Machine \X Source -> Nat] /\ notes' \subseteq Noted
      BY <1>0, <1>9 DEF RunTool, Writes
    <2>2. QED
      BY <1>9, <2>1 DEF RunTool, At, Source
  <1>10. CASE UNCHANGED vars
    BY <1>10 DEF vars
  <1>11. QED
    BY <1>1, <1>2, <1>3, <1>4, <1>5, <1>6, <1>7, <1>8, <1>9, <1>10 DEF Next

\* NeverAddsIdentifiers, for one step: only a copy adds to real, and without
\* the flag what identifies is not copied.
LEMMA NoIdentifierStep == ASSUME TypeOK, [Next]_vars, ~asked' PROVE real' \subseteq real
  <1>1. ASSUME NEW f \in Source, Copy(f) PROVE real' \subseteq real
    BY <1>1 DEF Copy, Wanted
  <1>2. CASE Dies
    <2>1. CASE UNCHANGED real
      BY <2>1
    <2>2. CASE \E f \in Source : Empties(f)
      BY <2>2 DEF Empties
    <2>3. QED
      BY <1>2, <2>1, <2>2 DEF Dies
  <1>3. QED
    BY <1>1, <1>2 DEF Next, vars, Begin, LeaveOutIds, RedactHostname, WriteReadme,
      ListAttributes, Unreadable, RunTool

\* The steps that go on to the next source.
Advances ==
    /\ at' = at + 1 /\ UNCHANGED <<readme, n, asked, machine>>
    /\ notes \subseteq notes' /\ unread \subseteq unread'
    /\ \A x \in Machine \X Source : by'[x] = by[x] \/ by'[x] = n
    /\ \A s \in Source : Steps[at] = s => Handled(s)'

LEMMA StepKinds ==
  ASSUME TypeOK, Next
  PROVE  Begin \/ WriteReadme \/ Dies \/ (at \in 1 .. 8 /\ Advances)
  <1> USE StepList
  <1>1. ASSUME NEW f \in Source, Copy(f) PROVE at \in 1 .. 8 /\ Advances
    <2>1. at \in 1 .. 8 /\ Steps[at] = f
      BY <1>1 DEF Copy, At, TypeOK, Source
    <2>2. by'[<<machine, f>>] = n /\ \A x \in Machine \X Source : by'[x] = by[x] \/ by'[x] = n
      BY <1>1 DEF Copy, Writes, TypeOK
    <2>3. Handled(f)'
      BY <1>1, <2>2 DEF Handled, Copy, CopiedKind, Noted
    <2>4. QED
      BY <1>1, <2>1, <2>2, <2>3 DEF Copy, Advances
  <1>2. ASSUME NEW f \in Source, Unreadable(f) PROVE at \in 1 .. 8 /\ Advances
    <2>1. at \in 1 .. 8 /\ Steps[at] = f
      BY <1>2 DEF Unreadable, At, TypeOK, Source
    <2>2. Handled(f)'
      BY <1>2 DEF Handled, Unreadable, CopiedKind, Noted
    <2>3. QED
      BY <1>2, <2>1, <2>2 DEF Unreadable, Advances
  <1>3. ASSUME NEW f \in Source, RunTool(f) PROVE at \in 1 .. 8 /\ Advances
    <2>1. at \in 1 .. 8 /\ Steps[at] = f
      BY <1>3 DEF RunTool, At, TypeOK, Source
    <2>2. \A x \in Machine \X Source : by'[x] = by[x] \/ by'[x] = n
      BY <1>3 DEF RunTool, Writes, TypeOK
    <2>3. by'[<<machine, f>>] = n \/ f \in notes'
      BY <1>3 DEF RunTool, Writes, TypeOK
    <2>4. Handled(f)'
      BY <1>3, <2>3 DEF Handled, RunTool, CopiedKind, Noted
    <2>5. QED
      BY <1>3, <2>1, <2>2, <2>4 DEF RunTool, Advances
  <1>4. CASE ListAttributes
    <2>1. at \in 1 .. 8 /\ Steps[at] = "acpi"
      BY <1>4 DEF ListAttributes, At, TypeOK
    <2>2. \A x \in Machine \X Source : by'[x] = by[x] \/ by'[x] = n
      BY <1>4 DEF ListAttributes, Writes, TypeOK
    <2>3. by'[<<machine, "acpi">>] = n \/ "acpi" \in notes'
      BY <1>4 DEF ListAttributes, Writes, TypeOK, Source
    <2>4. Handled("acpi")'
      BY <1>4, <2>3 DEF Handled, ListAttributes, CopiedKind
    <2>5. QED
      BY <1>4, <2>1, <2>2, <2>4 DEF ListAttributes, Advances
  <1>5. CASE LeaveOutIds
    <2>1. at \in 1 .. 8 /\ Steps[at] = "ids"
      BY <1>5 DEF LeaveOutIds, At, TypeOK
    <2>2. Handled("ids")'
      BY <1>5 DEF Handled, LeaveOutIds, Noted
    <2>3. QED
      BY <1>5, <2>1, <2>2 DEF LeaveOutIds, Advances
  <1>6. CASE RedactHostname
    <2>1. at \in 1 .. 8 /\ Steps[at] = "hostname"
      BY <1>6 DEF RedactHostname, At, TypeOK
    <2>2. by'[<<machine, "hostname">>] = n /\ \A x \in Machine \X Source : by'[x] = by[x] \/ by'[x] = n
      BY <1>6 DEF RedactHostname, Writes, TypeOK, Source
    <2>3. Handled("hostname")'
      BY <1>6, <2>2 DEF Handled, RedactHostname, Noted
    <2>4. QED
      BY <1>6, <2>1, <2>2, <2>3 DEF RedactHostname, Advances
  <1>7. QED
    BY <1>1, <1>2, <1>3, <1>4, <1>5, <1>6 DEF Next


LEMMA PassedStep ==
  ASSUME Inv, at \in 1 .. 8, Advances
  PROVE  Passed' /\ Earlier'
  <1> USE StepList
  <1>1. ASSUME NEW i \in 1 .. 8, i < at', i # at PROVE Handled(Steps[i])'
    <2>1. i < at /\ Handled(Steps[i])
      BY <1>1 DEF Inv, Passed, Advances
    <2>2. Steps[i] \in Source /\ machine \in Machine
      BY DEF Source, Inv, TypeOK
    <2>3. by'[<<machine, Steps[i]>>] = by[<<machine, Steps[i]>>] \/ by'[<<machine, Steps[i]>>] = n
      BY <2>2 DEF Advances
    <2>4. QED
      BY <2>1, <2>3 DEF Handled, Advances
  <1>2. ASSUME NEW i \in 1 .. 8, i = at PROVE Handled(Steps[i])'
    BY <1>2 DEF Advances, Source
  <1>3. Passed'
    BY <1>1, <1>2 DEF Passed
  <1>4. Earlier'
    BY DEF Earlier, Inv, Advances
  <1>5. QED
    BY <1>3, <1>4

LEMMA RedactedStep == ASSUME Inv, Next PROVE Redacted'
  <1> USE StepList DEF Inv, TypeOK
  <1> SUFFICES ASSUME at' > 4, ~asked' PROVE <<machine', "hostname">> \notin real'
    BY DEF Redacted
  <1>1. at \in 1 .. 8 /\ Advances
    BY StepKinds DEF Begin, StartCapture, WriteReadme, Dies
  <1>2. real' \subseteq real
    BY NoIdentifierStep
  <1>3. CASE at = 4
    <2>1. Steps[at] = "hostname" /\ ~Wanted("hostname")
      BY <1>1, <1>3 DEF Advances, Wanted, Identifying
    <2>2. RedactHostname
      BY <2>1, <1>1 DEF Next, Copy, Unreadable, RunTool, LeaveOutIds, WriteReadme, Dies,
        ListAttributes, Begin, At
    <2>3. QED
      BY <2>2 DEF RedactHostname
  <1>4. CASE at # 4
    BY <1>1, <1>2, <1>4 DEF Advances, Redacted
  <1>5. QED
    BY <1>3, <1>4

\* The last step writes what the others did.
LEMMA ReadmeStep == ASSUME Inv, WriteReadme PROVE NotesTellTheRun'
  <1> USE StepList
  <1>1. at = 9
    BY DEF WriteReadme, At, Inv, TypeOK
  <1>2. \A f \in Source : Handled(f)
    BY <1>1 DEF Inv, Passed, Source
  <1>3. ~asked => <<machine, "hostname">> \notin real
    BY <1>1 DEF Inv, Redacted
  <1>4. CopiedKind \subseteq Source /\ Noted \subseteq Source
    BY DEF CopiedKind, Noted, Source
  <1>5. readme'.missing = notes /\ readme'.asked = asked
    BY DEF WriteReadme
  <1>6. QED
    BY <1>2, <1>3, <1>4, <1>5 DEF WriteReadme, NotesTellTheRun, Handled

LEMMA InvStep == ASSUME Inv, [Next]_vars PROVE Inv'
  <1>1. TypeOK'
    BY TypeStep DEF Inv
  <1>2. CASE Begin
    <2>1. readme'.by < n' /\ readme'.by <= n' /\ readme'.by # n'
      BY <1>2 DEF Begin, StartCapture, Inv, TypeOK, Earlier
    <2>2. Passed' /\ Redacted'
      BY <1>2 DEF Begin, StartCapture, Passed, Redacted
    <2>3. QED
      BY <1>1, <2>1, <2>2 DEF Inv, Earlier, NotesTellTheRun
  <1>3. CASE WriteReadme
    <2>1. at' = 0 /\ readme'.by = n /\ n' = n
      BY <1>3 DEF WriteReadme
    <2>2. QED
      BY <1>1, <1>3, <2>1, ReadmeStep DEF Inv, Passed, Redacted, Earlier, TypeOK
  <1>4. CASE Dies
    <2>1. at' = 0 /\ n' = n /\ (readme' = readme \/ readme' = NoReadme)
      BY <1>4 DEF Dies, Empties
    <2>2. n # 0 => readme'.by # n
      BY <1>4, <2>1 DEF Dies, Inv, Earlier, TypeOK, NoReadme
    <2>3. readme'.by <= n
      BY <2>1 DEF Inv, Earlier, TypeOK, NoReadme
    <2>4. QED
      BY <1>1, <2>1, <2>2, <2>3 DEF Inv, Passed, Redacted, Earlier, NotesTellTheRun
  <1>5. CASE at \in 1 .. 8 /\ Advances /\ Next
    <2>1. readme'.by # n'
      BY <1>5 DEF Inv, Earlier, Advances, TypeOK
    <2>2. QED
      BY <1>1, <1>5, <2>1, PassedStep, RedactedStep DEF Inv, NotesTellTheRun
  <1>6. CASE UNCHANGED vars
    BY <1>1, <1>6 DEF Inv, vars, Passed, Handled, Redacted, Earlier, NotesTellTheRun
  <1>7. QED
    BY <1>2, <1>3, <1>4, <1>5, <1>6, StepKinds DEF Inv

LEMMA InvInit == Init => Inv
  <1> SUFFICES ASSUME Init PROVE Inv
    OBVIOUS
  <1>1. TypeOK
    <2>1. readme \in [by : Nat, asked : BOOLEAN, missing : SUBSET Noted]
      BY DEF Init, NoReadme
    <2>2. real \subseteq Machine \X Identifying /\ notes \subseteq Noted /\ unread \subseteq Source
      BY DEF Init
    <2>3. by \in [Machine \X Source -> Nat]
      BY DEF Init
    <2>4. n \in Nat /\ at \in 0 .. 9 /\ machine \in Machine
      BY DEF Init
    <2>5. asked \in BOOLEAN
      BY Zenon DEF Init
    <2>6. QED
      BY <2>1, <2>2, <2>3, <2>4, <2>5 DEF TypeOK
  <1>2. QED
    BY <1>1 DEF Init, Inv, Passed, Redacted, Earlier, NotesTellTheRun, NoReadme

LEMMA InvAlways == Spec => []Inv
  BY InvInit, InvStep, PTL DEF Spec

\* README.md, once it is that of the last capture, tells what that capture
\* wrote, redacted and could not read, after any captures before it.
THEOREM ReadmeTellsTheRun == Spec => []NotesTellTheRun
  <1>1. Inv => NotesTellTheRun
    BY DEF Inv
  <1>2. QED
    BY <1>1, InvAlways, PTL

\* No step of a capture without the flag, killed or not, adds an identifier
\* to the directory.
THEOREM RedactsByDefault == Spec => NeverAddsIdentifiers
  <1>1. ASSUME Inv, [Next]_vars PROVE [~asked => real' \subseteq real]_vars
    <2>1. CASE Begin
      BY <2>1 DEF Begin
    <2>2. CASE ~Begin /\ Next
      <3>1. asked' = asked
        BY <2>2 DEF Next, LeaveOutIds, RedactHostname, WriteReadme, Dies, ListAttributes,
          Copy, Unreadable, RunTool
      <3>2. QED
        BY <1>1, <3>1, NoIdentifierStep DEF Inv
    <2>3. QED
      BY <1>1, <2>1, <2>2 DEF vars
  <1>2. QED
    BY <1>1, InvAlways, PTL DEF Spec, NeverAddsIdentifiers
=============================================================================
