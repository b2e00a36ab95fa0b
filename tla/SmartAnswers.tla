----------------------------- MODULE SmartAnswers -----------------------------
(***************************************************************************)
(* What StorageProvider.read_smart may answer: the vocabulary shared by    *)
(* the read (SmartRead, PrivilegedRead) and by its callers.                *)
(***************************************************************************)

\* SmartReport.passed is False, True or None; rows says whether any other
\* field of the report is there.
Verdict == {"failing", "healthy", "silent"}
SmartReport == [verdict : Verdict, rows : BOOLEAN]

\* ProviderUnavailable names the missing piece; PrivilegedActionDenied,
\* ProviderTimeout and ProviderParseError are the other core errors.
Unavailable == {"no pkexec", "no helper", "no smartmontools"}
CoreError == Unavailable \cup {"denied", "timeout", "parse"}
Failure == CoreError \cup {"oserror"}

NoReport == [verdict |-> "silent", rows |-> FALSE]
Reported(r) == [kind |-> "report", report |-> r]
Failed(f) == [kind |-> f, report |-> NoReport]
NoAnswer == Failed("none")
Answer == {Reported(r) : r \in SmartReport} \cup {Failed(f) : f \in Failure}
=============================================================================
