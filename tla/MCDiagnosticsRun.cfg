SPECIFICATION Spec
CONSTANT Machines <- AllMachines
INVARIANTS VerdictsMatchTable ScoreIsMean PromptsWhenAsked SkipSaysWhy 
CHECK_DEADLOCK FALSE
