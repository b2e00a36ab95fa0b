SPECIFICATION FairPageSpec
CONSTANTS
  Report = {r1, r2}
  None = None
INVARIANT ExportsWhatWasShown
INVARIANT TargetWhole
PROPERTY ExportedMeansWritten
PROPERTY BusyEnds
