SPECIFICATION Spec
CONSTANTS
  Procs = {p1, p2, p3}
  Nobody = Nobody
  OnWindows = TRUE
  MaxCrashes = 1
  MaxTampers = 2
INVARIANTS
  TypeOK
  OnlyVerifiedRuns
  NoticesComeFirst
  ReplacementMeetsNoVerifier
  TempsAreTheHolders
PROPERTIES
  InstallsOnlyWhole
  PathReturns
