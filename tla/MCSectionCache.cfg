SPECIFICATION Spec
CONSTANTS
  Runs = {r1, r2, r3}
  Source = nvd
  ManualNames = {nvd}
  Entries = {aplus}
  Fingerprints = {f1, f2}
  TTL = 2
  WriteTimeout = 1
  MaxTime = 4
SYMMETRY Symmetry
INVARIANTS
  TypeOK
  AnswersAreTheRuns
  LastWordStands
  LittleIsLost
