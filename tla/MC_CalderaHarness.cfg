SPECIFICATION Spec
CONSTANTS
  r1 = r1
  r2 = r2
  Runs = {r1, r2}
  Commands <- MCCommands
  Lines = {"ls"}
  MaxFailures = 1
  MaxKills = 1
INVARIANTS
  TypeOK
  HistoryIsKept
  TempIsRemoved
  VerdictIsTrue
SYMMETRY MCSymmetry
CHECK_DEADLOCK FALSE
