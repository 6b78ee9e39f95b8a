SPECIFICATION FairSpec
CONSTANTS
  Tasks = {"go", "run", "go_run", "here_run", "back_to_zero"}
  MaxSignals = 4
  MaxNesting = 2
INVARIANTS
  PauseAgrees
  FewLateMoves
PROPERTIES
  PatientStopEnds
CHECK_DEADLOCK FALSE
