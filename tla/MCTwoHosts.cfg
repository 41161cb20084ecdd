CONSTANTS
  HomeBase = home
  Experiment = exp
  None = None
  Knobs <- MCKnobs
  Configs <- MCConfigs
  Faults = {"retry", "kill"}
  PollInterval = 1
  ProbeLags = {0}
  MaxImages = 1
  MaxReboots = 0
  BothStage = FALSE
SPECIFICATION Spec
INVARIANT RebootsShared
PROPERTIES
  AnchorShared
  SaidWhenTrue
