CONSTANTS
  HomeBase = home
  Experiment = exp
  None = None
  Knobs <- MCKnobs
  Configs <- MCConfigs
  Faults = {}
  PollInterval = 1
  ProbeLags = {0}
  MaxImages = 1
  MaxReboots = 0
  BothStage = TRUE
SPECIFICATION Spec
PROPERTY AnchorShared
