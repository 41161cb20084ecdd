CONSTANTS
  HomeBase = home
  Experiment = exp
  None = None
  Knobs <- MCKnobs
  Configs <- MCConfigs
  Faults = {}
  PollInterval = 1
  ProbeLags = {0}
  MaxImages = 1
  MaxReboots = 2
SPECIFICATION Spec
INVARIANT RebootsOnlyUnproven
