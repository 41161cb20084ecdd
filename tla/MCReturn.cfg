CONSTANTS
  HomeBase = home
  Experiment = exp
  None = None
  Knobs <- MCFaultKnobs
  Configs <- MCConfigs
  Faults = {"uart", "retry"}
  PollInterval = 1
  ProbeLags = {0}
  MaxImages = 1
  MaxReboots = 0
SPECIFICATION FairSpec
PROPERTIES
  GuaranteedReturn
  SwitchBringsHome
  RetryExhaustionSuffices
  SwitchKept
  RetriesKept
