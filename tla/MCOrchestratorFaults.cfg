CONSTANTS
  HomeBase = home
  Experiment = exp
  None = None
  Knobs <- MCFaultKnobs
  Configs <- MCFaultConfigs
  Faults = {"ssh", "uartfs", "uart", "power", "retry"}
  PollInterval = 1
  ProbeLags = {0, 2}
  MaxImages = 2
  MaxReboots = 1
SPECIFICATION FairSpec
INVARIANTS
  RollbackArmed
  AnchorBeforeReboot
  RecoveredMeansHome
  CycleAccounting
  DarkIsTold
  IterationStaysInBudget
PROPERTIES
  HomeBaseNeverCleared
  ContractKept
  CommandTerminates
  CallsRunOut
