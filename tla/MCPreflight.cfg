CONSTANTS
  Junk = Junk
  FileSize = 3
  EnvSize = 2
  Files <- MCFiles
  Envs <- MCEnvs
  FlagSets <- MCFlagSets
SPECIFICATION Spec
INVARIANTS
  TypeOK
  StartsAddressed
  AnchorNeverInvented
  ArmedNeverInvented
  WholeTextDecides
PROPERTY LoadedRight
CHECK_DEADLOCK FALSE
