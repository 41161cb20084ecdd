CONSTANTS
  HomeBase = home
  Experiment = exp
  None = None
  Knobs <- MCKnobs
SPECIFICATION DeviceSpec
INVARIANT DeviceTypeOK
PROPERTIES
  WedgeNeedsPower
  AnchorSafeWhileActive
  UnprovenNeverChosen
