SPECIFICATION FairSpec
CONSTANTS
  Configs <- MCConfigs
  Ceilings <- MCCeilings
  FixedWatts = 10
  FanOutputs <- MCFanOutputs
  MaxFaults = 1
INVARIANTS
  TypeOK
PROPERTIES
  GentleRise
  EmergencyCools
CHECK_DEADLOCK FALSE
