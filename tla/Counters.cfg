CONSTANTS
  Half = 2
  Configs <- MCConfigs
SPECIFICATION Spec
INVARIANT CountersExact
PROPERTY InhibitedStays
