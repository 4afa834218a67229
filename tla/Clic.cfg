CONSTANTS
  h1 = h1
  h2 = h2
  Configs <- MCConfigs
SPECIFICATION Spec
INVARIANTS
  TypeOK
  SelectionCurrent
  EdgePendingExact
  NonePresentedMissed
PROPERTIES
  EdgeReported
  PreemptedByHigher
