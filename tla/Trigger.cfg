CONSTANTS
  Configs <- MCConfigs
SPECIFICATION Spec
INVARIANTS
  TypeOK
  StepBounded
PROPERTIES
  NoNestedBreakpoint
  DebuggerKeeps
  DebugDelivered
