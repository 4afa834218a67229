CONSTANTS
  NumPMP = 2
  EntriesPerCFG = 2
  MaxPA = 15
  Configs <- MCConfigs
  CfgValues <- MCCfgValues
  AddrValues = {1, 2}
  Accesses <- MCAccesses
SPECIFICATION Spec
INVARIANTS
  TypeOK
  MappedWithinPMP
  StraddleMisses
PROPERTIES
  LockedStays
