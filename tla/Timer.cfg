CONSTANTS
  TimeMod = 4
  CLINT = TRUE
  Sstc = TRUE
  Hypervisor = TRUE
  mtimeTimer = TRUE
SPECIFICATION Spec
INVARIANTS
  TimerExact
  MipCurrent
