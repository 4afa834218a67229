CONSTANTS
  Arch = {"U", "S", "H"}
  Interrupts = {2}
  SWInterrupts = {}
  Delegable = {}
  HDelegable = {2}
  Exceptions = {13}
  EDelegable = {13}
  Ports = {"SC_valid"}
  CSRFields = {"MPRV", "MPV", "mie", "hideleg", "medeleg", "hedeleg"}
  Extensions = {"A"}
  rnmi_version = "none"
  nmi_is_latched = FALSE
  wfi_is_nop = FALSE
  wfi_resume_not_trap = FALSE
  TW_time_limit = 0
  debug_mode = "none"
  debug_priority = "A_S_X_H"
  dcsr_ebreak_mask = {}
  defer_step_bug = FALSE
  trap_preserves_lr = FALSE
  xret_preserves_lr = FALSE
SPECIFICATION Spec
INVARIANTS
  TypeOK
  InterruptJustified
  MPRVOnlyInM
PROPERTIES
  RiseSavesMode
