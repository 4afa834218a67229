CONSTANTS
  Arch = {"U", "S"}
  Interrupts = {1, 7}
  SWInterrupts = {}
  Delegable = {1}
  HDelegable = {}
  Exceptions = {}
  EDelegable = {}
  Ports = {"nmi", "enterDM"}
  CSRFields = {"SIE", "mie", "mideleg", "NMIE"}
  Extensions = {}
  rnmi_version = "0_4"
  nmi_is_latched = FALSE
  wfi_is_nop = FALSE
  wfi_resume_not_trap = FALSE
  TW_time_limit = 0
  debug_mode = "none"
  debug_priority = "A_S_X_H"
  dcsr_ebreak_mask = {}
  defer_step_bug = FALSE
  trap_preserves_lr = FALSE
  xret_preserves_lr = FALSE
SPECIFICATION Spec
INVARIANTS
  InterruptJustified
  NoInterruptMissed
