CONSTANTS
  Arch = {"U"}
  Interrupts = {7}
  SWInterrupts = {}
  Delegable = {}
  HDelegable = {}
  Exceptions = {}
  EDelegable = {}
  Ports = {"enterDM", "leaveDM"}
  CSRFields = {"MIE", "mie"}
  Extensions = {}
  rnmi_version = "none"
  nmi_is_latched = FALSE
  wfi_is_nop = FALSE
  wfi_resume_not_trap = FALSE
  TW_time_limit = 0
  debug_mode = "halt"
  debug_priority = "A_S_X_H"
  dcsr_ebreak_mask = {}
  defer_step_bug = FALSE
  trap_preserves_lr = FALSE
  xret_preserves_lr = FALSE
SPECIFICATION Spec
INVARIANTS
  NoMissedWakeup
