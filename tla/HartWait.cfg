CONSTANTS
  Arch = {"U", "S"}
  Interrupts = {1}
  SWInterrupts = {1}
  Delegable = {1}
  HDelegable = {}
  Exceptions = {}
  EDelegable = {}
  Ports = {"restartwfi", "store", "illegal_instr"}
  CSRFields = {"MIE", "TW", "mie", "mip", "mideleg"}
  Extensions = {"A", "Zawrs"}
  rnmi_version = "none"
  nmi_is_latched = FALSE
  wfi_is_nop = FALSE
  wfi_resume_not_trap = FALSE
  TW_time_limit = 5
  debug_mode = "none"
  debug_priority = "A_S_X_H"
  dcsr_ebreak_mask = {}
  defer_step_bug = FALSE
  trap_preserves_lr = FALSE
  xret_preserves_lr = FALSE
SPECIFICATION Spec
INVARIANTS
  NoMissedWakeup
  WrsHoldsReservation
  WaitLimitCurrent
PROPERTIES
  BoundedWaitEnds
