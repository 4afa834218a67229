CONSTANTS
  Arch = {"U"}
  Interrupts = {7}
  SWInterrupts = {}
  Delegable = {}
  HDelegable = {}
  Exceptions = {}
  EDelegable = {}
  Ports = {"haltreq", "reset", "resethaltreq", "deferint", "leaveDM", "DMStall", "dcsr"}
  CSRFields = {"MIE", "mie", "step", "stepie"}
  Extensions = {}
  rnmi_version = "none"
  nmi_is_latched = FALSE
  wfi_is_nop = FALSE
  wfi_resume_not_trap = FALSE
  TW_time_limit = 0
  debug_mode = "halt"
  debug_priority = "A_S_X_H"
  dcsr_ebreak_mask = {0}
  defer_step_bug = FALSE
  trap_preserves_lr = FALSE
  xret_preserves_lr = FALSE
SPECIFICATION Spec
INVARIANTS
  SingleStep
PROPERTIES
  StepCompletes
  HaltreqServed
