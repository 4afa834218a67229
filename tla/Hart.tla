-------------------------------- MODULE Hart --------------------------------
(***************************************************************************)
(* Traps, interrupts, waiting and Debug mode of one hart of the OVP RISC-V *)
(* processor model (riscvExceptions.c and the CSR writes of riscvCSR.c     *)
(* that feed it).                                                          *)
(*                                                                         *)
(* The hart runs instructions; the simulator calls riscvIFetchExcept       *)
(* before each one, which may divert it into Debug mode, an NMI or an      *)
(* interrupt.  Between instructions, and while the hart is halted, net     *)
(* ports change, timers expire and a debugger writes the DM register.      *)
(*                                                                         *)
(* Left out: program counter and cause values, the N extension, CLIC,      *)
(* Smaia, guest external interrupts, triggers and callbacks of derived     *)
(* models.                                                                 *)
(***************************************************************************)
EXTENDS RiscvModes, FiniteSets

CONSTANTS
  Interrupts,           \* interrupt numbers (bits of mip)
  SWInterrupts,         \* the ones software can pend by writing mip
  Delegable,            \* writable bits of mideleg
  HDelegable,           \* writable bits of hideleg
  Exceptions,           \* exception codes an instruction may raise
  EDelegable,           \* writable bits of medeleg and hedeleg
  Ports,                \* the net ports and artifacts that are connected
  CSRFields,            \* the CSR fields that programs write
  Extensions,           \* of "A" (LR/SC) and "Zawrs", the ones configured
  rnmi_version,         \* "none", "0_2_1" or "0_4"
  nmi_is_latched,
  wfi_is_nop,
  wfi_resume_not_trap,
  TW_time_limit,        \* bound on a trapped WFI, in cycles; 0: trap at once
  debug_mode,           \* "none", "vector", "interrupt" or "halt"
  debug_priority,
  dcsr_ebreak_mask,     \* modes whose ebreak enters Debug mode out of reset
  defer_step_bug,
  trap_preserves_lr,
  xret_preserves_lr

VARIABLES
  mode,       \* current privilege mode (riscv->mode)
  mstatus,
  hstatus,
  vsstatus,
  mnstatus,   \* resumable NMI state
  dcsr,
  DM,         \* in Debug mode
  mie,
  ip,         \* interrupts pended by ports (riscv->ip)
  swip,       \* interrupts pended by software (riscv->swip)
  mideleg,
  hideleg,
  medeleg,
  hedeleg,
  pendEnab,   \* cached highest-priority pending and enabled interrupt
  halted,     \* riscv->disable and the inWFI output net
  net,        \* values of input ports (riscv->netValue)
  step,       \* single-step timer
  twTimer,    \* bounded-wait timer
  EA          \* the hart holds an LR reservation (exclusiveTag)

statusVars == <<mstatus, hstatus, vsstatus>>
delegVars  == <<mideleg, hideleg, medeleg, hedeleg>>
pendVars   == <<ip, swip>>
timerVars  == <<step, twTimer>>

vars == <<mode, mstatus, hstatus, vsstatus, mnstatus, dcsr, DM, mie, ip, swip,
          mideleg, hideleg, medeleg, hedeleg, pendEnab, halted, net, step,
          twTimer, EA>>

-----------------------------------------------------------------------------
RV_NO_INT == -1

noInt == [id |-> RV_NO_INT, priv |-> RISCV_MODE_U]

RVD_WFI   == "WFI"
RVD_RESET == "RESET"
RVD_DEBUG == "DEBUG"
RVD_WRS   == "WRS"
RVD_STO   == "STO"

RVD_RESTART_WFI   == {RVD_WFI, RVD_WRS, RVD_STO}
RVD_RESTART_NMI   == RVD_RESTART_WFI
RVD_RESTART_RESET == RVD_RESTART_WFI \cup {RVD_RESET}

riscv_E_IllegalInstruction == 2
riscv_E_Breakpoint         == 3
riscv_E_VirtualInstruction == 22

\* VS-level interrupt numbers; each is one more than its S-level counterpart.
hvip == {2, 6, 10}

(***************************************************************************)
(* Default priority of an interrupt: standard interrupts in the order of   *)
(* riscvExceptionPriority, local ones above them in number order.          *)
(***************************************************************************)
getDefaultPriBasic(id) ==
  CASE id = 6  -> 40      \* VS timer
    [] id = 2  -> 50      \* VS software
    [] id = 10 -> 60      \* VS external
    [] id = 5  -> 80      \* S timer
    [] id = 1  -> 90      \* S software
    [] id = 9  -> 100     \* S external
    [] id = 7  -> 110     \* M timer
    [] id = 3  -> 120     \* M software
    [] id = 11 -> 130     \* M external
    [] OTHER   -> 260 + id - 16

\* The loop over pending bits keeps the later of two equal priorities.
outranks(i, j) ==
  \/ getDefaultPriBasic(i) > getDefaultPriBasic(j)
  \/ getDefaultPriBasic(i) = getDefaultPriBasic(j) /\ i >= j

ASSUME ConfigAssumption ==
  /\ Interrupts \subseteq (0..63)
  /\ SWInterrupts \subseteq Interrupts
  /\ Delegable \subseteq Interrupts
  /\ HDelegable \subseteq (Interrupts \cap hvip)
  /\ Exceptions \subseteq (0..23)
  /\ EDelegable \subseteq (0..23)
  /\ dcsr_ebreak_mask \subseteq Mode5
  /\ rnmi_version \in {"none", "0_2_1", "0_4"}
  /\ debug_mode \in {"none", "vector", "interrupt", "halt"}
  /\ debug_priority \in {"A_S_X_H", "A_S_H_X", "A_H_S_X", "H_A_S_X"}
  /\ TW_time_limit \in Nat
  /\ {nmi_is_latched, wfi_is_nop, wfi_resume_not_trap, defer_step_bug,
      trap_preserves_lr, xret_preserves_lr} \subseteq BOOLEAN

\* Numbers interrupts are delivered under.
IntIds == Interrupts \cup {i - 1 : i \in HDelegable}

\* Some interrupt of every nonempty set comes first.
ASSUME PriorityAssumption ==
  \A S \in SUBSET IntIds :
    S # {} => \E i \in S : \A j \in S : outranks(i, j)

-----------------------------------------------------------------------------
(***************************************************************************)
(* Selection of the pending and enabled interrupt.                         *)
(***************************************************************************)

mip == ip \cup swip

getPendingEnabledMIP == mie \cap mip

\* Mutant: VS-level interrupts keep their own numbers.
relocateVStoS_identity(S) == S

relocateVStoS(S) == (S \ (hvip \cup {i - 1 : i \in hvip})) \cup {i - 1 : i \in S \cap hvip}

\* Pending and locally enabled interrupts by the mode they would trap to.
getPendingLocallyEnabledBasic(m) ==
  LET P == getPendingEnabledMIP
  IN  CASE m = RISCV_MODE_M  -> P \ mideleg
        [] m = RISCV_MODE_S  -> (P \cap mideleg) \ hideleg
        [] m = RISCV_MODE_VS -> relocateVStoS(P \cap mideleg \cap hideleg)
        [] OTHER             -> {}

\* Mutant: the enable bit of the current mode is ignored.
getIE_ignoresIE(cur, IE, modeIE) == mode5Priority(cur) <= mode5Priority(modeIE)

\* Global enable of mode modeIE, with enable bit IE, seen from mode cur.
getIE(cur, IE, modeIE) ==
  \/ mode5Priority(cur) < mode5Priority(modeIE)
  \/ mode5Priority(cur) = mode5Priority(modeIE) /\ IE

\* Interrupts enabled for mode m when the hart is in mode cur with the given
\* status registers.
enabledInts(m, cur, ms, vs) ==
  LET IE == CASE m = RISCV_MODE_M  -> ms.MIE
              [] m = RISCV_MODE_S  -> ms.SIE
              [] m = RISCV_MODE_VS -> vs.SIE
              [] OTHER             -> FALSE
  IN  IF getIE(cur, IE, m) THEN getPendingLocallyEnabledBasic(m) ELSE {}

getHighestPriorityBasicMode(S, m) ==
  [id |-> CHOOSE i \in S : \A j \in S : outranks(i, j), priv |-> m]

(***************************************************************************)
(* What riscvRefreshPendingAndEnabled stores: M-level interrupts first,    *)
(* then S, then VS.                                                        *)
(***************************************************************************)
selectInt(cur, ms, vs) ==
  LET M  == enabledInts(RISCV_MODE_M, cur, ms, vs)
      S  == enabledInts(RISCV_MODE_S, cur, ms, vs)
      VS == enabledInts(RISCV_MODE_VS, cur, ms, vs)
  IN  IF M # {} THEN getHighestPriorityBasicMode(M, RISCV_MODE_M)
      ELSE IF S # {} THEN getHighestPriorityBasicMode(S, RISCV_MODE_S)
      ELSE IF VS # {} THEN getHighestPriorityBasicMode(VS, RISCV_MODE_VS)
      ELSE noInt

refreshed == selectInt(mode, mstatus, vsstatus)

interruptStepDisable == dcsr.step /\ ~dcsr.stepie

getPendingAndEnabledResethaltreq == net.resethaltreqS /\ ~net.deferint

getPendingAndEnabledHaltreq == net.haltreq /\ ~DM /\ ~net.deferint

getPendingAndEnabledNMI == dcsr.nmip /\ ~DM /\ mnstatus.NMIE /\ ~net.deferint

getPendingAndEnabled ==
  /\ pendEnab.id # RV_NO_INT
  /\ ~DM
  /\ ~interruptStepDisable
  /\ mnstatus.NMIE
  /\ ~net.deferint

riscvPendingAndEnabled ==
  \/ getPendingAndEnabledResethaltreq
  \/ getPendingAndEnabledHaltreq
  \/ getPendingAndEnabledNMI
  \/ getPendingAndEnabled

\* Mutant: a stepping hart may stall.
riscvResumeFromWFI_ignoresStep ==
  \/ net.restartwfi
  \/ getPendingEnabledMIP # {}
  \/ DM

riscvResumeFromWFI ==
  \/ net.restartwfi
  \/ getPendingEnabledMIP # {}
  \/ DM
  \/ dcsr.step

-----------------------------------------------------------------------------
(***************************************************************************)
(* Halting and restarting.  The inWFI net follows the WFI reason only when *)
(* the hart starts or stops running.                                       *)
(***************************************************************************)

riscvHalt(h, reason) ==
  [disable |-> h.disable \cup reason,
   inWFI   |-> \/ h.disable = {} /\ RVD_WFI \in reason
               \/ h.disable # {} /\ h.inWFI]

riscvRestart(h, reason) ==
  [disable |-> h.disable \ reason,
   inWFI   |-> h.disable \ reason # {} /\ h.inWFI]

Running == halted.disable = {}

\* Mutant: a waiting hart is woken only by interrupts it will take.
testWake_noResume(h, now, resume) ==
  IF now THEN riscvRestart(h, RVD_RESTART_NMI) ELSE h

\* How riscvTestInterrupt leaves a hart halted as h, given whether something
\* is pending and enabled and whether WFI may resume.
testWake(h, now, resume) ==
  IF now THEN riscvRestart(h, RVD_RESTART_NMI)
  ELSE IF h.disable \ RVD_RESTART_WFI # {} THEN h
  ELSE IF h.disable # {} /\ resume THEN riscvRestart(h, RVD_RESTART_WFI)
  ELSE h

riscvRefreshPendingAndEnabled == pendEnab' = refreshed'

\* Called last by its callers: it sees their other updates.
riscvTestInterrupt ==
  /\ riscvRefreshPendingAndEnabled
  /\ halted' = testWake(halted, riscvPendingAndEnabled', riscvResumeFromWFI')

handlePendingAndEnabled ==
  halted' = IF riscvPendingAndEnabled' THEN riscvRestart(halted, RVD_RESTART_NMI)
            ELSE halted

-----------------------------------------------------------------------------
(***************************************************************************)
(* Single-step timer: armed for one cycle, due when the cycle has passed.  *)
(* moved says that riscv->stepICount differs from the instruction count.   *)
(* Cycles pass when an instruction executes and when an exception is taken *)
(* at fetch.                                                               *)
(***************************************************************************)

enableDebugStep(dm, d) == ~dm /\ d.step

\* Mutant: stepICount is not recorded.
stepBreakpoint_keepsCount(s, dm, d) ==
  IF enableDebugStep(dm, d) THEN [s EXCEPT !.timer = "armed"] ELSE s

\* riscvSetStepBreakpoint, given the Debug mode state and dcsr it sees.
stepBreakpoint(s, dm, d) ==
  IF enableDebugStep(dm, d) THEN [timer |-> "armed", moved |-> FALSE] ELSE s

cyclePassed(s, moved) ==
  [timer |-> IF s.timer = "armed" THEN "due" ELSE s.timer,
   moved |-> s.moved \/ moved]

\* An instruction executes.
executed == step' = cyclePassed(step, TRUE)

-----------------------------------------------------------------------------
(***************************************************************************)
(* Debug mode entry and exit.                                              *)
(***************************************************************************)

riscvGetDCSRMode(d) ==
  IF ~d.v THEN d.prv
  ELSE IF d.prv <= RISCV_MODE_S THEN d.prv + RISCV_MODE_V
  ELSE RISCV_MODE_H

updateDMStall(h, stall) ==
  IF debug_mode # "halt" THEN h
  ELSE IF stall THEN riscvHalt(h, {RVD_DEBUG}) ELSE riscvRestart(h, {RVD_DEBUG})

\* enterDM on a hart halted as h; n is net as the caller leaves it.
enterDM(h, n) ==
  /\ net' = [n EXCEPT !.stepreq = FALSE]
  /\ IF DM THEN UNCHANGED <<DM, dcsr, mode>>
     ELSE /\ DM' = TRUE
          /\ dcsr' = [dcsr EXCEPT !.prv = getBaseMode(mode), !.v = modeIsVirtual(mode)]
          /\ mode' = RISCV_MODE_M
  /\ halted' = updateDMStall(h, TRUE)

\* Mutant: MPRV survives returns.
clearMPRV_never(ms, newMode) == ms

clearMPRV(ms, newMode) ==
  IF newMode # RISCV_MODE_M THEN [ms EXCEPT !.MPRV = FALSE] ELSE ms

\* leaveDM; s is the step timer as the caller leaves it.
leaveDM(s) ==
  LET newMode == getERETMode(riscvGetDCSRMode(dcsr))
  IN  /\ DM' = FALSE
      /\ mstatus' = clearMPRV(mstatus, newMode)
      /\ mode' = newMode
      /\ net' = [net EXCEPT !.stepreq = FALSE]
      /\ step' = stepBreakpoint(s, FALSE, dcsr)
      /\ UNCHANGED <<hstatus, vsstatus, mnstatus, dcsr, mie, pendVars, delegVars,
                     twTimer, EA>>
      /\ riscvRefreshPendingAndEnabled
      /\ halted' = updateDMStall(
                     testWake(halted, riscvPendingAndEnabled', riscvResumeFromWFI'),
                     FALSE)

-----------------------------------------------------------------------------
(***************************************************************************)
(* Taking exceptions and interrupts.                                       *)
(***************************************************************************)

getModeX(ecode) ==
  IF ecode \notin medeleg THEN RISCV_MODE_M
  ELSE IF ~modeIsVirtual(mode) THEN RISCV_MODE_S
  ELSE IF ecode \notin hedeleg THEN RISCV_MODE_S
  ELSE RISCV_MODE_VS

getExceptionModeX(ecode) ==
  LET modeX == getModeX(ecode)
  IN  IF priMap(modeX) < priMap(mode) THEN mode ELSE modeX

\* Mutant: the saved mode keeps its virtualisation bit.
trapM_fullMode ==
  /\ mstatus' = [mstatus EXCEPT !.MPIE = mstatus.MIE,
                                !.MIE  = FALSE,
                                !.MPP  = mode,
                                !.MPV  = modeIsVirtual(mode)]
  /\ UNCHANGED <<hstatus, vsstatus>>

trapM ==
  /\ mstatus' = [mstatus EXCEPT !.MPIE = mstatus.MIE,
                                !.MIE  = FALSE,
                                !.MPP  = getBaseMode(mode),
                                !.MPV  = modeIsVirtual(mode)]
  /\ UNCHANGED <<hstatus, vsstatus>>

\* Mutant: the virtualisation mode is not saved.
trapHS_noSPV ==
  /\ mstatus' = [mstatus EXCEPT !.SPIE = mstatus.SIE,
                                !.SIE  = FALSE,
                                !.SPP  = getBaseMode(mode) % 2]
  /\ UNCHANGED <<hstatus, vsstatus>>

trapHS ==
  /\ mstatus' = [mstatus EXCEPT !.SPIE = mstatus.SIE,
                                !.SIE  = FALSE,
                                !.SPP  = getBaseMode(mode) % 2]
  /\ hstatus' = [hstatus EXCEPT !.SPV = modeIsVirtual(mode)]
  /\ UNCHANGED vsstatus

trapVS ==
  /\ vsstatus' = [vsstatus EXCEPT !.SPIE = vsstatus.SIE,
                                  !.SIE  = FALSE,
                                  !.SPP  = getBaseMode(mode) % 2]
  /\ UNCHANGED <<mstatus, hstatus>>

\* The part of riscvTakeException outside Debug mode: trap to mode modeX.
trapTo(modeX) ==
  /\ \/ modeX = RISCV_MODE_M  /\ trapM
     \/ modeX = RISCV_MODE_S  /\ trapHS
     \/ modeX = RISCV_MODE_VS /\ trapVS
  /\ mode' = modeX
  /\ EA' = (EA /\ trap_preserves_lr)

\* riscvTakeException for a synchronous exception on a hart halted as h.  In
\* Debug mode it ends the program buffer.
riscvTakeException(ecode, h, n) ==
  IF DM
  THEN /\ enterDM(h, n)
       /\ UNCHANGED <<statusVars, EA>>
  ELSE /\ trapTo(getExceptionModeX(ecode))
       /\ halted' = h
       /\ net' = n
       /\ UNCHANGED <<DM, dcsr>>

\* A step in progress counts as done when a handler is entered.
stepDone(s) == [s EXCEPT !.moved = s.moved \/ ~defer_step_bug]

-----------------------------------------------------------------------------
(***************************************************************************)
(* The fetch callback (riscvIFetchExcept).                                 *)
(***************************************************************************)

\* The simulator reaches a fetch: the hart runs and no timer callback is due.
AtFetch == Running /\ step.timer # "due"

haltPending == getPendingAndEnabledResethaltreq \/ getPendingAndEnabledHaltreq

haltBeforeStep == debug_priority \in {"H_A_S_X", "A_H_S_X"}

\* Exceptions completed at fetch re-arm the step timer under defer_step_bug.
fetchStep(s, dm, d) == IF defer_step_bug THEN stepBreakpoint(s, dm, d) ELSE s

FetchHalt ==
  /\ AtFetch
  /\ haltPending
  /\ net.stepreq => haltBeforeStep
  /\ enterDM(halted, IF getPendingAndEnabledResethaltreq
                     THEN [net EXCEPT !.resethaltreqS = FALSE] ELSE net)
  /\ step' = cyclePassed(step, FALSE)
  /\ UNCHANGED <<statusVars, mnstatus, mie, pendVars, delegVars, pendEnab, twTimer, EA>>

FetchStep ==
  /\ AtFetch
  /\ net.stepreq
  /\ haltPending => ~haltBeforeStep
  /\ enterDM(halted, net)
  /\ step' = cyclePassed(step, FALSE)
  /\ UNCHANGED <<statusVars, mnstatus, mie, pendVars, delegVars, pendEnab, twTimer, EA>>

\* doNMI at fetch.  With RNMI the input is level sensitive and NMIE masks it;
\* without, taking it clears the pending bit.
FetchNMI ==
  /\ AtFetch
  /\ ~haltPending /\ ~net.stepreq
  /\ getPendingAndEnabledNMI
  /\ mode' = RISCV_MODE_M
  /\ IF rnmi_version # "none"
     THEN /\ mnstatus' = [NMIE |-> FALSE,
                          MNPP |-> getBaseMode(mode),
                          MNPV |-> modeIsVirtual(mode)]
          /\ UNCHANGED dcsr
     ELSE /\ dcsr' = [dcsr EXCEPT !.nmip = FALSE]
          /\ UNCHANGED mnstatus
  /\ step' = fetchStep(cyclePassed(step, FALSE), DM, dcsr)
  /\ UNCHANGED <<statusVars, DM, mie, pendVars, delegVars, halted, net, twTimer, EA>>
  /\ IF pendEnab.id # RV_NO_INT THEN riscvRefreshPendingAndEnabled
     ELSE UNCHANGED pendEnab

FetchInterrupt ==
  /\ AtFetch
  /\ ~haltPending /\ ~net.stepreq /\ ~getPendingAndEnabledNMI
  /\ getPendingAndEnabled
  /\ pendEnab' = [pendEnab EXCEPT !.id = RV_NO_INT]
  /\ trapTo(pendEnab.priv)
  /\ step' = fetchStep(cyclePassed(stepDone(step), FALSE), DM, dcsr)
  /\ UNCHANGED <<mnstatus, dcsr, DM, mie, pendVars, delegVars, halted, net, twTimer>>

\* Nothing diverts the fetch: an instruction executes.
fetchOK == AtFetch /\ ~net.stepreq /\ ~riscvPendingAndEnabled

-----------------------------------------------------------------------------
(***************************************************************************)
(* Instructions.                                                           *)
(***************************************************************************)

\* Any instruction that touches none of this state, returns in Debug mode that
\* do nothing included.
Nop ==
  /\ fetchOK
  /\ executed
  /\ UNCHANGED <<mode, statusVars, mnstatus, dcsr, DM, mie, pendVars, delegVars,
                 pendEnab, halted, net, twTimer, EA>>

\* An instruction raises exception ecode.
raise(ecode) ==
  /\ riscvTakeException(ecode, halted, net)
  /\ executed
  /\ UNCHANGED <<mnstatus, mie, pendVars, delegVars, pendEnab>>

Exception(ecode) ==
  /\ fetchOK
  /\ raise(ecode)
  /\ UNCHANGED twTimer

reasonMap(m) ==
  CASE m = RISCV_MODE_M  -> 11
    [] m = RISCV_MODE_S  -> 9
    [] m = RISCV_MODE_VS -> 10
    [] OTHER             -> 8

riscvECALL == Exception(reasonMap(mode))

riscvEBREAK ==
  IF DM \/ mode \in dcsr.ebreak
  THEN /\ fetchOK
       /\ enterDM(halted, net)
       /\ executed
       /\ UNCHANGED <<statusVars, mnstatus, mie, pendVars, delegVars, pendEnab,
                      twTimer, EA>>
  ELSE Exception(riscv_E_Breakpoint)

\* What all exception returns end with (doERETCommon).
doERETCommon(newMode) ==
  /\ mode' = newMode
  /\ EA' = (EA /\ xret_preserves_lr)
  /\ executed
  /\ UNCHANGED <<dcsr, DM, mie, pendVars, delegVars, net, twTimer>>
  /\ riscvTestInterrupt

addV(newMode, V) ==
  IF V /\ newMode # RISCV_MODE_M /\ "H" \in Arch THEN newMode + RISCV_MODE_V ELSE newMode

riscvMRET ==
  LET newMode == addV(getERETMode(mstatus.MPP), mstatus.MPV)
  IN  /\ fetchOK /\ mode = RISCV_MODE_M /\ ~DM
      /\ mstatus' = clearMPRV([mstatus EXCEPT !.MIE  = mstatus.MPIE,
                                              !.MPIE = TRUE,
                                              !.MPP  = riscvGetMinMode,
                                              !.MPV  = FALSE], newMode)
      /\ UNCHANGED <<hstatus, vsstatus, mnstatus>>
      /\ doERETCommon(newMode)

riscvHSRET ==
  LET newMode == getERETMode(mstatus.SPP) + (IF hstatus.SPV THEN RISCV_MODE_V ELSE 0)
  IN  /\ fetchOK /\ mode \in {RISCV_MODE_S, RISCV_MODE_M} /\ "S" \in Arch /\ ~DM
      /\ mstatus' = clearMPRV([mstatus EXCEPT !.SIE  = mstatus.SPIE,
                                              !.SPIE = TRUE,
                                              !.SPP  = riscvGetMinMode], newMode)
      /\ hstatus' = [hstatus EXCEPT !.SPV = FALSE]
      /\ UNCHANGED <<vsstatus, mnstatus>>
      /\ doERETCommon(newMode)

riscvVSRET ==
  LET newMode == getERETMode(vsstatus.SPP) + RISCV_MODE_V
  IN  /\ fetchOK /\ mode = RISCV_MODE_VS
      /\ vsstatus' = [vsstatus EXCEPT !.SIE  = vsstatus.SPIE,
                                      !.SPIE = TRUE,
                                      !.SPP  = riscvGetMinMode]
      /\ mstatus' = clearMPRV(mstatus, newMode)
      /\ UNCHANGED <<hstatus, mnstatus>>
      /\ doERETCommon(newMode)

\* Return from a resumable NMI: not held off in Debug mode, and MPRV is kept.
riscvMNRET ==
  /\ fetchOK /\ mode = RISCV_MODE_M /\ rnmi_version # "none"
  /\ mnstatus' = [mnstatus EXCEPT !.NMIE = TRUE]
  /\ UNCHANGED statusVars
  /\ doERETCommon(addV(getERETMode(mnstatus.MNPP), mnstatus.MNPV))

\* DRET outside Debug mode is an illegal instruction.
riscvDRET == fetchOK /\ DM /\ leaveDM(cyclePassed(step, TRUE))

-----------------------------------------------------------------------------
(***************************************************************************)
(* WFI and WRS.                                                            *)
(***************************************************************************)

noTrap == -1

getWFITrap(isWRS) ==
  IF mode = RISCV_MODE_M THEN noTrap
  ELSE IF mstatus.TW THEN riscv_E_IllegalInstruction
  ELSE IF modeIsVirtual(mode) /\ hstatus.VTW THEN riscv_E_VirtualInstruction
  ELSE IF mode \notin {RISCV_MODE_U, RISCV_MODE_VU} THEN noTrap
  ELSE IF isWRS \/ "S" \notin Arch THEN noTrap
  ELSE IF mode = RISCV_MODE_VU THEN riscv_E_VirtualInstruction
  ELSE riscv_E_IllegalInstruction

getWFILimit(isWRS) == IF isWRS \/ ~wfi_is_nop THEN TW_time_limit ELSE 0

\* Mutant: a timer left over from an earlier wait keeps running.
limitTimer_noClear(trap) == IF trap # noTrap THEN "armed" ELSE twTimer

\* The bounded-wait timer of a new wait: set, or cleared of an earlier one.
limitTimer(trap) == IF trap # noTrap THEN "armed" ELSE "off"

\* The wait begins, or a trap bounds it, or it is taken at once.
scheduleWFITrap(isWRS, stall) ==
  LET trap  == getWFITrap(isWRS)
      limit == getWFILimit(isWRS)
  IN  IF trap # noTrap /\ limit = 0
      THEN raise(trap) /\ UNCHANGED twTimer
      ELSE /\ twTimer' = limitTimer(trap)
           /\ halted' = stall
           /\ executed
           /\ UNCHANGED <<mode, statusVars, mnstatus, dcsr, DM, mie, pendVars,
                          delegVars, pendEnab, net, EA>>

riscvWFI ==
  LET resumeFirst == wfi_resume_not_trap \/ getWFILimit(FALSE) # 0
      stall       == IF riscvResumeFromWFI \/ wfi_is_nop THEN halted
                     ELSE riscvHalt(halted, {RVD_WFI})
  IN  /\ fetchOK
      /\ ~(resumeFirst /\ riscvResumeFromWFI)
      /\ scheduleWFITrap(FALSE, stall)

riscvWRSNTO ==
  /\ fetchOK
  /\ "Zawrs" \in Extensions
  /\ EA /\ ~riscvResumeFromWFI
  /\ scheduleWFITrap(TRUE, riscvHalt(halted, {RVD_WFI, RVD_WRS}))

riscvWRSSTO ==
  /\ fetchOK
  /\ "Zawrs" \in Extensions
  /\ EA /\ ~riscvResumeFromWFI
  /\ halted' = riscvHalt(halted, {RVD_WFI, RVD_WRS, RVD_STO})
  /\ twTimer' = "armed"
  /\ executed
  /\ UNCHANGED <<mode, statusVars, mnstatus, dcsr, DM, mie, pendVars, delegVars,
                 pendEnab, net, EA>>

\* LR takes the reservation, SC gives it up whether it stores or not.
setEA(value) ==
  /\ "A" \in Extensions
  /\ fetchOK
  /\ EA' = value
  /\ executed
  /\ UNCHANGED <<mode, statusVars, mnstatus, dcsr, DM, mie, pendVars, delegVars,
                 pendEnab, halted, net, twTimer>>

LR == setEA(TRUE)
SC == EA /\ setEA(FALSE)

-----------------------------------------------------------------------------
(***************************************************************************)
(* CSR writes.  A write may change any of the fields in CSRFields that the *)
(* CSR shows; masks and WARL fields decide what is stored.                 *)
(***************************************************************************)

\* A CSR instruction executes in one of the modes ms.
csrw(ms) == fetchOK /\ mode \in ms /\ executed

HS == IF "S" \in Arch THEN {RISCV_MODE_S, RISCV_MODE_M} ELSE {}

bit(fields, f, old) == IF f \in fields \cap CSRFields THEN BOOLEAN ELSE {old}

val(fields, f, S, old) == IF f \in fields \cap CSRFields THEN S ELSE {old}

mstatusFields == {"MIE", "MPIE", "MPP", "MPV", "SIE", "SPIE", "SPP", "MPRV", "TW"}
sstatusFields == {"SIE", "SPIE", "SPP"}

\* Values a write of mstatus through the given fields asks for.
statusValues(fields) ==
  {[MIE |-> a, MPIE |-> b, MPP |-> c, MPV |-> d, SIE |-> e, SPIE |-> f,
    SPP |-> g, MPRV |-> h, TW |-> i] :
      a \in bit(fields, "MIE", mstatus.MIE),
      b \in bit(fields, "MPIE", mstatus.MPIE),
      c \in val(fields, "MPP", 0..3, mstatus.MPP),
      d \in bit(fields, "MPV", mstatus.MPV),
      e \in bit(fields, "SIE", mstatus.SIE),
      f \in bit(fields, "SPIE", mstatus.SPIE),
      g \in val(fields, "SPP", 0..1, mstatus.SPP),
      h \in bit(fields, "MPRV", mstatus.MPRV),
      i \in bit(fields, "TW", mstatus.TW)}

\* Mutant: enabling interrupts does not test them.
postStatusW_noTest(raised) == UNCHANGED <<pendEnab, halted>>

\* Interrupts are tested only when an enable bit rises.
postStatusW(raised) ==
  IF raised THEN riscvTestInterrupt ELSE UNCHANGED <<pendEnab, halted>>

rises(old, new) == new /\ ~old

statusW(fields) ==
  \E new \in statusValues(fields) :
    /\ mstatus' = IF riscvHasMode(new.MPP) THEN new
                  ELSE [new EXCEPT !.MPP = mstatus.MPP]
    /\ UNCHANGED <<mode, hstatus, vsstatus, mnstatus, dcsr, DM, mie, pendVars,
                   delegVars, net, twTimer, EA>>
    /\ postStatusW(rises(mstatus.MIE, new.MIE) \/ rises(mstatus.SIE, new.SIE))

mstatusW == csrw({RISCV_MODE_M}) /\ statusW(mstatusFields)

sstatusW == csrw(HS) /\ statusW(sstatusFields)

hstatusW ==
  /\ csrw(HS) /\ "H" \in Arch
  /\ \E v \in bit({"SPV"}, "SPV", hstatus.SPV), w \in bit({"VTW"}, "VTW", hstatus.VTW) :
       hstatus' = [SPV |-> v, VTW |-> w]
  /\ UNCHANGED <<mode, mstatus, vsstatus, mnstatus, dcsr, DM, mie, pendVars,
                 delegVars, pendEnab, halted, net, twTimer, EA>>

\* vsstatus, and sstatus accessed in VS mode.
vsstatusW ==
  /\ csrw(HS \cup {RISCV_MODE_VS}) /\ "H" \in Arch
  /\ \E a \in bit(sstatusFields, "SIE", vsstatus.SIE),
        b \in bit(sstatusFields, "SPIE", vsstatus.SPIE),
        c \in val(sstatusFields, "SPP", 0..1, vsstatus.SPP) :
       /\ vsstatus' = [SIE |-> a, SPIE |-> b, SPP |-> c]
       /\ UNCHANGED <<mode, mstatus, hstatus, mnstatus, dcsr, DM, mie, pendVars,
                      delegVars, net, twTimer, EA>>
       /\ postStatusW(rises(vsstatus.SIE, a))

\* NMIE can be set by software, not cleared.
mnstatusW ==
  /\ csrw({RISCV_MODE_M}) /\ rnmi_version # "none"
  /\ \E nmie \in bit({"NMIE"}, "NMIE", mnstatus.NMIE),
        pp \in val({"MNPP"}, "MNPP", 0..3, mnstatus.MNPP) :
       /\ mnstatus' = [mnstatus EXCEPT
                         !.NMIE = mnstatus.NMIE \/ nmie,
                         !.MNPP = IF riscvHasMode(pp) THEN pp ELSE mnstatus.MNPP]
       /\ UNCHANGED <<mode, statusVars, dcsr, DM, mie, pendVars, delegVars, net,
                      twTimer, EA>>
       /\ postStatusW(rises(mnstatus.NMIE, nmie))

\* Values of an interrupt mask register after a write through wMask.
masked(old, wMask) == {(old \ wMask) \cup new : new \in SUBSET wMask}

\* A write that changed a register tests interrupts; one that did not is a nop.
testIfChanged(changed) ==
  IF changed THEN riscvTestInterrupt ELSE UNCHANGED <<pendEnab, halted>>

\* Bits of mie written through mie, sie, hie and vsie.
ieMasks ==
  CASE mode = RISCV_MODE_M  -> {Interrupts}
    [] mode = RISCV_MODE_S  -> {mideleg \ hvip, mideleg \cap hvip}
    [] mode = RISCV_MODE_VS -> {mideleg \cap hideleg}
    [] OTHER                -> {}

ieW ==
  /\ csrw(Mode5) /\ "mie" \in CSRFields
  /\ \E wMask \in ieMasks : mie' \in masked(mie, wMask)
  /\ UNCHANGED <<mode, statusVars, mnstatus, dcsr, DM, pendVars, delegVars, net,
                 twTimer, EA>>
  /\ testIfChanged(mie' # mie)

\* Bits of the software pending register written through mip, sip, hip or hvip,
\* and vsip.
ipMasks ==
  CASE mode = RISCV_MODE_M  -> {SWInterrupts}
    [] mode = RISCV_MODE_S  -> {SWInterrupts \cap mideleg \cap {1},
                                SWInterrupts \cap mideleg \cap hvip}
    [] mode = RISCV_MODE_VS -> {SWInterrupts \cap mideleg \cap hideleg \cap {2}}
    [] OTHER                -> {}

ipW ==
  /\ csrw(Mode5) /\ "mip" \in CSRFields
  /\ \E wMask \in ipMasks : swip' \in masked(swip, wMask)
  /\ UNCHANGED <<mode, statusVars, mnstatus, dcsr, DM, mie, ip, delegVars, net,
                 twTimer, EA>>
  /\ testIfChanged(swip' # swip)

midelegW ==
  /\ csrw({RISCV_MODE_M}) /\ "S" \in Arch /\ "mideleg" \in CSRFields
  /\ mideleg' \in masked(mideleg, Delegable)
  /\ UNCHANGED <<mode, statusVars, mnstatus, dcsr, DM, mie, pendVars, hideleg,
                 medeleg, hedeleg, net, twTimer, EA>>
  /\ testIfChanged(mideleg' # mideleg)

hidelegW ==
  /\ csrw(HS) /\ "H" \in Arch /\ "hideleg" \in CSRFields
  /\ hideleg' \in masked(hideleg, HDelegable)
  /\ UNCHANGED <<mode, statusVars, mnstatus, dcsr, DM, mie, pendVars, mideleg,
                 medeleg, hedeleg, net, twTimer, EA>>
  /\ testIfChanged(hideleg' # hideleg)

edelegW ==
  /\ \/ /\ csrw({RISCV_MODE_M}) /\ "S" \in Arch /\ "medeleg" \in CSRFields
        /\ medeleg' \in SUBSET EDelegable
        /\ UNCHANGED hedeleg
     \/ /\ csrw(HS) /\ "H" \in Arch /\ "hedeleg" \in CSRFields
        /\ hedeleg' \in SUBSET EDelegable
        /\ UNCHANGED medeleg
  /\ UNCHANGED <<mode, statusVars, mnstatus, dcsr, DM, mie, pendVars, mideleg,
                 hideleg, pendEnab, halted, net, twTimer, EA>>

\* In Debug mode: prv and v revert when they name a mode the hart lacks, and a
\* stale step request is dropped.
dcsrWInt ==
  /\ DM
  /\ \E st \in bit({"step"}, "step", dcsr.step),
        ie \in bit({"stepie"}, "stepie", dcsr.stepie),
        pv \in val({"prv"}, "prv", 0..3, dcsr.prv),
        v  \in val({"v"}, "v", BOOLEAN, dcsr.v),
        eb \in val({"ebreak"}, "ebreak", SUBSET Modes, dcsr.ebreak) :
       LET new == [dcsr EXCEPT !.step = st, !.stepie = ie, !.prv = pv, !.v = v,
                               !.ebreak = eb]
       IN  dcsr' = IF riscvHasMode(riscvGetDCSRMode(new)) THEN new
                   ELSE [new EXCEPT !.prv = dcsr.prv, !.v = dcsr.v]
  /\ net' = [net EXCEPT !.stepreq = FALSE]
  /\ UNCHANGED <<mode, statusVars, mnstatus, DM, mie, pendVars, delegVars,
                 pendEnab, halted, twTimer, EA>>

dcsrW == csrw({RISCV_MODE_M}) /\ dcsrWInt

-----------------------------------------------------------------------------
(***************************************************************************)
(* Net ports, other harts, the debugger and timers.  A port callback is    *)
(* called with the value written; the value may be the one it had.         *)
(***************************************************************************)

posedge(old, new) == ~old /\ new
negedge(old, new) == old /\ ~new

\* State no port callback below touches.
portFrame == UNCHANGED <<hstatus, vsstatus, mie, swip, delegVars, twTimer>>

interruptPortCB ==
  /\ \E i \in Interrupts, new \in BOOLEAN :
       ip' = IF new THEN ip \cup {i} ELSE ip \ {i}
  /\ UNCHANGED <<mode, mstatus, mnstatus, dcsr, DM, net, step, EA>>
  /\ portFrame
  /\ riscvTestInterrupt

nmiPortCB ==
  /\ "nmi" \in Ports
  /\ \E new \in BOOLEAN :
       /\ halted' = IF ~DM /\ posedge(dcsr.nmip, new)
                    THEN riscvRestart(halted, RVD_RESTART_NMI) ELSE halted
       /\ dcsr' = [dcsr EXCEPT !.nmip = new \/ (nmi_is_latched /\ dcsr.nmip)]
  /\ UNCHANGED <<mode, mstatus, mnstatus, DM, ip, pendEnab, net, step, EA>>
  /\ portFrame

\* Mutant: a waiting hart is not restarted.
haltreqPortCB_noRestart ==
  /\ "haltreq" \in Ports
  /\ \E new \in BOOLEAN : net' = [net EXCEPT !.haltreq = new]
  /\ UNCHANGED <<mode, mstatus, mnstatus, dcsr, DM, ip, pendEnab, halted, step, EA>>
  /\ portFrame

haltreqPortCB ==
  /\ "haltreq" \in Ports
  /\ \E new \in BOOLEAN :
       /\ halted' = IF ~DM /\ posedge(net.haltreq, new)
                    THEN riscvRestart(halted, RVD_RESTART_NMI) ELSE halted
       /\ net' = [net EXCEPT !.haltreq = new]
  /\ UNCHANGED <<mode, mstatus, mnstatus, dcsr, DM, ip, pendEnab, step, EA>>
  /\ portFrame

resethaltreqPortCB ==
  /\ "resethaltreq" \in Ports
  /\ \E new \in BOOLEAN : net' = [net EXCEPT !.resethaltreq = new]
  /\ UNCHANGED <<mode, mstatus, mnstatus, dcsr, DM, ip, pendEnab, halted, step, EA>>
  /\ portFrame

\* Release of deferint looks at the cached interrupt only.
deferintPortCB ==
  /\ "deferint" \in Ports
  /\ \E new \in BOOLEAN :
       /\ net' = [net EXCEPT !.deferint = new]
       /\ UNCHANGED <<mode, mstatus, mnstatus, dcsr, DM, ip, pendEnab, step, EA>>
       /\ IF negedge(net.deferint, new) THEN handlePendingAndEnabled
          ELSE UNCHANGED halted
  /\ portFrame

restartwfiPortCB ==
  /\ "restartwfi" \in Ports
  /\ \E new \in BOOLEAN :
       /\ net' = [net EXCEPT !.restartwfi = new]
       /\ UNCHANGED <<mode, mstatus, vsstatus, mnstatus, dcsr, DM, mie, pendVars,
                      mideleg, hideleg, step, EA>>
       /\ IF posedge(net.restartwfi, new) THEN riscvTestInterrupt
          ELSE UNCHANGED <<pendEnab, halted>>
  /\ portFrame

\* An exception taken outside instruction execution.
takeAsync(ecode, h, n) ==
  /\ riscvTakeException(ecode, h, n)
  /\ step' = stepDone(step)
  /\ UNCHANGED <<mnstatus, mie, pendVars, delegVars, pendEnab>>

\* A trap bounds the current WFI wait.
blimitTrap == RVD_WFI \in halted.disable /\ getWFITrap(FALSE) # noTrap

\* Mutant: the trap leaves the hart stalled.
handleBLimitTrap_noRestart(n) == takeAsync(getWFITrap(FALSE), halted, n)

handleBLimitTrap(n) ==
  takeAsync(getWFITrap(FALSE), riscvRestart(halted, RVD_RESTART_WFI), n)

\* Rising edge: the pending wait traps, or an illegal instruction is raised.
illegalInstrPortCB ==
  /\ "illegal_instr" \in Ports
  /\ \E new \in BOOLEAN :
       LET n == [net EXCEPT !.illegalInst = new]
       IN  \/ /\ ~posedge(net.illegalInst, new)
              /\ net' = n
              /\ UNCHANGED <<mode, statusVars, mnstatus, dcsr, DM, mie, pendVars,
                             delegVars, pendEnab, halted, step, EA>>
           \/ /\ posedge(net.illegalInst, new)
              /\ IF blimitTrap THEN handleBLimitTrap(n)
                 ELSE takeAsync(riscv_E_IllegalInstruction,
                                riscvRestart(halted, RVD_RESTART_NMI), n)
  /\ UNCHANGED twTimer

\* SC_valid low drops the reservation (clearEA) and nothing else.
SCValidPortCB ==
  /\ "SC_valid" \in Ports
  /\ EA' = FALSE
  /\ UNCHANGED <<mode, mstatus, mnstatus, dcsr, DM, ip, pendEnab, halted, net, step>>
  /\ portFrame

\* Mutant: a hart waiting in WRS is not woken.
riscvAbortExclusiveAccess_noWake ==
  /\ "store" \in Ports
  /\ EA
  /\ EA' = FALSE
  /\ UNCHANGED <<mode, mstatus, mnstatus, dcsr, DM, ip, pendEnab, halted, net, step>>
  /\ portFrame

\* Another hart stores to the reservation set.
riscvAbortExclusiveAccess ==
  /\ "store" \in Ports
  /\ EA
  /\ EA' = FALSE
  /\ halted' = IF RVD_WRS \in halted.disable
               THEN riscvRestart(halted, RVD_RESTART_WFI) ELSE halted
  /\ UNCHANGED <<mode, mstatus, mnstatus, dcsr, DM, ip, pendEnab, net, step>>
  /\ portFrame

resetMstatus ==
  [MIE |-> FALSE, MPIE |-> FALSE, MPP |-> riscvGetMinMode, MPV |-> FALSE,
   SIE |-> FALSE, SPIE |-> FALSE, SPP |-> 0, MPRV |-> FALSE, TW |-> FALSE]

resetDcsr ==
  [step |-> FALSE, stepie |-> FALSE, prv |-> RISCV_MODE_M, v |-> FALSE,
   nmip |-> FALSE, ebreak |-> dcsr_ebreak_mask]

\* Leaving Debug mode on the way (riscvSetDM) refreshes the cached interrupt
\* for the mode saved in dcsr, before mode and mstatus are reset.
riscvReset ==
  LET h       == riscvRestart(halted, RVD_RESTART_RESET)
      newMode == getERETMode(riscvGetDCSRMode(dcsr))
  IN  /\ mnstatus' = [mnstatus EXCEPT !.NMIE = rnmi_version # "0_4"]
      /\ DM' = FALSE
      /\ mode' = RISCV_MODE_M
      /\ mstatus' = resetMstatus
      /\ dcsr' = resetDcsr
      /\ net' = [net EXCEPT !.reset = FALSE, !.stepreq = FALSE,
                            !.resethaltreqS = net.resethaltreq]
      /\ EA' = FALSE
      /\ IF DM THEN /\ step' = stepBreakpoint(step, FALSE, dcsr)
                    /\ pendEnab' = selectInt(newMode, mstatus, vsstatus)
                    /\ halted' = updateDMStall(h, FALSE)
         ELSE /\ halted' = h
              /\ UNCHANGED <<step, pendEnab>>

resetPortCB ==
  /\ "reset" \in Ports
  /\ \/ /\ ~net.reset
        /\ net' = [net EXCEPT !.reset = TRUE]
        /\ halted' = riscvHalt(halted, {RVD_RESET})
        /\ UNCHANGED <<mode, mstatus, mnstatus, dcsr, DM, pendEnab, step, EA>>
     \/ net.reset /\ riscvReset
  /\ UNCHANGED ip
  /\ portFrame

\* The debugger writes the DM, DMStall and dcsr registers; it lets a halted
\* hart run its program buffer only in Debug mode.
writeDM ==
  \/ /\ "enterDM" \in Ports /\ ~DM
     /\ enterDM(halted, net)
     /\ UNCHANGED <<mstatus, mnstatus, ip, pendEnab, step, EA>>
     /\ portFrame
  \/ "leaveDM" \in Ports /\ DM /\ leaveDM(step)

writeDMStall ==
  /\ "DMStall" \in Ports /\ DM
  /\ halted' = updateDMStall(halted, FALSE)
  /\ UNCHANGED <<mode, mstatus, mnstatus, dcsr, DM, ip, pendEnab, net, step, EA>>
  /\ portFrame

writeDcsr == "dcsr" \in Ports /\ dcsrWInt /\ UNCHANGED step

\* The step timer expires.
riscvStepExcept ==
  /\ step.timer = "due"
  /\ IF step.moved
     THEN /\ net' = [net EXCEPT !.stepreq = enableDebugStep(DM, dcsr)]
          /\ step' = [step EXCEPT !.timer = "off"]
     ELSE /\ net' = [net EXCEPT !.stepreq = FALSE]
          /\ step' = stepBreakpoint([step EXCEPT !.timer = "off"], DM, dcsr)
  /\ UNCHANGED <<mode, statusVars, mnstatus, dcsr, DM, mie, pendVars, delegVars,
                 pendEnab, halted, twTimer, EA>>

\* The time limit of a wait expires; a timer left over from a wait that ended
\* finds no hart waiting.
expiredTW ==
  /\ twTimer = "armed"
  /\ twTimer' = "off"
  /\ IF RVD_STO \notin halted.disable /\ blimitTrap
     THEN handleBLimitTrap(net)
     ELSE /\ halted' = IF RVD_STO \in halted.disable
                       THEN riscvRestart(halted, RVD_RESTART_WFI) ELSE halted
          /\ UNCHANGED <<mode, statusVars, mnstatus, dcsr, DM, mie, pendVars,
                         delegVars, pendEnab, net, step, EA>>

-----------------------------------------------------------------------------
Init ==
  /\ mode = RISCV_MODE_M
  /\ mstatus = resetMstatus
  /\ hstatus = [SPV |-> FALSE, VTW |-> FALSE]
  /\ vsstatus = [SIE |-> FALSE, SPIE |-> FALSE, SPP |-> 0]
  /\ mnstatus = [NMIE |-> rnmi_version # "0_4", MNPP |-> riscvGetMinMode,
                 MNPV |-> FALSE]
  /\ dcsr = resetDcsr
  /\ DM = FALSE
  /\ mie = {} /\ ip = {} /\ swip = {}
  /\ mideleg = IF "H" \in Arch THEN Interrupts \cap hvip ELSE {}
  /\ hideleg = {} /\ medeleg = {} /\ hedeleg = {}
  /\ pendEnab = noInt
  /\ halted = [disable |-> {}, inWFI |-> FALSE]
  /\ net = [reset |-> FALSE, resethaltreq |-> FALSE, resethaltreqS |-> FALSE,
            haltreq |-> FALSE, stepreq |-> FALSE, deferint |-> FALSE,
            restartwfi |-> FALSE, illegalInst |-> FALSE]
  /\ step = [timer |-> "off", moved |-> FALSE]
  /\ twTimer = "off"
  /\ EA = FALSE

\* What the simulator runs at a fetch point: a diversion or an instruction.
Fetch == FetchHalt \/ FetchStep \/ FetchNMI \/ FetchInterrupt

Trap == riscvECALL \/ riscvEBREAK \/ \E e \in Exceptions : Exception(e)

Return == riscvMRET \/ riscvHSRET \/ riscvVSRET \/ riscvMNRET \/ riscvDRET

Wait == riscvWFI \/ riscvWRSNTO \/ riscvWRSSTO

CSRWrite ==
  \/ mstatusW \/ sstatusW \/ hstatusW \/ vsstatusW \/ mnstatusW
  \/ ieW \/ ipW \/ midelegW \/ hidelegW \/ edelegW \/ dcsrW

Processor == Fetch \/ Nop \/ Trap \/ Return \/ Wait \/ LR \/ SC \/ CSRWrite

Port ==
  \/ interruptPortCB \/ nmiPortCB \/ haltreqPortCB \/ resethaltreqPortCB
  \/ deferintPortCB \/ restartwfiPortCB \/ illegalInstrPortCB \/ SCValidPortCB
  \/ riscvAbortExclusiveAccess \/ resetPortCB

Debugger == writeDM \/ writeDMStall \/ writeDcsr

Timer == riscvStepExcept \/ expiredTW

Next == Processor \/ Port \/ Debugger \/ Timer

(***************************************************************************)
(* The simulator keeps running a hart that is not halted and keeps its     *)
(* timers going; nothing obliges ports, programs or the debugger to act.   *)
(***************************************************************************)
Fairness == WF_vars(Processor) /\ WF_vars(riscvStepExcept) /\ WF_vars(expiredTW)

Spec == Init /\ [][Next]_vars /\ Fairness

=============================================================================
