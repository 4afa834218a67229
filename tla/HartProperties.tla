--------------------------- MODULE HartProperties ---------------------------
(***************************************************************************)
(* What makes the hart of module Hart correct.                             *)
(***************************************************************************)
EXTENDS Hart

BaseModes == {m \in Modes : ~modeIsVirtual(m)}

Reasons == {RVD_WFI, RVD_RESET, RVD_DEBUG, RVD_WRS, RVD_STO}

MstatusRec == [MIE : BOOLEAN, MPIE : BOOLEAN, MPP : BaseModes, MPV : BOOLEAN,
               SIE : BOOLEAN, SPIE : BOOLEAN, SPP : 0..1, MPRV : BOOLEAN,
               TW : BOOLEAN]
HstatusRec  == [SPV : BOOLEAN, VTW : BOOLEAN]
VsstatusRec == [SIE : BOOLEAN, SPIE : BOOLEAN, SPP : 0..1]
MnstatusRec == [NMIE : BOOLEAN, MNPP : BaseModes, MNPV : BOOLEAN]
DcsrRec     == [step : BOOLEAN, stepie : BOOLEAN, prv : BaseModes, v : BOOLEAN,
                nmip : BOOLEAN, ebreak : SUBSET Mode5]
HaltRec     == [disable : SUBSET Reasons, inWFI : BOOLEAN]
NetRec      == [reset : BOOLEAN, resethaltreq : BOOLEAN, resethaltreqS : BOOLEAN,
                haltreq : BOOLEAN, stepreq : BOOLEAN, deferint : BOOLEAN,
                restartwfi : BOOLEAN, illegalInst : BOOLEAN]
StepRec     == [timer : {"off", "armed", "due"}, moved : BOOLEAN]

ModeType == mode \in Modes

StatusType ==
  /\ mstatus \in MstatusRec
  /\ hstatus \in HstatusRec
  /\ hstatus.SPV => "H" \in Arch
  /\ vsstatus \in VsstatusRec

NMIType == mnstatus \in MnstatusRec

DebugType == DM \in BOOLEAN /\ dcsr \in DcsrRec /\ riscvGetDCSRMode(dcsr) \in Modes

InterruptType ==
  /\ mie \in SUBSET Interrupts
  /\ ip \in SUBSET Interrupts
  /\ swip \in SUBSET Interrupts
  /\ mideleg \in SUBSET Interrupts
  /\ hideleg \in SUBSET HDelegable
  /\ "S" \notin Arch => mideleg = {}
  /\ "H" \notin Arch => hideleg = {}

DelegType ==
  /\ medeleg \in SUBSET EDelegable
  /\ hedeleg \in SUBSET EDelegable
  /\ "S" \notin Arch => medeleg = {}

PendEnabType ==
  /\ pendEnab \in [id : IntIds \cup {RV_NO_INT}, priv : Mode5]
  /\ pendEnab.id # RV_NO_INT => pendEnab.priv \in Modes

HaltType == halted \in HaltRec

NetType == net \in NetRec

TimerType == step \in StepRec /\ twTimer \in {"off", "armed"}

EAType == EA \in BOOLEAN

\* Every variable has its type; in particular the hart is in one of its modes,
\* and so are the modes MRET, MNRET and DRET return to.
TypeOK ==
  /\ ModeType /\ StatusType /\ NMIType /\ DebugType /\ InterruptType /\ DelegType
  /\ PendEnabType /\ HaltType /\ NetType /\ TimerType /\ EAType

-----------------------------------------------------------------------------
(***************************************************************************)
(* Interrupt delivery, stated on the registers alone.                      *)
(***************************************************************************)

\* Target mode of interrupt i: what mideleg and hideleg say.
Target(i) ==
  IF i \notin mideleg THEN RISCV_MODE_M
  ELSE IF i \notin hideleg THEN RISCV_MODE_S
  ELSE RISCV_MODE_VS

GlobalEnable(m) ==
  CASE m = RISCV_MODE_M  -> mstatus.MIE
    [] m = RISCV_MODE_S  -> mstatus.SIE
    [] m = RISCV_MODE_VS -> vsstatus.SIE

\* The hart must take i: pending, enabled, and its target is above the current
\* mode, or is the current mode with interrupts on.
Deliverable(i) ==
  /\ i \in mip \cap mie
  /\ \/ mode5Priority(mode) < mode5Priority(Target(i))
     \/ mode = Target(i) /\ GlobalEnable(Target(i))

\* A VS-level interrupt is delivered under the number of its S counterpart.
DeliveredAs(i) == IF Target(i) = RISCV_MODE_VS /\ i \in hvip THEN i - 1 ELSE i

\* i goes before j: its target mode is higher, or the same with the number it
\* is delivered under of higher priority.
Before(i, j) ==
  \/ mode5Priority(Target(i)) > mode5Priority(Target(j))
  \/ Target(i) = Target(j) /\ outranks(DeliveredAs(i), DeliveredAs(j))

\* Nothing holds interrupts back: Debug mode, an NMI handler, a step without
\* stepie, the deferint artifact.
InterruptsOpen == ~DM /\ mnstatus.NMIE /\ ~interruptStepDisable /\ ~net.deferint

(***************************************************************************)
(* An interrupt the fetch callback is about to take from the cached        *)
(* pendEnab is deliverable now, goes to the mode it is delegated to, and no *)
(* other deliverable interrupt goes before it.                             *)
(***************************************************************************)
InterruptJustified ==
  getPendingAndEnabled =>
    \E i \in Interrupts :
      /\ Deliverable(i)
      /\ pendEnab = [id |-> DeliveredAs(i), priv |-> Target(i)]
      /\ \A j \in Interrupts : Deliverable(j) => Before(i, j)

(***************************************************************************)
(* The cache never hides an interrupt: while interrupts are open, some     *)
(* interrupt is deliverable only if one is registered to be taken.         *)
(***************************************************************************)
NoInterruptMissed ==
  InterruptsOpen /\ (\E i \in Interrupts : Deliverable(i)) => getPendingAndEnabled

-----------------------------------------------------------------------------
(***************************************************************************)
(* Waiting.                                                                *)
(***************************************************************************)

Waiting == halted.disable # {} /\ halted.disable \subseteq RVD_RESTART_WFI

(***************************************************************************)
(* A hart that only waits (WFI, WRS) has nothing to wake up for: no        *)
(* interrupt, NMI or halt request is due, and no interrupt is pending and  *)
(* locally enabled, even if globally masked (riscvTestInterrupt).          *)
(***************************************************************************)
NoMissedWakeup == Waiting => ~riscvPendingAndEnabled /\ ~riscvResumeFromWFI

\* A hart stalled in WRS still holds the reservation it waits on: when it is
\* lost the hart is woken.
WrsHoldsReservation == RVD_WRS \in halted.disable => EA

(***************************************************************************)
(* The bounded-wait timer belongs to the wait in progress: a wait it will  *)
(* end is one that set it, so no limit left over from an earlier wait ends *)
(* a WFI or WRS.NTO that has none, and none that has a limit lacks it.     *)
(***************************************************************************)
WaitLimitCurrent ==
  RVD_WFI \in halted.disable =>
    (twTimer = "armed" <=>
       \/ RVD_STO \in halted.disable
       \/ getWFITrap(RVD_WRS \in halted.disable) # noTrap)

\* A wait with a time limit ends.
BoundedWaitEnds ==
  (RVD_WFI \in halted.disable /\ twTimer = "armed") ~> (RVD_WFI \notin halted.disable)

-----------------------------------------------------------------------------
(***************************************************************************)
(* Privilege.                                                              *)
(***************************************************************************)

SavedIn(pp, pv) == pp = getBaseMode(mode) /\ pv = modeIsVirtual(mode)

(***************************************************************************)
(* Outside Debug mode and reset the privilege of the hart rises only       *)
(* through a trap, NMI or Debug entry, and the interrupted mode is then    *)
(* saved where the return from that handler finds it.  (An NMI without     *)
(* RNMI saves no mode: the code takes it as fatal.)                        *)
(***************************************************************************)
RiseSavesMode ==
  [][(~DM /\ ~net.reset /\ mode5Priority(mode') > mode5Priority(mode)) =>
       \/ DM' /\ SavedIn(dcsr'.prv, dcsr'.v)
       \/ mode' = RISCV_MODE_M /\ ~mnstatus'.NMIE /\ SavedIn(mnstatus'.MNPP, mnstatus'.MNPV)
       \/ mode' = RISCV_MODE_M /\ rnmi_version = "none" /\ dcsr.nmip /\ ~dcsr'.nmip
       \/ mode' = RISCV_MODE_M /\ ~mstatus'.MIE /\ SavedIn(mstatus'.MPP, mstatus'.MPV)
       \/ mode' = RISCV_MODE_S /\ ~mstatus'.SIE /\ SavedIn(mstatus'.SPP, hstatus'.SPV)
       \/ /\ mode' = RISCV_MODE_VS /\ modeIsVirtual(mode)
          /\ ~vsstatus'.SIE /\ vsstatus'.SPP = getBaseMode(mode)]_vars

\* MPRV never survives a return below M mode, so it acts in M mode only (MNRET
\* keeps it, so this is for harts without RNMI).
MPRVOnlyInM == mstatus.MPRV => mode = RISCV_MODE_M

-----------------------------------------------------------------------------
(***************************************************************************)
(* Debug mode.                                                             *)
(***************************************************************************)

(***************************************************************************)
(* Outside Debug mode with dcsr.step set, either the step is done and the  *)
(* hart will enter Debug mode, or no instruction has executed since it was *)
(* armed: never do two instructions execute in one step.                   *)
(***************************************************************************)
SingleStep ==
  ~DM /\ dcsr.step =>
    \/ net.stepreq
    \/ step.timer = "due"
    \/ step.timer = "armed" /\ ~step.moved

\* A step ends in Debug mode, whatever the stepped instruction: a trap, a WFI or
\* an interrupt included.
StepCompletes == (~DM /\ dcsr.step) ~> (DM \/ net.reset)

\* A halt request held high brings the hart into Debug mode, also out of a wait.
HaltreqServed ==
  (net.haltreq /\ ~DM) ~> (DM \/ ~net.haltreq \/ net.deferint \/ net.reset)

=============================================================================
