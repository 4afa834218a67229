----------------------------- MODULE HartProofs -----------------------------
(***************************************************************************)
(* Proofs about the hart for every configuration: types, waiting and       *)
(* single stepping, then interrupt delivery.                               *)
(***************************************************************************)
EXTENDS HartProperties, TLAPS

-----------------------------------------------------------------------------
(***************************************************************************)
(* Modes.                                                                  *)
(***************************************************************************)

\* Modes of a hart, as the set of mode numbers its extensions bring.
LEMMA ModesAre ==
  /\ Modes \subseteq {0, 1, 3, 4, 5}
  /\ 3 \in Modes
  /\ 0 \in Modes <=> "U" \in Arch
  /\ 1 \in Modes <=> "S" \in Arch
  /\ 4 \in Modes <=> "H" \in Arch
  /\ 5 \in Modes <=> "H" \in Arch
BY DEF Modes, Mode5, riscvHasMode, RISCV_MODE_U, RISCV_MODE_S, RISCV_MODE_M,
       RISCV_MODE_VU, RISCV_MODE_VS, RISCV_MODE_V

\* The base modes are M, S and U as far as the hart has them.
LEMMA BaseModesAre == \A m \in BaseModes : m \in Modes /\ m \in {0, 1, 3} /\ m < 4
<1> SUFFICES ASSUME NEW m \in BaseModes
             PROVE  m \in Modes /\ m \in {0, 1, 3} /\ m < 4
  OBVIOUS
<1>1. m \in Modes /\ ~(m >= 4)
  BY DEF BaseModes, modeIsVirtual, RISCV_MODE_V
<1> QED
  BY <1>1, ModesAre

\* The base of a mode of the hart is a mode of the hart.
LEMMA BaseMode ==
  ASSUME NEW m \in Modes
  PROVE  getBaseMode(m) \in BaseModes
<1>1. m \in {0, 1, 3, 4, 5}
  BY ModesAre
<1>2. getBaseMode(m) \in {0, 1, 3} /\ (m = 4 => getBaseMode(m) = 0)
      /\ (m = 5 => getBaseMode(m) = 1) /\ (m < 4 => getBaseMode(m) = m)
  BY <1>1 DEF getBaseMode
<1>3. getBaseMode(m) \in Modes
  BY <1>1, <1>2, ModesAre, ArchAssumption
<1> QED
  BY <1>2, <1>3 DEF BaseModes, modeIsVirtual, RISCV_MODE_V

\* Exception returns land in a mode of the hart.
LEMMA ERETMode ==
  ASSUME NEW m \in {0, 1, 2, 3, 4, 5}
  PROVE  /\ getERETMode(m) \in Modes
         /\ m < 4 => getERETMode(m) \in BaseModes
<1>1. riscvGetMinMode \in Modes /\ riscvGetMinMode \in {0, 1, 3}
  BY ModesAre DEF riscvGetMinMode, RISCV_MODE_U, RISCV_MODE_S, RISCV_MODE_M
<1>2. riscvHasMode(m) => m \in Modes
  BY DEF riscvHasMode, Modes, Mode5, RISCV_MODE_U, RISCV_MODE_S, RISCV_MODE_M,
         RISCV_MODE_VU, RISCV_MODE_VS, RISCV_MODE_V
<1> QED
  BY <1>1, <1>2 DEF getERETMode, BaseModes, modeIsVirtual, RISCV_MODE_V

\* Adding virtualisation to a base mode below M.
LEMMA AddVMode ==
  ASSUME NEW b \in BaseModes, NEW V
  PROVE  addV(b, V) \in Modes
<1>1. b \in Modes /\ b \in {0, 1, 3}
  BY ModesAre DEF BaseModes, modeIsVirtual, RISCV_MODE_V
<1> QED
  BY <1>1, ModesAre DEF addV, RISCV_MODE_M, RISCV_MODE_V

\* The saved modes are base modes; the lowest mode is one of them.
LEMMA MinMode ==
  /\ riscvGetMinMode \in BaseModes
  /\ "S" \in Arch => riscvGetMinMode = 0
  /\ RISCV_MODE_M \in BaseModes
<1>1. riscvGetMinMode \in Modes /\ riscvGetMinMode \in {0, 1, 3}
  BY ModesAre DEF riscvGetMinMode, RISCV_MODE_U, RISCV_MODE_S, RISCV_MODE_M
<1>2. "S" \in Arch => riscvGetMinMode = 0
  BY ArchAssumption DEF riscvGetMinMode, RISCV_MODE_U
<1> QED
  BY <1>1, <1>2, ModesAre DEF BaseModes, modeIsVirtual, RISCV_MODE_V, RISCV_MODE_M

-----------------------------------------------------------------------------
(***************************************************************************)
(* Interrupt selection.                                                    *)
(***************************************************************************)

\* No interrupt is enabled for any mode.
NoneEnabled(cur, ms, vs) ==
  /\ enabledInts(RISCV_MODE_M, cur, ms, vs) = {}
  /\ enabledInts(RISCV_MODE_S, cur, ms, vs) = {}
  /\ enabledInts(RISCV_MODE_VS, cur, ms, vs) = {}

\* The part of the type invariant that selection reads.
IntTypes ==
  /\ mie \in SUBSET Interrupts
  /\ ip \in SUBSET Interrupts
  /\ swip \in SUBSET Interrupts
  /\ hideleg \in SUBSET HDelegable

\* Interrupts offered to a mode have numbers of this hart.
LEMMA LocallyEnabledTyped ==
  ASSUME IntTypes, NEW m \in {RISCV_MODE_M, RISCV_MODE_S, RISCV_MODE_VS}
  PROVE  getPendingLocallyEnabledBasic(m) \subseteq IntIds
<1>1. getPendingEnabledMIP \subseteq Interrupts
  BY DEF IntTypes, getPendingEnabledMIP, mip
<1>2. relocateVStoS(getPendingEnabledMIP \cap mideleg \cap hideleg) \subseteq IntIds
  BY <1>1, ConfigAssumption DEF relocateVStoS, IntTypes, IntIds
<1> QED
  BY <1>1, <1>2 DEF getPendingLocallyEnabledBasic, IntIds, RISCV_MODE_M,
     RISCV_MODE_S, RISCV_MODE_VS

\* The interrupts enabled for a mode are interrupts of the hart.
LEMMA EnabledTyped ==
  ASSUME IntTypes, NEW m \in {RISCV_MODE_M, RISCV_MODE_S, RISCV_MODE_VS},
         NEW cur, NEW ms, NEW vs
  PROVE  enabledInts(m, cur, ms, vs) \subseteq IntIds
<1>1. enabledInts(m, cur, ms, vs) \in {getPendingLocallyEnabledBasic(m), {}}
  BY DEF enabledInts
<1> QED
  BY <1>1, LocallyEnabledTyped

\* Interrupt numbers are not RV_NO_INT.
LEMMA IntIdsNat == RV_NO_INT \notin IntIds /\ IntIds \subseteq Int
<1>1. Interrupts \subseteq 0..63 /\ HDelegable \subseteq {2, 6, 10}
  BY ConfigAssumption DEF hvip
<1>2. \A i \in HDelegable : i - 1 \in {1, 5, 9}
  BY <1>1
<1>3. \A i \in IntIds : i \in 0..63 \/ i \in {1, 5, 9}
  BY <1>1, <1>2 DEF IntIds
<1> QED
  BY <1>3 DEF RV_NO_INT

\* The interrupt chosen from a nonempty set belongs to it and comes first.
LEMMA Highest ==
  ASSUME NEW S \in SUBSET IntIds, S # {}, NEW m
  PROVE  /\ getHighestPriorityBasicMode(S, m).id \in S
         /\ getHighestPriorityBasicMode(S, m).priv = m
         /\ \A j \in S : outranks(getHighestPriorityBasicMode(S, m).id, j)
<1>1. \E i \in S : \A j \in S : outranks(i, j)
  BY PriorityAssumption
<1> QED
  BY <1>1 DEF getHighestPriorityBasicMode

\* What selection returns: nothing, or the first interrupt of the highest mode
\* that has one enabled.
LEMMA Select ==
  ASSUME IntTypes, NEW cur, NEW ms, NEW vs
  PROVE  \/ selectInt(cur, ms, vs) = noInt /\ NoneEnabled(cur, ms, vs)
         \/ \E m \in {RISCV_MODE_M, RISCV_MODE_S, RISCV_MODE_VS} :
              LET E == enabledInts(m, cur, ms, vs)
              IN  /\ E # {}
                  /\ selectInt(cur, ms, vs) = getHighestPriorityBasicMode(E, m)
                  /\ selectInt(cur, ms, vs).id \in E
                  /\ selectInt(cur, ms, vs).id # RV_NO_INT
                  /\ selectInt(cur, ms, vs).priv = m
                  /\ \A j \in E : outranks(selectInt(cur, ms, vs).id, j)
                  /\ m # RISCV_MODE_M => enabledInts(RISCV_MODE_M, cur, ms, vs) = {}
                  /\ m = RISCV_MODE_VS => enabledInts(RISCV_MODE_S, cur, ms, vs) = {}
<1> DEFINE E(m) == enabledInts(m, cur, ms, vs)
           sel  == selectInt(cur, ms, vs)
           X    == {RISCV_MODE_M, RISCV_MODE_S, RISCV_MODE_VS}
<1>0. ASSUME NEW m \in X, E(m) # {}, sel = getHighestPriorityBasicMode(E(m), m)
      PROVE  /\ sel.id \in E(m) /\ sel.id # RV_NO_INT /\ sel.priv = m
             /\ \A j \in E(m) : outranks(sel.id, j)
  <2>1. E(m) \in SUBSET IntIds
    BY EnabledTyped
  <2>2. E(m) # {}
    BY <1>0
  <2> HIDE DEF E, sel
  <2>3. /\ getHighestPriorityBasicMode(E(m), m).id \in E(m)
        /\ getHighestPriorityBasicMode(E(m), m).priv = m
        /\ \A j \in E(m) : outranks(getHighestPriorityBasicMode(E(m), m).id, j)
    BY <2>1, <2>2, Highest
  <2> QED
    BY <2>1, <2>3, <1>0, IntIdsNat
<1>1. CASE E(RISCV_MODE_M) # {}
  <2>1. sel = getHighestPriorityBasicMode(E(RISCV_MODE_M), RISCV_MODE_M)
    BY <1>1 DEF selectInt
  <2>2. RISCV_MODE_M # RISCV_MODE_VS
    BY DEF RISCV_MODE_M, RISCV_MODE_VS
  <2> QED
    BY <1>0, <1>1, <2>1, <2>2
<1>2. CASE E(RISCV_MODE_M) = {} /\ E(RISCV_MODE_S) # {}
  <2>1. sel = getHighestPriorityBasicMode(E(RISCV_MODE_S), RISCV_MODE_S)
    BY <1>2 DEF selectInt
  <2>2. RISCV_MODE_S # RISCV_MODE_VS
    BY DEF RISCV_MODE_S, RISCV_MODE_VS
  <2> QED
    BY <1>0, <1>2, <2>1, <2>2
<1>3. CASE E(RISCV_MODE_M) = {} /\ E(RISCV_MODE_S) = {} /\ E(RISCV_MODE_VS) # {}
  <2>1. sel = getHighestPriorityBasicMode(E(RISCV_MODE_VS), RISCV_MODE_VS)
    BY <1>3 DEF selectInt
  <2> QED
    BY <1>0, <1>3, <2>1
<1>4. CASE E(RISCV_MODE_M) = {} /\ E(RISCV_MODE_S) = {} /\ E(RISCV_MODE_VS) = {}
  BY <1>4 DEF selectInt, NoneEnabled
<1> QED
  BY <1>1, <1>2, <1>3, <1>4

-----------------------------------------------------------------------------
(***************************************************************************)
(* Type correctness.                                                       *)
(***************************************************************************)

PendType(p) ==
  /\ p \in [id : IntIds \cup {RV_NO_INT}, priv : Mode5]
  /\ p.id # RV_NO_INT => p.priv \in Modes

\* The interrupt selected is one of the hart, with a target mode that exists, or none.
LEMMA SelectTyped ==
  ASSUME IntTypes, "S" \notin Arch => mideleg = {}, "H" \notin Arch => hideleg = {},
         NEW cur, NEW ms, NEW vs
  PROVE  PendType(selectInt(cur, ms, vs))
<1> DEFINE sel == selectInt(cur, ms, vs)
<1>1. CASE sel = noInt
  BY <1>1 DEF PendType, noInt, Mode5, RISCV_MODE_U
<1>2. ASSUME NEW m \in {RISCV_MODE_M, RISCV_MODE_S, RISCV_MODE_VS},
             enabledInts(m, cur, ms, vs) # {},
             sel = getHighestPriorityBasicMode(enabledInts(m, cur, ms, vs), m),
             sel.id \in enabledInts(m, cur, ms, vs), sel.priv = m
      PROVE  PendType(sel)
  <2>1. m \in Modes
    <3>1. getPendingLocallyEnabledBasic(m) # {}
      BY <1>2 DEF enabledInts
    <3>2. m = RISCV_MODE_S => mideleg # {}
      BY <3>1 DEF getPendingLocallyEnabledBasic, RISCV_MODE_S, RISCV_MODE_M, RISCV_MODE_VS
    <3>3. m = RISCV_MODE_VS => hideleg # {}
      BY <3>1 DEF getPendingLocallyEnabledBasic, relocateVStoS, RISCV_MODE_S, RISCV_MODE_M, RISCV_MODE_VS
    <3> QED
      BY <3>2, <3>3, ModesAre DEF RISCV_MODE_S, RISCV_MODE_M, RISCV_MODE_VS
  <2>2. sel.id \in IntIds
    BY <1>2, EnabledTyped
  <2>3. sel = [id |-> sel.id, priv |-> sel.priv]
    BY <1>2 DEF getHighestPriorityBasicMode
  <2>4. m \in Mode5
    BY DEF Mode5
  <2> HIDE DEF sel
  <2> QED
    BY <1>2, <2>1, <2>2, <2>3, <2>4 DEF PendType
<1> QED
  BY <1>1, <1>2, Select

\* Conjuncts whose variables a step leaves alone.
LEMMA Frames ==
  /\ ModeType /\ UNCHANGED mode => ModeType'
  /\ StatusType /\ UNCHANGED <<mstatus, hstatus, vsstatus>> => StatusType'
  /\ NMIType /\ UNCHANGED mnstatus => NMIType'
  /\ DebugType /\ UNCHANGED <<DM, dcsr>> => DebugType'
  /\ InterruptType /\ UNCHANGED <<mie, ip, swip, mideleg, hideleg>> => InterruptType'
  /\ DelegType /\ UNCHANGED <<medeleg, hedeleg>> => DelegType'
  /\ PendEnabType /\ UNCHANGED pendEnab => PendEnabType'
  /\ HaltType /\ UNCHANGED halted => HaltType'
  /\ NetType /\ UNCHANGED net => NetType'
  /\ TimerType /\ UNCHANGED <<step, twTimer>> => TimerType'
  /\ EAType /\ UNCHANGED EA => EAType'
<1>1. ModeType /\ UNCHANGED mode => ModeType'
  BY DEF ModeType
<1>2. StatusType /\ UNCHANGED <<mstatus, hstatus, vsstatus>> => StatusType'
  BY DEF StatusType
<1>3. NMIType /\ UNCHANGED mnstatus => NMIType'
  BY DEF NMIType
<1>4. DebugType /\ UNCHANGED <<DM, dcsr>> => DebugType'
  BY DEF DebugType, riscvGetDCSRMode
<1>5. InterruptType /\ UNCHANGED <<mie, ip, swip, mideleg, hideleg>> => InterruptType'
  BY DEF InterruptType
<1>6. DelegType /\ UNCHANGED <<medeleg, hedeleg>> => DelegType'
  BY DEF DelegType
<1>7. PendEnabType /\ UNCHANGED pendEnab => PendEnabType'
  BY DEF PendEnabType
<1>8. HaltType /\ UNCHANGED halted => HaltType'
  BY DEF HaltType
<1>9. NetType /\ UNCHANGED net => NetType'
  BY DEF NetType
<1>10. TimerType /\ UNCHANGED <<step, twTimer>> => TimerType'
  BY DEF TimerType
<1>11. EAType /\ UNCHANGED EA => EAType'
  BY DEF EAType
<1> QED
  BY <1>1, <1>2, <1>3, <1>4, <1>5, <1>6, <1>7, <1>8, <1>9, <1>10, <1>11

\* Halting and restarting keep the type of halted.
LEMMA HaltTyped ==
  ASSUME NEW h \in HaltRec
  PROVE  /\ \A r \in SUBSET Reasons : riscvHalt(h, r) \in HaltRec
         /\ \A r : riscvRestart(h, r) \in HaltRec
         /\ \A b \in BOOLEAN : updateDMStall(h, b) \in HaltRec
<1>1. \A r \in SUBSET Reasons : riscvHalt(h, r) \in HaltRec
  BY DEF riscvHalt, HaltRec
<1>2. \A r : riscvRestart(h, r) \in HaltRec
  BY DEF riscvRestart, HaltRec
<1>3. \A b \in BOOLEAN : updateDMStall(h, b) \in HaltRec
  BY <1>1, <1>2 DEF updateDMStall, Reasons
<1> QED
  BY <1>1, <1>2, <1>3

\* The step timer operations keep its type.
LEMMA StepTyped ==
  ASSUME NEW s \in StepRec
  PROVE  /\ \A b \in BOOLEAN : cyclePassed(s, b) \in StepRec
         /\ \A dm, d : stepBreakpoint(s, dm, d) \in StepRec
         /\ stepDone(s) \in StepRec
         /\ \A dm, d : fetchStep(s, dm, d) \in StepRec
<1>1. \A b \in BOOLEAN : cyclePassed(s, b) \in StepRec
  BY DEF cyclePassed, StepRec
<1>2. \A dm, d : stepBreakpoint(s, dm, d) \in StepRec
  BY DEF stepBreakpoint, StepRec
<1>3. stepDone(s) \in StepRec
  BY ConfigAssumption DEF stepDone, StepRec
<1>4. \A dm, d : fetchStep(s, dm, d) \in StepRec
  BY <1>2 DEF fetchStep
<1> QED
  BY <1>1, <1>2, <1>3, <1>4

\* An instruction that executes keeps the timer types.
LEMMA ExecutedTyped ==
  ASSUME TimerType, executed, twTimer' \in {"off", "armed"}
  PROVE  TimerType'
BY StepTyped DEF TimerType, executed

\* A refresh of the cached interrupt stores a typed one.
LEMMA RefreshedTyped == InterruptType => PendType(refreshed)
BY SelectTyped DEF InterruptType, IntTypes, refreshed

\* A refresh of the cached interrupt leaves an interrupt or none.
LEMMA RefreshTyped ==
  ASSUME InterruptType', riscvRefreshPendingAndEnabled
  PROVE  PendEnabType'
<1>1. (InterruptType => PendType(refreshed))'
  BY RefreshedTyped, PTL
<1> QED
  BY <1>1 DEF riscvRefreshPendingAndEnabled, PendType, PendEnabType

\* riscvTestInterrupt, called last, keeps the types of what it changes.
LEMMA TestTyped ==
  ASSUME HaltType, InterruptType', riscvTestInterrupt
  PROVE  PendEnabType' /\ HaltType'
<1>1. PendEnabType'
  BY RefreshTyped DEF riscvTestInterrupt
<1>2. halted' \in {halted, riscvRestart(halted, RVD_RESTART_NMI),
                   riscvRestart(halted, RVD_RESTART_WFI)}
  BY DEF riscvTestInterrupt, testWake
<1> QED
  BY <1>1, <1>2, HaltTyped DEF HaltType

-----------------------------------------------------------------------------
(***************************************************************************)
(* Operations keep types.                                                  *)
(***************************************************************************)

\* Entering Debug mode keeps types; dcsr then names the mode that was left.
LEMMA EnterDMTyped ==
  ASSUME ModeType, DebugType, NEW h \in HaltRec, NEW n \in NetRec, enterDM(h, n)
  PROVE  ModeType' /\ DebugType' /\ HaltType' /\ NetType'
<1>1. NetType'
  BY DEF enterDM, NetType, NetRec
<1>2. HaltType'
  BY HaltTyped DEF enterDM, HaltType
<1>3. CASE DM
  BY <1>1, <1>2, <1>3, Frames DEF enterDM
<1>4. CASE ~DM
  <2>1. ModeType' /\ DM'
    BY <1>4, ModesAre DEF enterDM, ModeType, RISCV_MODE_M
  <2>2. getBaseMode(mode) \in BaseModes /\ mode \in {0, 1, 3, 4, 5}
    BY BaseMode, ModesAre DEF ModeType
  <2>3. modeIsVirtual(mode) \in BOOLEAN
    BY DEF modeIsVirtual
  <2>4. dcsr' = [dcsr EXCEPT !.prv = getBaseMode(mode), !.v = modeIsVirtual(mode)]
    BY <1>4 DEF enterDM
  <2>5. dcsr \in DcsrRec
    BY DEF DebugType
  <2>6. /\ dcsr' \in DcsrRec
        /\ dcsr'.prv = getBaseMode(mode) /\ dcsr'.v = modeIsVirtual(mode)
    BY <2>2, <2>3, <2>4, <2>5, Zenon DEF DcsrRec
  <2>7. riscvGetDCSRMode(dcsr') = mode
    <3>1. CASE modeIsVirtual(mode)
      <4>1. dcsr'.v /\ dcsr'.prv = getBaseMode(mode)
        BY <2>6, <3>1
      <4> QED
        BY <2>2, <3>1, <4>1 DEF riscvGetDCSRMode, getBaseMode, modeIsVirtual,
           RISCV_MODE_V, RISCV_MODE_S
    <3>2. CASE ~modeIsVirtual(mode)
      <4>1. ~dcsr'.v /\ dcsr'.prv = getBaseMode(mode)
        BY <2>6, <3>2
      <4> QED
        BY <2>2, <3>2, <4>1 DEF riscvGetDCSRMode, getBaseMode, modeIsVirtual,
           RISCV_MODE_V
    <3> QED
      BY <3>1, <3>2
  <2> QED
    BY <1>1, <1>2, <2>1, <2>6, <2>7 DEF DebugType, ModeType
<1> QED
  BY <1>3, <1>4

\* A trap to a mode of the hart keeps types.
LEMMA TrapTyped ==
  ASSUME ModeType, StatusType, EAType, NEW modeX \in Modes, trapTo(modeX)
  PROVE  ModeType' /\ StatusType' /\ EAType'
<1>1. ModeType' /\ EAType'
  BY ConfigAssumption DEF trapTo, ModeType, EAType
<1>2. mode \in {0, 1, 3, 4, 5} /\ getBaseMode(mode) \in BaseModes
  BY BaseMode, ModesAre DEF ModeType
<1>3. getBaseMode(mode) % 2 \in 0..1
  BY <1>2 DEF getBaseMode
<1>4. modeIsVirtual(mode) \in BOOLEAN /\ (modeIsVirtual(mode) => "H" \in Arch)
  BY <1>2, ModesAre DEF ModeType, modeIsVirtual, RISCV_MODE_V
<1>5. mstatus \in MstatusRec /\ hstatus \in HstatusRec /\ vsstatus \in VsstatusRec
  BY DEF StatusType
<1>6. CASE trapM
  <2>1. mstatus' \in MstatusRec
    BY <1>2, <1>4, <1>5, <1>6, Zenon DEF trapM, MstatusRec
  <2>2. UNCHANGED <<hstatus, vsstatus>>
    BY <1>6 DEF trapM
  <2> QED
    BY <1>1, <2>1, <2>2 DEF StatusType
<1>7. CASE trapHS
  <2>1. mstatus' \in MstatusRec
    BY <1>3, <1>5, <1>7, Zenon DEF trapHS, MstatusRec
  <2>2. hstatus' \in HstatusRec /\ hstatus'.SPV = modeIsVirtual(mode)
    BY <1>4, <1>5, <1>7, Zenon DEF trapHS, HstatusRec
  <2>3. hstatus'.SPV => "H" \in Arch
    BY <1>4, <2>2
  <2>4. UNCHANGED vsstatus
    BY <1>7 DEF trapHS
  <2> QED
    BY <1>1, <2>1, <2>2, <2>3, <2>4 DEF StatusType
<1>8. CASE trapVS
  <2>1. vsstatus' \in VsstatusRec
    BY <1>3, <1>5, <1>8, Zenon DEF trapVS, VsstatusRec
  <2>2. UNCHANGED <<mstatus, hstatus>>
    BY <1>8 DEF trapVS
  <2> QED
    BY <1>1, <2>1, <2>2 DEF StatusType
<1> QED
  BY <1>1, <1>6, <1>7, <1>8 DEF trapTo

\* Exceptions are taken in a mode of the hart.
LEMMA ExceptionMode ==
  ASSUME ModeType, DelegType, NEW ecode
  PROVE  getExceptionModeX(ecode) \in Modes
<1>1. getModeX(ecode) \in Modes
  <2>1. mode \in {0, 1, 3, 4, 5}
    BY ModesAre DEF ModeType
  <2> QED
    BY <2>1, ModesAre DEF getModeX, DelegType, ModeType, modeIsVirtual, RISCV_MODE_V,
       RISCV_MODE_M, RISCV_MODE_S, RISCV_MODE_VS
<1> QED
  BY <1>1 DEF getExceptionModeX, ModeType

\* Trap entry keeps the types: the modes saved and entered exist.
LEMMA TakeExceptionTyped ==
  ASSUME TypeOK, NEW ecode, NEW h \in HaltRec, NEW n \in NetRec,
         riscvTakeException(ecode, h, n)
  PROVE  ModeType' /\ StatusType' /\ DebugType' /\ HaltType' /\ NetType' /\ EAType'
<1>1. CASE DM
  BY <1>1, EnterDMTyped, Frames DEF riscvTakeException, TypeOK, statusVars
<1>2. CASE ~DM
  <2>1. /\ trapTo(getExceptionModeX(ecode)) /\ halted' = h /\ net' = n
        /\ UNCHANGED <<DM, dcsr>>
    BY <1>2 DEF riscvTakeException
  <2>2. ModeType' /\ StatusType' /\ EAType'
    BY <2>1, TrapTyped, ExceptionMode DEF TypeOK
  <2> QED
    BY <2>1, <2>2, Frames DEF TypeOK, HaltType, NetType
<1> QED
  BY <1>1, <1>2

\* Waking a hart keeps its type.
LEMMA WakeTyped ==
  ASSUME NEW h \in HaltRec, NEW now, NEW resume
  PROVE  testWake(h, now, resume) \in HaltRec
<1>1. testWake(h, now, resume) \in {h, riscvRestart(h, RVD_RESTART_NMI),
                                    riscvRestart(h, RVD_RESTART_WFI)}
  BY DEF testWake
<1> QED
  BY <1>1, HaltTyped

\* Clearing MPRV on a return keeps the type of mstatus.
LEMMA ClearMPRVTyped ==
  ASSUME NEW r \in MstatusRec, NEW m
  PROVE  clearMPRV(r, m) \in MstatusRec
BY DEF clearMPRV, MstatusRec

\* Leaving Debug mode keeps types.
LEMMA LeaveDMTyped ==
  ASSUME TypeOK, NEW s \in StepRec, leaveDM(s)
  PROVE  TypeOK'
<1>1. ModeType'
  <2>1. riscvGetDCSRMode(dcsr) \in {0, 1, 3, 4, 5}
    BY ModesAre DEF TypeOK, DebugType
  <2> QED
    BY <2>1, ERETMode DEF leaveDM, ModeType
<1>2. StatusType'
  <2>1. mstatus' \in MstatusRec
    BY ClearMPRVTyped DEF leaveDM, TypeOK, StatusType
  <2>2. UNCHANGED <<hstatus, vsstatus>>
    BY DEF leaveDM
  <2> QED
    BY <2>1, <2>2 DEF StatusType, TypeOK
<1>3. DebugType'
  BY DEF leaveDM, TypeOK, DebugType, riscvGetDCSRMode
<1>4. InterruptType'
  BY Frames DEF leaveDM, TypeOK, pendVars, delegVars
<1>5. PendEnabType'
  BY <1>4, RefreshTyped DEF leaveDM
<1>6. HaltType'
  <2>1. halted \in HaltRec
    BY DEF TypeOK, HaltType
  <2>2. testWake(halted, riscvPendingAndEnabled', riscvResumeFromWFI') \in HaltRec
    BY <2>1, WakeTyped
  <2> QED
    BY <2>2, HaltTyped DEF leaveDM, HaltType
<1>7. NetType'
  BY DEF leaveDM, TypeOK, NetType, NetRec
<1>8. TimerType'
  BY StepTyped DEF leaveDM, TypeOK, TimerType
<1>9. NMIType' /\ DelegType' /\ EAType'
  BY Frames DEF leaveDM, TypeOK, delegVars
<1> QED
  BY <1>1, <1>2, <1>3, <1>4, <1>5, <1>6, <1>7, <1>8, <1>9 DEF TypeOK

\* Returns from handlers keep types.
LEMMA ERETCommonTyped ==
  ASSUME TypeOK, NEW newMode \in Modes, doERETCommon(newMode), StatusType', NMIType'
  PROVE  TypeOK'
<1>1. ModeType' /\ EAType'
  BY ConfigAssumption DEF doERETCommon, ModeType, EAType, TypeOK
<1>2. DebugType' /\ InterruptType' /\ DelegType' /\ NetType'
  BY Frames DEF doERETCommon, TypeOK, pendVars, delegVars
<1>3. PendEnabType' /\ HaltType'
  BY <1>2, TestTyped DEF doERETCommon, TypeOK
<1>4. TimerType'
  BY ExecutedTyped DEF doERETCommon, TypeOK, TimerType
<1> QED
  BY <1>1, <1>2, <1>3, <1>4 DEF TypeOK

\* Returns land in modes that exist (the WARL rules of MPP, MNPP and dcsr.prv).
LEMMA ReturnTyped ==
  ASSUME TypeOK, Return
  PROVE  TypeOK'
<1>0. /\ mode \in Modes /\ mstatus \in MstatusRec /\ hstatus \in HstatusRec
      /\ vsstatus \in VsstatusRec /\ mnstatus \in MnstatusRec
      /\ step \in StepRec
  BY DEF TypeOK, ModeType, StatusType, NMIType, TimerType
<1>1. CASE riscvMRET
  <2> DEFINE newMode == addV(getERETMode(mstatus.MPP), mstatus.MPV)
             new     == [mstatus EXCEPT !.MIE = mstatus.MPIE, !.MPIE = TRUE,
                                        !.MPP = riscvGetMinMode, !.MPV = FALSE]
  <2>1. mstatus.MPP \in BaseModes
    BY <1>0 DEF MstatusRec
  <2>2. newMode \in Modes
    BY <2>1, BaseModesAre, ERETMode, AddVMode
  <2>3. new \in MstatusRec
    BY <1>0, MinMode DEF MstatusRec
  <2> HIDE DEF new, newMode
  <2>4. /\ mstatus' = clearMPRV(new, newMode)
        /\ UNCHANGED <<hstatus, vsstatus, mnstatus>>
        /\ doERETCommon(newMode)
    BY <1>1 DEF riscvMRET, new, newMode
  <2>5. StatusType' /\ NMIType'
    BY <2>3, <2>4, ClearMPRVTyped, Frames DEF StatusType, TypeOK
  <2> QED
    BY <2>2, <2>4, <2>5, ERETCommonTyped
<1>2. CASE riscvHSRET
  <2> DEFINE newMode == getERETMode(mstatus.SPP) + (IF hstatus.SPV THEN RISCV_MODE_V ELSE 0)
             new     == [mstatus EXCEPT !.SIE = mstatus.SPIE, !.SPIE = TRUE,
                                        !.SPP = riscvGetMinMode]
  <2>1. mstatus.SPP \in 0..1 /\ "S" \in Arch /\ "U" \in Arch
        /\ (hstatus.SPV => "H" \in Arch)
    BY <1>0, <1>2, ArchAssumption DEF riscvHSRET, MstatusRec, TypeOK, StatusType
  <2>2. getERETMode(mstatus.SPP) = mstatus.SPP
    BY <2>1 DEF getERETMode, riscvHasMode, RISCV_MODE_U, RISCV_MODE_S
  <2>3. newMode \in Modes
    BY <2>1, <2>2, ModesAre DEF RISCV_MODE_V
  <2>4. new \in MstatusRec
    <3>1. riscvGetMinMode \in 0..1
      BY <2>1, MinMode
    <3> QED
      BY <1>0, <3>1 DEF MstatusRec
  <2> HIDE DEF new, newMode
  <2>5. /\ mstatus' = clearMPRV(new, newMode)
        /\ UNCHANGED <<vsstatus, mnstatus>>
        /\ doERETCommon(newMode)
    BY <1>2 DEF riscvHSRET, new, newMode
  <2>6. hstatus' \in HstatusRec /\ ~hstatus'.SPV
    BY <1>0, <1>2 DEF riscvHSRET, HstatusRec
  <2>7. StatusType' /\ NMIType'
    BY <2>4, <2>5, <2>6, ClearMPRVTyped, Frames DEF StatusType, TypeOK
  <2> QED
    BY <2>3, <2>5, <2>7, ERETCommonTyped
<1>3. CASE riscvVSRET
  <2> DEFINE newMode == getERETMode(vsstatus.SPP) + RISCV_MODE_V
             new     == [vsstatus EXCEPT !.SIE = vsstatus.SPIE, !.SPIE = TRUE,
                                         !.SPP = riscvGetMinMode]
  <2>1. vsstatus.SPP \in 0..1 /\ "H" \in Arch /\ "S" \in Arch /\ "U" \in Arch
    BY <1>0, <1>3, ArchAssumption, ModesAre DEF riscvVSRET, VsstatusRec,
       RISCV_MODE_VS
  <2>2. getERETMode(vsstatus.SPP) = vsstatus.SPP
    BY <2>1 DEF getERETMode, riscvHasMode, RISCV_MODE_U, RISCV_MODE_S
  <2>3. newMode \in Modes
    BY <2>1, <2>2, ModesAre DEF RISCV_MODE_V
  <2>4. new \in VsstatusRec
    <3>1. riscvGetMinMode \in 0..1
      BY <2>1, MinMode
    <3> QED
      BY <1>0, <3>1 DEF VsstatusRec
  <2> HIDE DEF new, newMode
  <2>5. /\ mstatus' = clearMPRV(mstatus, newMode)
        /\ vsstatus' = new
        /\ UNCHANGED <<hstatus, mnstatus>>
        /\ doERETCommon(newMode)
    BY <1>3 DEF riscvVSRET, new, newMode
  <2>6. StatusType' /\ NMIType'
    BY <1>0, <2>4, <2>5, ClearMPRVTyped, Frames DEF StatusType, TypeOK
  <2> QED
    BY <2>3, <2>5, <2>6, ERETCommonTyped
<1>4. CASE riscvMNRET
  <2>1. mnstatus.MNPP \in BaseModes
    BY <1>0 DEF MnstatusRec
  <2>2. addV(getERETMode(mnstatus.MNPP), mnstatus.MNPV) \in Modes
    BY <2>1, BaseModesAre, ERETMode, AddVMode
  <2>3. StatusType'
    BY <1>4, Frames DEF riscvMNRET, TypeOK, statusVars
  <2>4. NMIType'
    BY <1>0, <1>4 DEF riscvMNRET, NMIType, MnstatusRec
  <2>5. doERETCommon(addV(getERETMode(mnstatus.MNPP), mnstatus.MNPV))
    BY <1>4 DEF riscvMNRET
  <2> QED
    BY <2>2, <2>3, <2>4, <2>5, ERETCommonTyped
<1>5. CASE riscvDRET
  <2>1. cyclePassed(step, TRUE) \in StepRec
    BY <1>0, StepTyped
  <2>2. leaveDM(cyclePassed(step, TRUE))
    BY <1>5 DEF riscvDRET
  <2> QED
    BY <2>1, <2>2, LeaveDMTyped
<1> QED
  BY <1>1, <1>2, <1>3, <1>4, <1>5 DEF Return

\* Diversions at fetch keep types.
LEMMA FetchTyped ==
  ASSUME TypeOK, Fetch
  PROVE  TypeOK'
<1>0. halted \in HaltRec /\ net \in NetRec /\ step \in StepRec
  BY DEF TypeOK, HaltType, NetType, TimerType
<1>1. ASSUME NEW n \in NetRec, enterDM(halted, n), step' = cyclePassed(step, FALSE),
             UNCHANGED <<statusVars, mnstatus, mie, pendVars, delegVars, pendEnab,
                         twTimer, EA>>
      PROVE  TypeOK'
  <2>1. ModeType' /\ DebugType' /\ HaltType' /\ NetType'
    BY <1>0, <1>1, EnterDMTyped DEF TypeOK
  <2>2. TimerType'
    BY <1>0, <1>1, StepTyped DEF TimerType, TypeOK
  <2> QED
    BY <1>1, <2>1, <2>2, Frames DEF TypeOK, statusVars, pendVars, delegVars
<1>2. CASE FetchHalt
  <2>1. [net EXCEPT !.resethaltreqS = FALSE] \in NetRec
    BY <1>0 DEF NetRec
  <2> QED
    BY <1>0, <1>1, <1>2, <2>1 DEF FetchHalt
<1>3. CASE FetchStep
  BY <1>0, <1>1, <1>3 DEF FetchStep
<1>4. CASE FetchNMI
  <2>1. ModeType'
    BY <1>4, ModesAre DEF FetchNMI, ModeType, RISCV_MODE_M
  <2>2. StatusType' /\ InterruptType' /\ DelegType' /\ HaltType' /\ NetType' /\ EAType'
    BY <1>4, Frames DEF FetchNMI, TypeOK, statusVars, pendVars, delegVars
  <2>3. NMIType'
    <3>1. getBaseMode(mode) \in BaseModes
      BY BaseMode DEF TypeOK, ModeType
    <3>2. modeIsVirtual(mode) \in BOOLEAN
      BY DEF modeIsVirtual
    <3>3. [NMIE |-> FALSE, MNPP |-> getBaseMode(mode), MNPV |-> modeIsVirtual(mode)]
            \in MnstatusRec
      BY <3>1, <3>2 DEF MnstatusRec
    <3>4. \/ mnstatus' = [NMIE |-> FALSE, MNPP |-> getBaseMode(mode),
                          MNPV |-> modeIsVirtual(mode)]
          \/ mnstatus' = mnstatus
      BY <1>4 DEF FetchNMI
    <3> QED
      BY <3>3, <3>4 DEF NMIType, TypeOK
  <2>4. DebugType'
    <3>1. CASE dcsr' = dcsr
      BY <1>4, <3>1, Frames DEF FetchNMI, TypeOK
    <3>2. CASE dcsr' = [dcsr EXCEPT !.nmip = FALSE]
      <4>1. dcsr \in DcsrRec /\ DM \in BOOLEAN /\ riscvGetDCSRMode(dcsr) \in Modes
        BY DEF TypeOK, DebugType
      <4>2. dcsr' \in DcsrRec /\ dcsr'.prv = dcsr.prv /\ dcsr'.v = dcsr.v
        BY <3>2, <4>1, Zenon DEF DcsrRec
      <4>3. DM' = DM
        BY <1>4 DEF FetchNMI
      <4> QED
        BY <4>1, <4>2, <4>3 DEF DebugType, riscvGetDCSRMode
    <3> QED
      BY <1>4, <3>1, <3>2 DEF FetchNMI
  <2>5. PendEnabType'
    BY <1>4, <2>2, RefreshTyped, Frames DEF FetchNMI, TypeOK
  <2>6. TimerType'
    <3>1. cyclePassed(step, FALSE) \in StepRec
      BY <1>0, StepTyped
    <3> QED
      BY <1>4, <3>1, StepTyped DEF FetchNMI, TypeOK, TimerType
  <2> QED
    BY <2>1, <2>2, <2>3, <2>4, <2>5, <2>6 DEF TypeOK
<1>5. CASE FetchInterrupt
  <2>1. pendEnab.priv \in Modes /\ trapTo(pendEnab.priv)
    BY <1>5 DEF FetchInterrupt, getPendingAndEnabled, TypeOK, PendEnabType
  <2>2. ModeType' /\ StatusType' /\ EAType'
    BY <2>1, TrapTyped DEF TypeOK
  <2>3. NMIType' /\ DebugType' /\ InterruptType' /\ DelegType' /\ HaltType' /\ NetType'
    BY <1>5, Frames DEF FetchInterrupt, TypeOK, pendVars, delegVars
  <2>4. PendEnabType'
    BY <1>5 DEF FetchInterrupt, PendEnabType, TypeOK
  <2>5. TimerType'
    <3>1. stepDone(step) \in StepRec
      BY <1>0, StepTyped
    <3>2. cyclePassed(stepDone(step), FALSE) \in StepRec
      BY <3>1, StepTyped
    <3> QED
      BY <1>5, <3>2, StepTyped DEF FetchInterrupt, TypeOK, TimerType
  <2> QED
    BY <2>2, <2>3, <2>4, <2>5 DEF TypeOK
<1> QED
  BY <1>2, <1>3, <1>4, <1>5 DEF Fetch

\* An instruction that raises an exception keeps types.
LEMMA RaiseTyped ==
  ASSUME TypeOK, NEW ecode, raise(ecode), UNCHANGED twTimer
  PROVE  TypeOK'
<1>1. halted \in HaltRec /\ net \in NetRec
  BY DEF TypeOK, HaltType, NetType
<1>2. ModeType' /\ StatusType' /\ DebugType' /\ HaltType' /\ NetType' /\ EAType'
  BY <1>1, TakeExceptionTyped DEF raise
<1>3. NMIType' /\ InterruptType' /\ DelegType' /\ PendEnabType'
  BY Frames DEF raise, TypeOK, pendVars, delegVars
<1>4. TimerType'
  BY ExecutedTyped DEF raise, TypeOK, TimerType
<1> QED
  BY <1>2, <1>3, <1>4 DEF TypeOK

\* Exceptions, ECALL and EBREAK keep the types.
LEMMA TrapsTyped ==
  ASSUME TypeOK, Trap
  PROVE  TypeOK'
<1>1. ASSUME NEW ecode, Exception(ecode)
      PROVE  TypeOK'
  BY <1>1, RaiseTyped DEF Exception
<1>2. CASE riscvEBREAK /\ (DM \/ mode \in dcsr.ebreak)
  <2>1. halted \in HaltRec /\ net \in NetRec
    BY DEF TypeOK, HaltType, NetType
  <2>2. ModeType' /\ DebugType' /\ HaltType' /\ NetType'
    BY <1>2, <2>1, EnterDMTyped DEF TypeOK, riscvEBREAK
  <2>3. TimerType'
    BY <1>2, ExecutedTyped DEF TypeOK, TimerType, riscvEBREAK
  <2> QED
    BY <1>2, <2>2, <2>3, Frames DEF riscvEBREAK, TypeOK, statusVars, pendVars, delegVars
<1> QED
  BY <1>1, <1>2 DEF Trap, riscvECALL, riscvEBREAK

\* Waits and reservations keep types.
LEMMA WaitTyped ==
  ASSUME TypeOK, Nop \/ Wait \/ LR \/ SC
  PROVE  TypeOK'
<1>0. halted \in HaltRec
  BY DEF TypeOK, HaltType
<1>1. ASSUME executed, twTimer' \in {"off", "armed"}, halted' \in HaltRec, EA' \in BOOLEAN,
             UNCHANGED <<mode, statusVars, mnstatus, dcsr, DM, mie, pendVars, delegVars,
                         pendEnab, net>>
      PROVE  TypeOK'
  <2>1. TimerType' /\ HaltType' /\ EAType'
    BY <1>1, ExecutedTyped DEF TypeOK, HaltType, EAType
  <2> QED
    BY <1>1, <2>1, Frames DEF TypeOK, statusVars, pendVars, delegVars
<1>2. CASE Nop
  BY <1>0, <1>1, <1>2 DEF Nop, TypeOK, TimerType, EAType
<1>3. ASSUME NEW isWRS \in BOOLEAN, NEW stall \in HaltRec, scheduleWFITrap(isWRS, stall)
      PROVE  TypeOK'
  <2>1. CASE getWFITrap(isWRS) # noTrap /\ getWFILimit(isWRS) = 0
    BY <1>3, <2>1, RaiseTyped DEF scheduleWFITrap
  <2>2. CASE ~(getWFITrap(isWRS) # noTrap /\ getWFILimit(isWRS) = 0)
    <3>1. /\ twTimer' = limitTimer(getWFITrap(isWRS)) /\ halted' = stall /\ executed
          /\ UNCHANGED <<mode, statusVars, mnstatus, dcsr, DM, mie, pendVars,
                         delegVars, pendEnab, net, EA>>
      BY <1>3, <2>2 DEF scheduleWFITrap
    <3> QED
      BY <1>1, <3>1 DEF limitTimer, TypeOK, EAType
  <2> QED
    BY <2>1, <2>2
<1>4. CASE riscvWFI
  <2>1. riscvHalt(halted, {RVD_WFI}) \in HaltRec
    BY <1>0, HaltTyped DEF Reasons
  <2> QED
    BY <1>0, <1>3, <1>4, <2>1 DEF riscvWFI
<1>5. CASE riscvWRSNTO
  <2>1. riscvHalt(halted, {RVD_WFI, RVD_WRS}) \in HaltRec
    BY <1>0, HaltTyped DEF Reasons
  <2> QED
    BY <1>3, <1>5, <2>1 DEF riscvWRSNTO
<1>6. CASE riscvWRSSTO
  <2>1. riscvHalt(halted, {RVD_WFI, RVD_WRS, RVD_STO}) \in HaltRec
    BY <1>0, HaltTyped DEF Reasons
  <2> QED
    BY <1>1, <1>6, <2>1 DEF riscvWRSSTO, TypeOK, EAType
<1>7. CASE LR \/ SC
  BY <1>0, <1>1, <1>7 DEF LR, SC, setEA, TypeOK, TimerType
<1> QED
  BY <1>2, <1>4, <1>5, <1>6, <1>7 DEF Wait

\* Values a write may store in a one-bit field, and in any field.
LEMMA BitTyped ==
  /\ \A fields, f : \A old \in BOOLEAN : bit(fields, f, old) \subseteq BOOLEAN
  /\ \A fields, f, S : \A old \in S : val(fields, f, S, old) \subseteq S
BY DEF bit, val

AskedRec == [MIE : BOOLEAN, MPIE : BOOLEAN, MPP : 0..3, MPV : BOOLEAN,
             SIE : BOOLEAN, SPIE : BOOLEAN, SPP : 0..1, MPRV : BOOLEAN,
             TW : BOOLEAN]

\* A value asked of a status register has its type.
LEMMA AskedTyped ==
  ASSUME mstatus \in MstatusRec, NEW fields, NEW new \in statusValues(fields)
  PROVE  new \in AskedRec
<1>1. /\ mstatus.MIE \in BOOLEAN /\ mstatus.MPIE \in BOOLEAN /\ mstatus.MPP \in BaseModes
      /\ mstatus.MPV \in BOOLEAN /\ mstatus.SIE \in BOOLEAN /\ mstatus.SPIE \in BOOLEAN
      /\ mstatus.SPP \in 0..1 /\ mstatus.MPRV \in BOOLEAN /\ mstatus.TW \in BOOLEAN
  BY DEF MstatusRec
<1>2. mstatus.MPP \in 0..3
  BY <1>1, BaseModesAre
<1>3. PICK a \in bit(fields, "MIE", mstatus.MIE),
           b \in bit(fields, "MPIE", mstatus.MPIE),
           c \in val(fields, "MPP", 0..3, mstatus.MPP),
           d \in bit(fields, "MPV", mstatus.MPV),
           e \in bit(fields, "SIE", mstatus.SIE),
           f \in bit(fields, "SPIE", mstatus.SPIE),
           g \in val(fields, "SPP", 0..1, mstatus.SPP),
           h \in bit(fields, "MPRV", mstatus.MPRV),
           i \in bit(fields, "TW", mstatus.TW) :
             new = [MIE |-> a, MPIE |-> b, MPP |-> c, MPV |-> d, SIE |-> e, SPIE |-> f,
                    SPP |-> g, MPRV |-> h, TW |-> i]
  BY DEF statusValues
<1>4. a \in BOOLEAN /\ b \in BOOLEAN /\ d \in BOOLEAN
  BY <1>1, BitTyped, Zenon
<1>5. e \in BOOLEAN /\ f \in BOOLEAN /\ h \in BOOLEAN /\ i \in BOOLEAN
  BY <1>1, BitTyped, Zenon
<1>6. c \in 0..3 /\ g \in 0..1
  BY <1>1, <1>2, BitTyped
<1> QED
  BY <1>3, <1>4, <1>5, <1>6, Zenon DEF AskedRec

\* Testing interrupts at the end of a CSR write keeps types.
LEMMA PostWriteTyped ==
  ASSUME PendEnabType, HaltType, InterruptType', NEW b,
         postStatusW(b) \/ testIfChanged(b)
  PROVE  PendEnabType' /\ HaltType'
BY TestTyped, Frames DEF postStatusW, testIfChanged

\* A mode number riscvHasMode accepts is a base mode of the hart.
LEMMA HasBaseMode ==
  ASSUME NEW m \in 0..3, riscvHasMode(m)
  PROVE  m \in BaseModes
BY DEF riscvHasMode, BaseModes, Modes, Mode5, modeIsVirtual, RISCV_MODE_U,
   RISCV_MODE_S, RISCV_MODE_M, RISCV_MODE_VU, RISCV_MODE_VS, RISCV_MODE_V

\* Writes of mstatus and its views keep the types.
LEMMA StatusWTyped ==
  ASSUME TypeOK, NEW fields, statusW(fields), executed
  PROVE  TypeOK'
<1>0. mstatus \in MstatusRec /\ hstatus \in HstatusRec /\ vsstatus \in VsstatusRec
  BY DEF TypeOK, StatusType
<1>1. PICK new \in statusValues(fields) :
        /\ mstatus' = IF riscvHasMode(new.MPP) THEN new
                      ELSE [new EXCEPT !.MPP = mstatus.MPP]
        /\ UNCHANGED <<mode, hstatus, vsstatus, mnstatus, dcsr, DM, mie, pendVars,
                       delegVars, net, twTimer, EA>>
        /\ postStatusW(rises(mstatus.MIE, new.MIE) \/ rises(mstatus.SIE, new.SIE))
  BY DEF statusW
<1>2. new \in AskedRec
  BY <1>0, AskedTyped
<1>3. mstatus' \in MstatusRec
  <2>1. CASE riscvHasMode(new.MPP)
    <3>1. new.MPP \in BaseModes
      BY <1>2, <2>1, HasBaseMode DEF AskedRec
    <3>2. new \in MstatusRec
      BY <1>2, <3>1 DEF AskedRec, MstatusRec
    <3> QED
      BY <1>1, <2>1, <3>2
  <2>2. CASE ~riscvHasMode(new.MPP)
    <3>1. mstatus.MPP \in BaseModes
      BY <1>0 DEF MstatusRec
    <3>2. [new EXCEPT !.MPP = mstatus.MPP] \in MstatusRec
      BY <1>2, <3>1 DEF AskedRec, MstatusRec
    <3> QED
      BY <1>1, <2>2, <3>2
  <2> QED
    BY <2>1, <2>2
<1>4. StatusType'
  BY <1>1, <1>3 DEF TypeOK, StatusType
<1>5. ModeType' /\ NMIType' /\ DebugType' /\ InterruptType' /\ DelegType' /\ NetType' /\ EAType'
  BY <1>1, Frames DEF TypeOK, pendVars, delegVars
<1>6. PendEnabType' /\ HaltType'
  BY <1>1, <1>5, PostWriteTyped DEF TypeOK
<1>7. TimerType'
  BY <1>1, ExecutedTyped DEF TypeOK, TimerType
<1> QED
  BY <1>4, <1>5, <1>6, <1>7 DEF TypeOK

\* Writes of dcsr store a mode of the hart.
LEMMA DcsrWTyped ==
  ASSUME TypeOK, dcsrWInt
  PROVE  /\ ModeType' /\ StatusType' /\ NMIType' /\ DebugType' /\ InterruptType'
         /\ DelegType' /\ PendEnabType' /\ HaltType' /\ NetType' /\ EAType'
         /\ UNCHANGED twTimer
<1>0. dcsr \in DcsrRec /\ net \in NetRec /\ riscvGetDCSRMode(dcsr) \in Modes /\ DM \in BOOLEAN
  BY DEF TypeOK, DebugType, NetType
<1>1. NetType'
  BY <1>0 DEF dcsrWInt, NetType, NetRec
<1>2. DebugType'
  <2>1. PICK st \in bit({"step"}, "step", dcsr.step),
             ie \in bit({"stepie"}, "stepie", dcsr.stepie),
             pv \in val({"prv"}, "prv", 0..3, dcsr.prv),
             v  \in val({"v"}, "v", BOOLEAN, dcsr.v),
             eb \in val({"ebreak"}, "ebreak", SUBSET Modes, dcsr.ebreak) :
               LET new == [dcsr EXCEPT !.step = st, !.stepie = ie, !.prv = pv, !.v = v,
                                       !.ebreak = eb]
               IN  dcsr' = IF riscvHasMode(riscvGetDCSRMode(new)) THEN new
                           ELSE [new EXCEPT !.prv = dcsr.prv, !.v = dcsr.v]
    BY DEF dcsrWInt
  <2> DEFINE new == [dcsr EXCEPT !.step = st, !.stepie = ie, !.prv = pv, !.v = v,
                                 !.ebreak = eb]
             Asked == [step : BOOLEAN, stepie : BOOLEAN, prv : 0..3, v : BOOLEAN,
                       nmip : BOOLEAN, ebreak : SUBSET Mode5]
  <2>2. /\ dcsr.step \in BOOLEAN /\ dcsr.stepie \in BOOLEAN /\ dcsr.prv \in BaseModes
        /\ dcsr.v \in BOOLEAN /\ dcsr.ebreak \in SUBSET Mode5
    BY <1>0 DEF DcsrRec
  <2>3. dcsr.prv \in 0..3
    BY <2>2, BaseModesAre
  <2>4. st \in BOOLEAN /\ ie \in BOOLEAN /\ pv \in 0..3 /\ v \in BOOLEAN
    BY <2>2, <2>3, BitTyped, Zenon
  <2>5. eb \in SUBSET Mode5
    BY <2>2 DEF val, Modes
  <2>6. new \in Asked /\ new.prv = pv /\ new.v = v
    <3>1. new \in Asked
      BY <1>0, <2>4, <2>5 DEF DcsrRec
    <3>2. new.prv = pv /\ new.v = v
      BY <1>0, Zenon DEF DcsrRec
    <3> QED
      BY <3>1, <3>2
  <2>7. dcsr' = IF riscvHasMode(riscvGetDCSRMode(new)) THEN new
                ELSE [new EXCEPT !.prv = dcsr.prv, !.v = dcsr.v]
    BY <2>1
  <2> HIDE DEF new
  <2>8. CASE riscvHasMode(riscvGetDCSRMode(new))
    <3>1. riscvGetDCSRMode(new) \in Modes
      BY <2>8 DEF riscvHasMode, Modes, Mode5, RISCV_MODE_U, RISCV_MODE_S, RISCV_MODE_M,
         RISCV_MODE_VU, RISCV_MODE_VS, RISCV_MODE_V
    <3>2. pv \in BaseModes
      <4>1. CASE v
        <5>1. riscvGetDCSRMode(new) \in {4, 5} => pv \in {0, 1}
          BY <2>4, <2>6, <4>1 DEF riscvGetDCSRMode, RISCV_MODE_S, RISCV_MODE_V, RISCV_MODE_H
        <5>2. riscvGetDCSRMode(new) \in {2, 4, 5}
          BY <2>4, <2>6, <4>1 DEF riscvGetDCSRMode, RISCV_MODE_S, RISCV_MODE_V, RISCV_MODE_H
        <5>3. "H" \in Arch
          BY <3>1, <5>2, ModesAre
        <5>4. pv \in {0, 1}
          BY <3>1, <5>1, <5>2, ModesAre
        <5> QED
          BY <5>3, <5>4, ModesAre, ArchAssumption DEF BaseModes, modeIsVirtual, RISCV_MODE_V
      <4>2. CASE ~v
        <5>1. riscvGetDCSRMode(new) = pv
          BY <2>6, <4>2 DEF riscvGetDCSRMode
        <5> QED
          BY <2>4, <3>1, <5>1 DEF BaseModes, modeIsVirtual, RISCV_MODE_V
      <4> QED
        BY <2>4, <4>1, <4>2
    <3>3. new \in DcsrRec
      BY <2>6, <3>2 DEF DcsrRec
    <3>4. DM' = DM
      BY DEF dcsrWInt
    <3> QED
      BY <1>0, <2>7, <2>8, <3>1, <3>3, <3>4 DEF DebugType
  <2>9. CASE ~riscvHasMode(riscvGetDCSRMode(new))
    <3>1. dcsr' = [new EXCEPT !.prv = dcsr.prv, !.v = dcsr.v]
      BY <2>7, <2>9
    <3>2. dcsr' \in DcsrRec /\ dcsr'.prv = dcsr.prv /\ dcsr'.v = dcsr.v
      BY <2>2, <2>6, <3>1, Zenon DEF DcsrRec
    <3>3. DM' = DM
      BY DEF dcsrWInt
    <3> QED
      BY <1>0, <3>2, <3>3 DEF DebugType, riscvGetDCSRMode
  <2> QED
    BY <2>8, <2>9
<1> QED
  BY <1>1, <1>2, Frames DEF dcsrWInt, TypeOK, statusVars, pendVars, delegVars

\* CSR writes keep the types.
LEMMA CSRWriteTyped ==
  ASSUME TypeOK, CSRWrite
  PROVE  TypeOK'
<1>0. /\ hstatus \in HstatusRec /\ vsstatus \in VsstatusRec /\ mnstatus \in MnstatusRec
      /\ mstatus \in MstatusRec
  BY DEF TypeOK, StatusType, NMIType
<1>1. CASE mstatusW \/ sstatusW
  BY <1>1, StatusWTyped DEF mstatusW, sstatusW, csrw
<1>2. CASE hstatusW
  <2>1. PICK v \in bit({"SPV"}, "SPV", hstatus.SPV), w \in bit({"VTW"}, "VTW", hstatus.VTW) :
          hstatus' = [SPV |-> v, VTW |-> w]
    BY <1>2 DEF hstatusW
  <2>2. hstatus.SPV \in BOOLEAN /\ hstatus.VTW \in BOOLEAN
    BY <1>0 DEF HstatusRec
  <2>3. v \in BOOLEAN /\ w \in BOOLEAN
    BY <2>2, BitTyped, Zenon
  <2>4. hstatus' \in HstatusRec
    BY <2>1, <2>3, Zenon DEF HstatusRec
  <2>5. StatusType'
    BY <1>2, <2>4 DEF hstatusW, TypeOK, StatusType
  <2>6. TimerType'
    BY <1>2, ExecutedTyped DEF hstatusW, csrw, TypeOK, TimerType
  <2> QED
    BY <1>2, <2>5, <2>6, Frames DEF hstatusW, TypeOK, pendVars, delegVars
<1>3. CASE vsstatusW
  <2>1. PICK a \in bit(sstatusFields, "SIE", vsstatus.SIE),
             b \in bit(sstatusFields, "SPIE", vsstatus.SPIE),
             c \in val(sstatusFields, "SPP", 0..1, vsstatus.SPP) :
               /\ vsstatus' = [SIE |-> a, SPIE |-> b, SPP |-> c]
               /\ UNCHANGED <<mode, mstatus, hstatus, mnstatus, dcsr, DM, mie, pendVars,
                              delegVars, net, twTimer, EA>>
               /\ postStatusW(rises(vsstatus.SIE, a))
    BY <1>3 DEF vsstatusW
  <2>2. vsstatus.SIE \in BOOLEAN /\ vsstatus.SPIE \in BOOLEAN /\ vsstatus.SPP \in 0..1
    BY <1>0 DEF VsstatusRec
  <2>3. a \in BOOLEAN /\ b \in BOOLEAN
    BY <2>2, BitTyped, Zenon
  <2>4. c \in 0..1
    BY <2>2, BitTyped
  <2>5. vsstatus' \in VsstatusRec
    BY <2>1, <2>3, <2>4, Zenon DEF VsstatusRec
  <2>6. StatusType'
    BY <2>1, <2>5 DEF TypeOK, StatusType
  <2>7. ModeType' /\ NMIType' /\ DebugType' /\ InterruptType' /\ DelegType' /\ NetType' /\ EAType'
    BY <2>1, Frames DEF TypeOK, pendVars, delegVars
  <2>8. PendEnabType' /\ HaltType'
    BY <2>1, <2>7, PostWriteTyped DEF TypeOK
  <2>9. TimerType'
    BY <1>3, <2>1, ExecutedTyped DEF vsstatusW, csrw, TypeOK, TimerType
  <2> QED
    BY <2>6, <2>7, <2>8, <2>9 DEF TypeOK
<1>4. CASE mnstatusW
  <2>1. PICK nmie \in bit({"NMIE"}, "NMIE", mnstatus.NMIE),
             pp \in val({"MNPP"}, "MNPP", 0..3, mnstatus.MNPP) :
               /\ mnstatus' = [mnstatus EXCEPT
                                 !.NMIE = mnstatus.NMIE \/ nmie,
                                 !.MNPP = IF riscvHasMode(pp) THEN pp ELSE mnstatus.MNPP]
               /\ UNCHANGED <<mode, statusVars, dcsr, DM, mie, pendVars, delegVars, net,
                              twTimer, EA>>
               /\ postStatusW(rises(mnstatus.NMIE, nmie))
    BY <1>4 DEF mnstatusW
  <2>2. mnstatus.MNPP \in BaseModes
    BY <1>0 DEF MnstatusRec
  <2>3. mnstatus.MNPP \in 0..3
    BY <2>2, BaseModesAre
  <2>4. pp \in 0..3
    BY <2>3, BitTyped
  <2>5. (IF riscvHasMode(pp) THEN pp ELSE mnstatus.MNPP) \in BaseModes
    BY <2>2, <2>4, HasBaseMode
  <2>6. NMIType'
    BY <1>0, <2>1, <2>5 DEF NMIType, MnstatusRec
  <2>7. ModeType' /\ StatusType' /\ DebugType' /\ InterruptType' /\ DelegType' /\ NetType' /\ EAType'
    BY <2>1, Frames DEF TypeOK, statusVars, pendVars, delegVars
  <2>8. PendEnabType' /\ HaltType'
    BY <2>1, <2>7, PostWriteTyped DEF TypeOK
  <2>9. TimerType'
    BY <1>4, <2>1, ExecutedTyped DEF mnstatusW, csrw, TypeOK, TimerType
  <2> QED
    BY <2>6, <2>7, <2>8, <2>9 DEF TypeOK
<1>5. ASSUME NEW b, InterruptType', executed, testIfChanged(b),
             UNCHANGED <<mode, statusVars, mnstatus, dcsr, DM, medeleg, hedeleg, net,
                         twTimer, EA>>
      PROVE  TypeOK'
  <2>1. PendEnabType' /\ HaltType'
    BY <1>5, PostWriteTyped DEF TypeOK
  <2>2. TimerType'
    BY <1>5, ExecutedTyped DEF TypeOK, TimerType
  <2> QED
    BY <1>5, <2>1, <2>2, Frames DEF TypeOK, statusVars
<1>6. CASE ieW
  <2>1. \A wMask \in ieMasks : wMask \subseteq Interrupts
    BY DEF ieMasks, TypeOK, InterruptType
  <2>2. InterruptType'
    BY <1>6, <2>1 DEF ieW, masked, TypeOK, InterruptType, pendVars, delegVars
  <2> QED
    BY <1>5, <1>6, <2>2 DEF ieW, csrw, delegVars
<1>7. CASE ipW
  <2>1. \A wMask \in ipMasks : wMask \subseteq Interrupts
    BY ConfigAssumption DEF ipMasks, TypeOK, InterruptType
  <2>2. InterruptType'
    BY <1>7, <2>1 DEF ipW, masked, TypeOK, InterruptType, delegVars
  <2> QED
    BY <1>5, <1>7, <2>2 DEF ipW, csrw, delegVars
<1>8. CASE midelegW
  <2>1. InterruptType'
    BY <1>8, ConfigAssumption DEF midelegW, masked, TypeOK, InterruptType, pendVars
  <2> QED
    BY <1>5, <1>8, <2>1 DEF midelegW, csrw
<1>9. CASE hidelegW
  <2>1. InterruptType'
    BY <1>9 DEF hidelegW, masked, TypeOK, InterruptType, pendVars
  <2> QED
    BY <1>5, <1>9, <2>1 DEF hidelegW, csrw
<1>10. CASE edelegW
  <2>1. DelegType'
    BY <1>10 DEF edelegW, TypeOK, DelegType
  <2>2. TimerType'
    BY <1>10, ExecutedTyped DEF edelegW, csrw, TypeOK, TimerType
  <2> QED
    BY <1>10, <2>1, <2>2, Frames DEF edelegW, TypeOK, statusVars, pendVars
<1>11. CASE dcsrW
  <2>1. TimerType'
    BY <1>11, DcsrWTyped, ExecutedTyped DEF dcsrW, csrw, TypeOK, TimerType
  <2> QED
    BY <1>11, <2>1, DcsrWTyped DEF dcsrW, TypeOK
<1> QED
  BY <1>1, <1>2, <1>3, <1>4, <1>6, <1>7, <1>8, <1>9, <1>10, <1>11 DEF CSRWrite

\* An exception taken outside instruction execution keeps types.
LEMMA TakeAsyncTyped ==
  ASSUME TypeOK, NEW ecode, NEW h \in HaltRec, NEW n \in NetRec, takeAsync(ecode, h, n),
         twTimer' \in {"off", "armed"}
  PROVE  TypeOK'
<1>1. ModeType' /\ StatusType' /\ DebugType' /\ HaltType' /\ NetType' /\ EAType'
  BY TakeExceptionTyped DEF takeAsync
<1>2. NMIType' /\ InterruptType' /\ DelegType' /\ PendEnabType'
  BY Frames DEF takeAsync, TypeOK, pendVars, delegVars
<1>3. TimerType'
  BY StepTyped DEF takeAsync, TypeOK, TimerType
<1> QED
  BY <1>1, <1>2, <1>3 DEF TypeOK

\* Initial and reset values have their types.
LEMMA ResetTyped ==
  /\ resetMstatus \in MstatusRec
  /\ resetDcsr \in DcsrRec
  /\ riscvGetDCSRMode(resetDcsr) \in Modes
<1>1. resetMstatus \in MstatusRec
  BY MinMode DEF resetMstatus, MstatusRec
<1>2. resetDcsr \in DcsrRec
  BY MinMode, ConfigAssumption DEF resetDcsr, DcsrRec
<1>3. riscvGetDCSRMode(resetDcsr) = RISCV_MODE_M
  BY DEF riscvGetDCSRMode, resetDcsr
<1> QED
  BY <1>1, <1>2, <1>3, ModesAre DEF RISCV_MODE_M

\* Reset keeps the types.
LEMMA ResetPortTyped ==
  ASSUME TypeOK, riscvReset, UNCHANGED ip, portFrame
  PROVE  TypeOK'
<1>0. halted \in HaltRec /\ net \in NetRec /\ mnstatus \in MnstatusRec /\ step \in StepRec
  BY DEF TypeOK, HaltType, NetType, NMIType, TimerType
<1>1. ModeType' /\ EAType'
  BY ModesAre DEF riscvReset, ModeType, EAType, RISCV_MODE_M
<1>2. StatusType'
  BY ResetTyped DEF riscvReset, portFrame, TypeOK, StatusType
<1>3. NMIType'
  BY <1>0 DEF riscvReset, NMIType, MnstatusRec
<1>4. DebugType'
  <2>1. DM' = FALSE /\ dcsr' = resetDcsr
    BY DEF riscvReset
  <2> QED
    BY <2>1, ResetTyped DEF DebugType
<1>5. InterruptType' /\ DelegType'
  BY Frames DEF portFrame, TypeOK, delegVars
<1>6. PendEnabType'
  <2>1. \A cur, ms, vs : PendType(selectInt(cur, ms, vs))
    BY SelectTyped DEF TypeOK, InterruptType, IntTypes
  <2>2. \/ \E cur, ms, vs : pendEnab' = selectInt(cur, ms, vs)
        \/ pendEnab' = pendEnab
    BY DEF riscvReset
  <2> QED
    BY <2>1, <2>2 DEF PendEnabType, PendType, TypeOK
<1>7. HaltType'
  <2>1. riscvRestart(halted, RVD_RESTART_RESET) \in HaltRec
    BY <1>0, HaltTyped
  <2> QED
    BY <2>1, HaltTyped DEF riscvReset, HaltType
<1>8. NetType'
  BY <1>0 DEF riscvReset, NetType, NetRec
<1>9. TimerType'
  BY <1>0, StepTyped DEF riscvReset, portFrame, TypeOK, TimerType
<1> QED
  BY <1>1, <1>2, <1>3, <1>4, <1>5, <1>6, <1>7, <1>8, <1>9 DEF TypeOK

\* Net port callbacks keep the types.
LEMMA PortTyped ==
  ASSUME TypeOK, Port
  PROVE  TypeOK'
<1>0. halted \in HaltRec /\ net \in NetRec /\ dcsr \in DcsrRec
  BY DEF TypeOK, HaltType, NetType, DebugType
<1>1. ASSUME halted' \in HaltRec, net' \in NetRec, EA' \in BOOLEAN, PendEnabType',
             InterruptType', DebugType', portFrame, UNCHANGED <<mode, mstatus, mnstatus, step>>
      PROVE  TypeOK'
  BY <1>1, Frames DEF TypeOK, portFrame, delegVars, HaltType, NetType, TimerType, EAType
<1>2. CASE interruptPortCB
  <2>1. InterruptType'
    BY <1>2 DEF interruptPortCB, portFrame, TypeOK, InterruptType, delegVars
  <2>2. PendEnabType' /\ HaltType'
    BY <1>2, <2>1, TestTyped DEF interruptPortCB, TypeOK
  <2>3. DebugType'
    BY <1>2, Frames DEF interruptPortCB, TypeOK
  <2> QED
    BY <1>0, <1>1, <1>2, <2>1, <2>2, <2>3 DEF interruptPortCB, HaltType, TypeOK, EAType
<1>3. ASSUME halted' \in HaltRec, net' \in NetRec, EA' \in BOOLEAN, portFrame,
             UNCHANGED <<mode, mstatus, mnstatus, dcsr, DM, ip, pendEnab, step>>
      PROVE  TypeOK'
  <2>1. InterruptType' /\ DebugType' /\ PendEnabType'
    BY <1>3, Frames DEF TypeOK, portFrame, delegVars
  <2> QED
    BY <1>1, <1>3, <2>1
<1>4. \A r : riscvRestart(halted, r) \in HaltRec
  BY <1>0, HaltTyped
<1>5. CASE nmiPortCB
  <2>1. InterruptType' /\ PendEnabType'
    BY <1>5, Frames DEF nmiPortCB, TypeOK, portFrame, delegVars
  <2>2. PICK new \in BOOLEAN :
          /\ halted' = IF ~DM /\ posedge(dcsr.nmip, new)
                       THEN riscvRestart(halted, RVD_RESTART_NMI) ELSE halted
          /\ dcsr' = [dcsr EXCEPT !.nmip = new \/ (nmi_is_latched /\ dcsr.nmip)]
    BY <1>5 DEF nmiPortCB
  <2>3. (new \/ (nmi_is_latched /\ dcsr.nmip)) \in BOOLEAN
    OBVIOUS
  <2>4. dcsr' \in DcsrRec /\ dcsr'.prv = dcsr.prv /\ dcsr'.v = dcsr.v
    BY <1>0, <2>2, <2>3, Zenon DEF DcsrRec
  <2>5. DM' = DM
    BY <1>5 DEF nmiPortCB
  <2>6. DebugType'
    BY <2>4, <2>5 DEF TypeOK, DebugType, riscvGetDCSRMode
  <2>7. halted' \in HaltRec
    BY <1>0, <1>4, <2>2
  <2> QED
    BY <1>0, <1>1, <1>5, <2>1, <2>6, <2>7 DEF nmiPortCB, TypeOK, EAType
<1>6. CASE haltreqPortCB
  <2>1. net' \in NetRec
    BY <1>0, <1>6 DEF haltreqPortCB, NetRec
  <2>2. halted' \in HaltRec
    BY <1>0, <1>4, <1>6 DEF haltreqPortCB
  <2> QED
    BY <1>3, <1>6, <2>1, <2>2 DEF haltreqPortCB, TypeOK, EAType
<1>7. CASE resethaltreqPortCB
  <2>1. net' \in NetRec
    BY <1>0, <1>7 DEF resethaltreqPortCB, NetRec
  <2> QED
    BY <1>0, <1>3, <1>7, <2>1 DEF resethaltreqPortCB, TypeOK, EAType
<1>8. CASE deferintPortCB
  <2>1. net' \in NetRec
    BY <1>0, <1>8 DEF deferintPortCB, NetRec
  <2>2. halted' \in HaltRec
    BY <1>0, <1>4, <1>8 DEF deferintPortCB, handlePendingAndEnabled
  <2> QED
    BY <1>3, <1>8, <2>1, <2>2 DEF deferintPortCB, TypeOK, EAType
<1>9. CASE restartwfiPortCB
  <2>1. net' \in NetRec
    BY <1>0, <1>9 DEF restartwfiPortCB, NetRec
  <2>2. InterruptType' /\ DebugType'
    BY <1>9, Frames DEF restartwfiPortCB, TypeOK, pendVars
  <2>3. PendEnabType' /\ HaltType'
    BY <1>9, <2>2, TestTyped, Frames DEF restartwfiPortCB, TypeOK
  <2> QED
    BY <1>1, <1>9, <2>1, <2>2, <2>3 DEF restartwfiPortCB, HaltType, TypeOK, EAType
<1>10. CASE illegalInstrPortCB
  <2>1. PICK new \in BOOLEAN :
          LET n == [net EXCEPT !.illegalInst = new]
          IN  \/ /\ net' = n
                 /\ UNCHANGED <<mode, statusVars, mnstatus, dcsr, DM, mie, pendVars,
                                delegVars, pendEnab, halted, step, EA>>
              \/ handleBLimitTrap(n)
              \/ takeAsync(riscv_E_IllegalInstruction,
                           riscvRestart(halted, RVD_RESTART_NMI), n)
    BY <1>10 DEF illegalInstrPortCB
  <2>2. [net EXCEPT !.illegalInst = new] \in NetRec
    BY <1>0 DEF NetRec
  <2>3. twTimer' = twTimer /\ twTimer \in {"off", "armed"}
    BY <1>10 DEF illegalInstrPortCB, TypeOK, TimerType
  <2>4. CASE handleBLimitTrap([net EXCEPT !.illegalInst = new])
    BY <1>4, <2>2, <2>3, <2>4, TakeAsyncTyped DEF handleBLimitTrap
  <2>5. CASE takeAsync(riscv_E_IllegalInstruction, riscvRestart(halted, RVD_RESTART_NMI),
                       [net EXCEPT !.illegalInst = new])
    BY <1>4, <2>2, <2>3, <2>5, TakeAsyncTyped
  <2>6. CASE /\ net' = [net EXCEPT !.illegalInst = new]
             /\ UNCHANGED <<mode, statusVars, mnstatus, dcsr, DM, mie, pendVars,
                            delegVars, pendEnab, halted, step, EA>>
    <3>1. NetType'
      BY <2>2, <2>6 DEF NetType
    <3> QED
      BY <2>3, <2>6, <3>1, Frames DEF TypeOK, statusVars, pendVars, delegVars
  <2> QED
    BY <2>1, <2>4, <2>5, <2>6
<1>11. CASE SCValidPortCB
  BY <1>0, <1>3, <1>11 DEF SCValidPortCB
<1>12. CASE riscvAbortExclusiveAccess
  BY <1>0, <1>3, <1>4, <1>12 DEF riscvAbortExclusiveAccess
<1>13. CASE resetPortCB /\ ~riscvReset
  <2>1. net' \in NetRec
    BY <1>0, <1>13 DEF resetPortCB, NetRec
  <2>2. halted' \in HaltRec
    BY <1>0, <1>13, HaltTyped DEF resetPortCB, Reasons
  <2> QED
    BY <1>3, <1>13, <2>1, <2>2 DEF resetPortCB, TypeOK, EAType
<1>14. CASE resetPortCB /\ riscvReset
  BY <1>14, ResetPortTyped DEF resetPortCB
<1> QED
  BY <1>2, <1>5, <1>6, <1>7, <1>8, <1>9, <1>10, <1>11, <1>12, <1>13, <1>14 DEF Port

\* Debugger writes keep the types.
LEMMA DebuggerTyped ==
  ASSUME TypeOK, Debugger
  PROVE  TypeOK'
<1>0. halted \in HaltRec /\ net \in NetRec /\ step \in StepRec
  BY DEF TypeOK, HaltType, NetType, TimerType
<1>1. ASSUME enterDM(halted, net), portFrame,
             UNCHANGED <<mstatus, mnstatus, ip, pendEnab, step, EA>>
      PROVE  TypeOK'
  <2>1. ModeType' /\ DebugType' /\ HaltType' /\ NetType'
    BY <1>0, <1>1, EnterDMTyped DEF TypeOK
  <2> QED
    BY <1>1, <2>1, Frames DEF TypeOK, portFrame, delegVars
<1>2. CASE writeDM
  BY <1>0, <1>1, <1>2, LeaveDMTyped DEF writeDM
<1>3. CASE writeDMStall
  <2>1. HaltType'
    BY <1>0, <1>3, HaltTyped DEF writeDMStall, HaltType
  <2> QED
    BY <1>3, <2>1, Frames DEF writeDMStall, TypeOK, portFrame, delegVars
<1>4. CASE writeDcsr
  <2>1. TimerType'
    BY <1>4, DcsrWTyped, Frames DEF writeDcsr, TypeOK
  <2> QED
    BY <1>4, <2>1, DcsrWTyped DEF writeDcsr, TypeOK
<1> QED
  BY <1>2, <1>3, <1>4 DEF Debugger

\* Timer callbacks keep the types.
LEMMA TimersTyped ==
  ASSUME TypeOK, Timer
  PROVE  TypeOK'
<1>0. halted \in HaltRec /\ net \in NetRec /\ step \in StepRec /\ dcsr \in DcsrRec
  BY DEF TypeOK, HaltType, NetType, TimerType, DebugType
<1>1. CASE riscvStepExcept
  <2>1. NetType'
    <3>1. enableDebugStep(DM, dcsr) \in BOOLEAN
      BY DEF enableDebugStep
    <3>2. /\ [net EXCEPT !.stepreq = enableDebugStep(DM, dcsr)] \in NetRec
          /\ [net EXCEPT !.stepreq = FALSE] \in NetRec
      BY <1>0, <3>1 DEF NetRec
    <3> QED
      BY <1>1, <3>2 DEF riscvStepExcept, NetType
  <2>2. TimerType'
    <3>1. [step EXCEPT !.timer = "off"] \in StepRec
      BY <1>0 DEF StepRec
    <3> QED
      BY <1>1, <3>1, StepTyped DEF riscvStepExcept, TypeOK, TimerType
  <2> QED
    BY <1>1, <2>1, <2>2, Frames DEF riscvStepExcept, TypeOK, statusVars, pendVars, delegVars
<1>2. CASE expiredTW
  <2>0. \A r : riscvRestart(halted, r) \in HaltRec
    BY <1>0, HaltTyped
  <2>1. CASE RVD_STO \notin halted.disable /\ blimitTrap
    BY <1>0, <1>2, <2>0, <2>1, TakeAsyncTyped DEF expiredTW, handleBLimitTrap
  <2>2. CASE ~(RVD_STO \notin halted.disable /\ blimitTrap)
    <3>1. HaltType' /\ TimerType'
      BY <1>0, <1>2, <2>0, <2>2 DEF expiredTW, HaltType, TimerType
    <3> QED
      BY <1>2, <2>2, <3>1, Frames DEF expiredTW, TypeOK, statusVars, pendVars, delegVars
  <2> QED
    BY <2>1, <2>2
<1> QED
  BY <1>1, <1>2 DEF Timer

\* The initial state has its types.
LEMMA InitTyped == Init => TypeOK
<1> SUFFICES ASSUME Init PROVE TypeOK
  OBVIOUS
<1>1. ModeType /\ EAType /\ NetType /\ TimerType /\ HaltType
  BY ModesAre DEF Init, ModeType, EAType, NetType, NetRec, TimerType, StepRec, HaltType,
     HaltRec, RISCV_MODE_M
<1>2. StatusType
  BY ResetTyped DEF Init, StatusType, HstatusRec, VsstatusRec
<1>3. NMIType
  BY MinMode DEF Init, NMIType, MnstatusRec
<1>4. DebugType
  BY ResetTyped DEF Init, DebugType
<1>5. InterruptType /\ DelegType
  BY ArchAssumption DEF Init, InterruptType, DelegType
<1>6. PendEnabType
  BY DEF Init, PendEnabType, noInt, Mode5, RISCV_MODE_U
<1> QED
  BY <1>1, <1>2, <1>3, <1>4, <1>5, <1>6 DEF TypeOK

\* Every step of the hart keeps types.
LEMMA NextTyped == TypeOK /\ [Next]_vars => TypeOK'
<1>1. ASSUME TypeOK, Next PROVE TypeOK'
  BY <1>1, FetchTyped, WaitTyped, TrapsTyped, ReturnTyped, CSRWriteTyped, PortTyped,
     DebuggerTyped, TimersTyped DEF Next, Processor
<1>2. ASSUME TypeOK, UNCHANGED vars PROVE TypeOK'
  BY <1>2, Frames DEF vars, TypeOK
<1> QED
  BY <1>1, <1>2

(***************************************************************************)
(* For every configuration the hart stays in one of its modes, and every   *)
(* register, net and timer keeps its type, whatever programs, ports and    *)
(* debugger do.                                                            *)
(***************************************************************************)
THEOREM TypeCorrect == Spec => []TypeOK
<1>1. Init => TypeOK
  BY InitTyped
<1>2. TypeOK /\ [Next]_vars => TypeOK'
  BY NextTyped
<1> QED
  BY <1>1, <1>2, PTL DEF Spec

-----------------------------------------------------------------------------
(***************************************************************************)
(* Waiting.  A hart stops in WFI or WRS only from the instruction that     *)
(* waits: nothing else gives a hart a reason to wait, and everything that  *)
(* could end a wait either ends it or leaves what it waits for alone.      *)
(***************************************************************************)

NoWait == halted.disable \cap RVD_RESTART_WFI = {}

\* Restarting, testing interrupts and entering or leaving Debug mode give no
\* reason to wait.
LEMMA NoReason ==
  ASSUME NEW h \in HaltRec, h.disable \cap RVD_RESTART_WFI = {}, NEW a, NEW b, NEW r
  PROVE  /\ riscvRestart(h, r).disable \cap RVD_RESTART_WFI = {}
         /\ testWake(h, a, b).disable \cap RVD_RESTART_WFI = {}
         /\ updateDMStall(h, a).disable \cap RVD_RESTART_WFI = {}
         /\ updateDMStall(testWake(h, a, b), r).disable \cap RVD_RESTART_WFI = {}
<1>1. \A g, q : g.disable \cap RVD_RESTART_WFI = {}
                  => riscvRestart(g, q).disable \cap RVD_RESTART_WFI = {}
  BY DEF riscvRestart
<1>2. \A g : g.disable \cap RVD_RESTART_WFI = {}
               => riscvHalt(g, {RVD_DEBUG}).disable \cap RVD_RESTART_WFI = {}
  BY DEF riscvHalt, RVD_RESTART_WFI, RVD_DEBUG, RVD_WFI, RVD_WRS, RVD_STO
<1>3. testWake(h, a, b).disable \cap RVD_RESTART_WFI = {}
  BY <1>1 DEF testWake
<1>4. \A g, q : g.disable \cap RVD_RESTART_WFI = {}
                  => updateDMStall(g, q).disable \cap RVD_RESTART_WFI = {}
  BY <1>1, <1>2 DEF updateDMStall
<1> QED
  BY <1>1, <1>3, <1>4

\* riscvRestart ends every wait.
LEMMA RestartEnds ==
  ASSUME NEW h
  PROVE  /\ riscvRestart(h, RVD_RESTART_WFI).disable \cap RVD_RESTART_WFI = {}
         /\ riscvRestart(h, RVD_RESTART_NMI).disable \cap RVD_RESTART_WFI = {}
         /\ riscvRestart(h, RVD_RESTART_RESET).disable \cap RVD_RESTART_WFI = {}
BY DEF riscvRestart, RVD_RESTART_NMI, RVD_RESTART_RESET

\* An exception leaves a hart that does not wait not waiting.
LEMMA TakeExceptionNoWait ==
  ASSUME NEW h \in HaltRec, h.disable \cap RVD_RESTART_WFI = {}, NEW n, NEW e,
         riscvTakeException(e, h, n)
  PROVE  NoWait'
BY NoReason DEF riscvTakeException, enterDM, NoWait

\* Only WFI and WRS begin a wait.
LEMMA ProcessorNoWait ==
  ASSUME TypeOK, Processor
  PROVE  NoWait' \/ Wait
<1>0. halted \in HaltRec
  BY DEF TypeOK, HaltType
<1>1. ASSUME Running
      PROVE  halted.disable \cap RVD_RESTART_WFI = {}
  BY <1>1 DEF Running
<1>2. ASSUME Running, halted' = halted
      PROVE  NoWait'
  BY <1>1, <1>2 DEF NoWait
<1>3. ASSUME Running, NEW n, enterDM(halted, n)
      PROVE  NoWait'
  BY <1>0, <1>1, <1>3, NoReason DEF enterDM, NoWait
<1>4. ASSUME Running, riscvTestInterrupt
      PROVE  NoWait'
  BY <1>0, <1>1, <1>4, NoReason DEF riscvTestInterrupt, NoWait
<1>5. ASSUME NEW e, Exception(e)
      PROVE  NoWait'
  BY <1>0, <1>1, <1>5, TakeExceptionNoWait DEF Exception, raise, fetchOK, AtFetch
<1>6. CASE Fetch
  BY <1>2, <1>3, <1>6 DEF Fetch, FetchHalt, FetchStep, FetchNMI, FetchInterrupt, AtFetch
<1>7. CASE Nop \/ LR \/ SC
  BY <1>2, <1>7 DEF Nop, LR, SC, setEA, fetchOK, AtFetch
<1>8. CASE Trap
  BY <1>3, <1>5, <1>8 DEF Trap, riscvECALL, riscvEBREAK, fetchOK, AtFetch
<1>9. CASE Return
  <2>1. ASSUME riscvDRET
        PROVE  NoWait'
    BY <1>0, <1>1, <2>1, NoReason DEF riscvDRET, leaveDM, NoWait, fetchOK, AtFetch
  <2> QED
    BY <1>4, <1>9, <2>1 DEF Return, riscvMRET, riscvHSRET, riscvVSRET, riscvMNRET,
       doERETCommon, fetchOK, AtFetch
<1>10. CASE CSRWrite
  BY <1>2, <1>4, <1>10 DEF CSRWrite, mstatusW, sstatusW, hstatusW, vsstatusW, mnstatusW,
     ieW, ipW, midelegW, hidelegW, edelegW, dcsrW, dcsrWInt, statusW, postStatusW,
     testIfChanged, csrw, fetchOK, AtFetch
<1> QED
  BY <1>6, <1>7, <1>8, <1>9, <1>10 DEF Processor

\* What the port callbacks, the debugger and the timers that do not reset, enter
\* or leave Debug mode do to a wait: they end it or leave its reasons alone.
LEMMA OthersKeepReasons ==
  ASSUME TypeOK, Port \/ Debugger \/ Timer
  PROVE  \/ NoWait'
         \/ /\ halted'.disable \ {RVD_DEBUG, RVD_RESET} = halted.disable \ {RVD_DEBUG, RVD_RESET}
            /\ EA' = EA \/ "SC_valid" \in Ports \/ RVD_WRS \notin halted.disable
<1>0. halted \in HaltRec
  BY DEF TypeOK, HaltType
<1> DEFINE Same == halted'.disable \ {RVD_DEBUG, RVD_RESET}
                     = halted.disable \ {RVD_DEBUG, RVD_RESET}
           Held == EA' = EA \/ "SC_valid" \in Ports \/ RVD_WRS \notin halted.disable
<1>1. \A r : halted' = riscvRestart(halted, r) /\ r \in {RVD_RESTART_WFI, RVD_RESTART_NMI,
                                                          RVD_RESTART_RESET} => NoWait'
  BY RestartEnds DEF NoWait
<1>2. halted' = halted => Same
  OBVIOUS
<1>3. ASSUME NEW b, halted' = updateDMStall(halted, b)
      PROVE  Same
  BY <1>0, <1>3 DEF updateDMStall, riscvHalt, riscvRestart
<1>4. ASSUME NEW a, NEW b, NEW h, h = testWake(halted, a, b)
      PROVE  h.disable \cap RVD_RESTART_WFI = {} \/ h = halted
  BY <1>4, RestartEnds DEF testWake
<1>5. riscvTestInterrupt => NoWait' \/ Same
  BY <1>2, <1>4 DEF riscvTestInterrupt, NoWait
<1>6. ASSUME NEW e, NEW r \in {RVD_RESTART_WFI, RVD_RESTART_NMI}, NEW n,
             takeAsync(e, riscvRestart(halted, r), n)
      PROVE  NoWait'
  <2>1. riscvRestart(halted, r) \in HaltRec
    BY <1>0, HaltTyped
  <2>2. riscvRestart(halted, r).disable \cap RVD_RESTART_WFI = {}
    BY RestartEnds
  <2> QED
    BY <1>6, <2>1, <2>2, TakeExceptionNoWait DEF takeAsync
<1>7. ASSUME NEW s, leaveDM(s)
      PROVE  (NoWait' \/ Same) /\ Held
  <2>1. PICK h : h = testWake(halted, riscvPendingAndEnabled', riscvResumeFromWFI')
    OBVIOUS
  <2>2. halted' = updateDMStall(h, FALSE) /\ EA' = EA
    BY <1>7, <2>1 DEF leaveDM
  <2>3. CASE h = halted
    BY <1>3, <2>2, <2>3
  <2>4. CASE h.disable \cap RVD_RESTART_WFI = {}
    <3>1. halted'.disable \cap RVD_RESTART_WFI = {}
      BY <2>2, <2>4 DEF updateDMStall, riscvRestart
    <3> QED
      BY <2>2, <3>1 DEF NoWait
  <2> QED
    BY <1>4, <2>1, <2>3, <2>4
<1>8. CASE Port /\ ~illegalInstrPortCB /\ ~resetPortCB
  <2>1. CASE interruptPortCB
    BY <1>5, <2>1 DEF interruptPortCB
  <2>2. CASE nmiPortCB
    BY <1>1, <1>2, <2>2 DEF nmiPortCB
  <2>3. CASE haltreqPortCB
    BY <1>1, <1>2, <2>3 DEF haltreqPortCB
  <2>4. CASE resethaltreqPortCB
    BY <1>2, <2>4 DEF resethaltreqPortCB
  <2>5. CASE deferintPortCB
    BY <1>1, <1>2, <2>5 DEF deferintPortCB, handlePendingAndEnabled
  <2>6. CASE restartwfiPortCB
    BY <1>2, <1>5, <2>6 DEF restartwfiPortCB
  <2>7. CASE SCValidPortCB
    BY <1>2, <2>7 DEF SCValidPortCB
  <2>8. CASE riscvAbortExclusiveAccess
    BY <1>1, <1>2, <2>8 DEF riscvAbortExclusiveAccess
  <2> QED
    BY <1>8, <2>1, <2>2, <2>3, <2>4, <2>5, <2>6, <2>7, <2>8 DEF Port
<1>9. CASE illegalInstrPortCB
  BY <1>2, <1>6, <1>9 DEF illegalInstrPortCB, handleBLimitTrap
<1>10. CASE resetPortCB
  <2>1. CASE riscvReset
    <3>1. riscvRestart(halted, RVD_RESTART_RESET) \in HaltRec
      BY <1>0, HaltTyped
    <3>2. riscvRestart(halted, RVD_RESTART_RESET).disable \cap RVD_RESTART_WFI = {}
      BY RestartEnds
    <3>3. halted' = riscvRestart(halted, RVD_RESTART_RESET)
            \/ halted' = updateDMStall(riscvRestart(halted, RVD_RESTART_RESET), FALSE)
      BY <2>1 DEF riscvReset
    <3> QED
      BY <3>1, <3>2, <3>3, NoReason DEF NoWait
  <2>2. CASE halted' = riscvHalt(halted, {RVD_RESET}) /\ EA' = EA
    BY <1>0, <2>2 DEF riscvHalt
  <2> QED
    BY <1>10, <2>1, <2>2 DEF resetPortCB
<1>11. CASE Debugger
  <2>1. CASE writeDM
    BY <1>3, <1>7, <2>1 DEF writeDM, enterDM
  <2>2. CASE writeDMStall
    BY <1>3, <2>2 DEF writeDMStall
  <2>3. CASE writeDcsr
    BY <1>2, <2>3 DEF writeDcsr, dcsrWInt
  <2> QED
    BY <1>11, <2>1, <2>2, <2>3 DEF Debugger
<1>12. CASE Timer
  BY <1>1, <1>2, <1>6, <1>12 DEF Timer, riscvStepExcept, expiredTW, handleBLimitTrap
<1> QED
  BY <1>8, <1>9, <1>10, <1>11, <1>12

\* An instruction that waits on the reservation holds it.
LEMMA WrsStep ==
  ASSUME "SC_valid" \notin Ports, TypeOK, WrsHoldsReservation, Next
  PROVE  WrsHoldsReservation'
<1>1. NoWait' => WrsHoldsReservation'
  BY DEF NoWait, WrsHoldsReservation, RVD_RESTART_WFI
<1>2. CASE Port \/ Debugger \/ Timer
  <2>1. RVD_WRS \notin {RVD_DEBUG, RVD_RESET}
    BY DEF RVD_WRS, RVD_DEBUG, RVD_RESET
  <2> QED
    BY <1>1, <1>2, <2>1, OthersKeepReasons DEF WrsHoldsReservation
<1>3. CASE Wait
  <2>0. halted \in HaltRec
    BY DEF TypeOK, HaltType
  <2>1. CASE riscvWFI
    <3>1. Running
      BY <2>1 DEF riscvWFI, fetchOK, AtFetch
    <3>2. RVD_WRS \notin riscvHalt(halted, {RVD_WFI}).disable
      BY <3>1 DEF riscvHalt, RVD_WRS, RVD_WFI, Running
    <3>3. ASSUME NEW e, raise(e)
          PROVE  WrsHoldsReservation'
      BY <1>1, <2>0, <3>1, <3>3, TakeExceptionNoWait DEF raise, Running
    <3>4. CASE halted' = halted
      BY <3>1, <3>4 DEF WrsHoldsReservation, Running
    <3> QED
      BY <2>1, <3>2, <3>3, <3>4 DEF riscvWFI, scheduleWFITrap, WrsHoldsReservation
  <2>2. CASE riscvWRSNTO
    <3>1. ASSUME NEW e, raise(e)
          PROVE  WrsHoldsReservation'
      BY <1>1, <2>0, <2>2, <3>1, TakeExceptionNoWait
      DEF raise, riscvWRSNTO, fetchOK, AtFetch, Running
    <3> QED
      BY <2>2, <3>1 DEF riscvWRSNTO, scheduleWFITrap, WrsHoldsReservation
  <2>3. CASE riscvWRSSTO
    BY <2>3 DEF riscvWRSSTO, WrsHoldsReservation
  <2> QED
    BY <1>3, <2>1, <2>2, <2>3 DEF Wait
<1> QED
  BY <1>1, <1>2, <1>3, ProcessorNoWait DEF Next

(***************************************************************************)
(* For every configuration in which the SC_valid port is not connected, a  *)
(* hart stalled in WRS holds the reservation it waits on: stores of other  *)
(* harts, traps, returns and resets that drop it also end the wait.        *)
(***************************************************************************)
THEOREM WrsHolds ==
  ASSUME "SC_valid" \notin Ports
  PROVE  Spec => []WrsHoldsReservation
<1>1. Init => TypeOK /\ WrsHoldsReservation
  BY InitTyped DEF Init, WrsHoldsReservation
<1>2. TypeOK /\ WrsHoldsReservation /\ [Next]_vars => (TypeOK /\ WrsHoldsReservation)'
  <2>1. UNCHANGED vars /\ WrsHoldsReservation => WrsHoldsReservation'
    BY DEF vars, WrsHoldsReservation
  <2> QED
    BY <2>1, NextTyped, WrsStep
<1> QED
  BY <1>1, <1>2, PTL DEF Spec

-----------------------------------------------------------------------------
(***************************************************************************)
(* No wakeup is missed.  A waiting hart is outside Debug mode and not       *)
(* stepping, so a debugger that does not halt it by a register write can   *)
(* change neither dcsr nor the stall under it.                             *)
(***************************************************************************)

WaitKnown ==
  \/ NoWait
  \/ RVD_WFI \in halted.disable /\ RVD_DEBUG \notin halted.disable /\ ~DM /\ ~dcsr.step

WaitInv == TypeOK /\ WaitKnown /\ NoMissedWakeup /\ WaitLimitCurrent

\* A hart that does not wait satisfies all that is said of waits.
LEMMA NoWaitInv == NoWait => WaitKnown /\ NoMissedWakeup /\ WaitLimitCurrent
BY DEF NoWait, WaitKnown, NoMissedWakeup, WaitLimitCurrent, Waiting, RVD_RESTART_WFI

\* What bounds a WRS would bound a WFI too.
LEMMA WrsTrapIsWfiTrap == getWFITrap(TRUE) # noTrap => getWFITrap(FALSE) # noTrap
BY DEF getWFITrap, noTrap, riscv_E_IllegalInstruction, riscv_E_VirtualInstruction

\* After riscvTestInterrupt a hart waits only if nothing would wake it.
LEMMA TestNoMissed ==
  ASSUME riscvTestInterrupt
  PROVE  NoMissedWakeup'
<1> DEFINE now == riscvPendingAndEnabled'
           res == riscvResumeFromWFI'
<1>1. halted' = testWake(halted, now, res)
  BY DEF riscvTestInterrupt
<1>2. NoMissedWakeup' = (Waiting' => ~now /\ ~res)
  BY DEF NoMissedWakeup
<1>3. Waiting' = (halted'.disable # {} /\ halted'.disable \subseteq RVD_RESTART_WFI)
  BY DEF Waiting
<1> HIDE DEF now, res
<1>4. CASE now
  BY <1>1, <1>2, <1>3, <1>4, RestartEnds DEF testWake
<1>5. CASE ~now /\ res
  BY <1>1, <1>2, <1>3, <1>5, RestartEnds DEF testWake
<1>6. CASE ~now /\ ~res
  BY <1>2, <1>6
<1> QED
  BY <1>4, <1>5, <1>6

\* A step that leaves the hart waiting for as much, and wakes it for no more,
\* misses no wakeup.
LEMMA QuietWait ==
  ASSUME NoMissedWakeup,
         halted' = halted \/ RVD_RESET \in halted'.disable,
         riscvPendingAndEnabled' => riscvPendingAndEnabled,
         riscvResumeFromWFI' => riscvResumeFromWFI
  PROVE  NoMissedWakeup'
BY DEF NoMissedWakeup, Waiting, RVD_RESTART_WFI, RVD_WFI, RVD_WRS, RVD_STO, RVD_RESET

\* The reasons, the mode and the limit of a wait are left alone.
LEMMA SameWait ==
  ASSUME WaitKnown, WaitLimitCurrent, UNCHANGED <<mode, mstatus, hstatus, twTimer, DM>>,
         dcsr'.step = dcsr.step, halted' = halted \/ halted' = riscvHalt(halted, {RVD_RESET})
  PROVE  WaitKnown' /\ WaitLimitCurrent'
<1>1. \A r \in {RVD_WFI, RVD_WRS, RVD_STO, RVD_DEBUG} :
        r \in halted'.disable <=> r \in halted.disable
  BY DEF riscvHalt, RVD_WFI, RVD_WRS, RVD_STO, RVD_DEBUG, RVD_RESET
<1>2. NoWait' <=> NoWait
  BY <1>1 DEF NoWait, RVD_RESTART_WFI
<1>3. WaitKnown'
  BY <1>1, <1>2 DEF WaitKnown
<1>4. \A b : getWFITrap(b)' = getWFITrap(b)
  BY DEF getWFITrap
<1>5. WaitLimitCurrent'
  BY <1>1, <1>4 DEF WaitLimitCurrent
<1> QED
  BY <1>3, <1>5

\* An instruction that waits leaves a hart that waits with nothing to wake up
\* for, or takes an exception instead.
LEMMA WaitsKnown ==
  ASSUME TypeOK, Wait
  PROVE  (WaitKnown /\ NoMissedWakeup /\ WaitLimitCurrent)'
<1> DEFINE Frame == UNCHANGED <<mode, statusVars, mnstatus, dcsr, DM, mie, pendVars,
                                delegVars, pendEnab, net, EA>>
<1>0. Running /\ ~riscvPendingAndEnabled /\ halted \in HaltRec
  BY DEF TypeOK, HaltType, Wait, riscvWFI, riscvWRSNTO, riscvWRSSTO, fetchOK, AtFetch
<1>1. NoWait' => (WaitKnown /\ NoMissedWakeup /\ WaitLimitCurrent)'
  BY NoWaitInv, PTL
<1>2. ASSUME NEW e, raise(e)
      PROVE  NoWait'
  BY <1>0, <1>2, TakeExceptionNoWait DEF raise, Running
<1>3. ASSUME halted' = halted
      PROVE  NoWait'
  BY <1>0, <1>3 DEF NoWait, Running
<1>4. ASSUME Frame, ~riscvResumeFromWFI, NEW r, RVD_WFI \in r, RVD_DEBUG \notin r,
             halted' = riscvHalt(halted, r)
      PROVE  (WaitKnown /\ NoMissedWakeup)'
  <2>1. halted'.disable = r
    BY <1>0, <1>4 DEF riscvHalt, Running
  <2>2. ~riscvPendingAndEnabled'
    BY <1>0, <1>4 DEF riscvPendingAndEnabled, getPendingAndEnabledResethaltreq,
       getPendingAndEnabledHaltreq, getPendingAndEnabledNMI, getPendingAndEnabled,
       interruptStepDisable
  <2>3. ~riscvResumeFromWFI'
    BY <1>4 DEF riscvResumeFromWFI, getPendingEnabledMIP, mip, pendVars
  <2>4. ~DM' /\ ~dcsr'.step
    BY <1>4 DEF riscvResumeFromWFI
  <2> QED
    BY <1>4, <2>1, <2>2, <2>3, <2>4 DEF WaitKnown, NoMissedWakeup
<1>6. ASSUME NEW b \in BOOLEAN, Frame, twTimer' = limitTimer(getWFITrap(b)), NEW r,
             halted' = riscvHalt(halted, r), RVD_STO \notin r, b <=> RVD_WRS \in r
      PROVE  WaitLimitCurrent'
  <2>1. halted'.disable = r
    BY <1>0, <1>6 DEF riscvHalt, Running
  <2>2. getWFITrap(RVD_WRS \in halted.disable)' = getWFITrap(b)
    BY <1>6, <2>1 DEF getWFITrap, statusVars
  <2> QED
    BY <1>6, <2>1, <2>2 DEF WaitLimitCurrent, limitTimer
<1>7. RVD_WFI # RVD_WRS /\ RVD_WFI # RVD_STO /\ RVD_WFI # RVD_DEBUG /\ RVD_WRS # RVD_STO
        /\ RVD_WRS # RVD_DEBUG /\ RVD_STO # RVD_DEBUG
  BY DEF RVD_WFI, RVD_WRS, RVD_STO, RVD_DEBUG
<1>8. CASE riscvWFI
  <2>1. CASE halted' = halted
    BY <1>1, <1>3, <2>1
  <2>2. CASE halted' # halted /\ ~(\E e : raise(e))
    <3>1. /\ Frame /\ twTimer' = limitTimer(getWFITrap(FALSE)) /\ ~riscvResumeFromWFI
          /\ halted' = riscvHalt(halted, {RVD_WFI})
      BY <1>8, <2>2 DEF riscvWFI, scheduleWFITrap
    <3>2. (WaitKnown /\ NoMissedWakeup)'
      BY <1>4, <1>7, <3>1
    <3>3. WaitLimitCurrent'
      BY <1>6, <1>7, <3>1
    <3> QED
      BY <3>2, <3>3
  <2> QED
    BY <1>1, <1>2, <2>1, <2>2
<1>9. CASE riscvWRSNTO
  <2>1. CASE ~(\E e : raise(e))
    <3>1. /\ Frame /\ twTimer' = limitTimer(getWFITrap(TRUE)) /\ ~riscvResumeFromWFI
          /\ halted' = riscvHalt(halted, {RVD_WFI, RVD_WRS})
      BY <1>9, <2>1 DEF riscvWRSNTO, scheduleWFITrap
    <3>2. (WaitKnown /\ NoMissedWakeup)'
      BY <1>4, <1>7, <3>1
    <3>3. RVD_STO \notin {RVD_WFI, RVD_WRS} /\ RVD_WRS \in {RVD_WFI, RVD_WRS}
      BY <1>7
    <3> HIDE DEF Frame
    <3>4. WaitLimitCurrent'
      BY <1>6, <3>1, <3>3
    <3> QED
      BY <3>2, <3>4
  <2> QED
    BY <1>1, <1>2, <2>1
<1>10. CASE riscvWRSSTO
  <2>1. /\ Frame /\ twTimer' = "armed" /\ ~riscvResumeFromWFI
        /\ halted' = riscvHalt(halted, {RVD_WFI, RVD_WRS, RVD_STO})
    BY <1>10 DEF riscvWRSSTO
  <2>2. (WaitKnown /\ NoMissedWakeup)'
    BY <1>4, <1>7, <2>1
  <2>3. WaitLimitCurrent'
    BY <1>0, <2>1 DEF WaitLimitCurrent, riscvHalt
  <2> QED
    BY <2>2, <2>3
<1> QED
  BY <1>8, <1>9, <1>10 DEF Wait

\* Port callbacks on a waiting hart.
LEMMA PortWait ==
  ASSUME WaitInv, Port
  PROVE  (WaitKnown /\ NoMissedWakeup /\ WaitLimitCurrent)'
<1> USE DEF WaitInv
<1>0. NoWait' => (WaitKnown /\ NoMissedWakeup /\ WaitLimitCurrent)'
  BY NoWaitInv, PTL
<1>1. \A r : halted' = riscvRestart(halted, r) /\ r \in {RVD_RESTART_WFI, RVD_RESTART_NMI,
                                                          RVD_RESTART_RESET} => NoWait'
  BY RestartEnds DEF NoWait
<1>2. riscvTestInterrupt => NoWait' \/ halted' = halted
  BY RestartEnds DEF riscvTestInterrupt, testWake, NoWait
<1>3. dcsr \in DcsrRec /\ net \in NetRec
  BY DEF TypeOK, DebugType, NetType
<1>4. CASE interruptPortCB
  BY <1>0, <1>2, <1>4, SameWait, TestNoMissed DEF interruptPortCB, portFrame
<1>5. CASE nmiPortCB
  <2>1. CASE halted' = halted /\ ~(~DM /\ ~dcsr.nmip /\ dcsr'.nmip)
    <3>1. UNCHANGED <<mode, mstatus, mnstatus, DM, ip, pendEnab, net, mie, swip, hstatus, twTimer>>
      BY <1>5 DEF nmiPortCB, portFrame
    <3>2. dcsr'.step = dcsr.step /\ dcsr'.stepie = dcsr.stepie
      BY <1>3, <1>5 DEF nmiPortCB, DcsrRec
    <3>3. riscvPendingAndEnabled' => riscvPendingAndEnabled
      BY <2>1, <3>1, <3>2 DEF riscvPendingAndEnabled, getPendingAndEnabledResethaltreq,
         getPendingAndEnabledHaltreq, getPendingAndEnabledNMI, getPendingAndEnabled,
         interruptStepDisable
    <3>4. riscvResumeFromWFI' => riscvResumeFromWFI
      BY <3>1, <3>2 DEF riscvResumeFromWFI, getPendingEnabledMIP, mip
    <3> QED
      BY <2>1, <3>1, <3>2, <3>3, <3>4, QuietWait, SameWait
  <2>2. CASE halted' = riscvRestart(halted, RVD_RESTART_NMI)
    BY <1>0, <1>1, <2>2
  <2> QED
    BY <1>3, <1>5, <2>1, <2>2 DEF nmiPortCB, posedge, DcsrRec
<1>6. ASSUME UNCHANGED <<mode, mstatus, mnstatus, DM, dcsr, ip, pendEnab, mie, swip, hstatus,
                         twTimer>>, halted' = halted,
             ~DM /\ net'.haltreq => net.haltreq,
             net'.resethaltreqS = net.resethaltreqS,
             net'.restartwfi => net.restartwfi,
             net.deferint => net'.deferint
      PROVE  (WaitKnown /\ NoMissedWakeup /\ WaitLimitCurrent)'
  <2>1. riscvPendingAndEnabled' => riscvPendingAndEnabled
    BY <1>6 DEF riscvPendingAndEnabled, getPendingAndEnabledResethaltreq,
       getPendingAndEnabledHaltreq, getPendingAndEnabledNMI, getPendingAndEnabled,
       interruptStepDisable
  <2>2. riscvResumeFromWFI' => riscvResumeFromWFI
    BY <1>6 DEF riscvResumeFromWFI, getPendingEnabledMIP, mip
  <2> QED
    BY <1>6, <2>1, <2>2, QuietWait, SameWait
<1>7. CASE haltreqPortCB
  <2>1. CASE halted' = riscvRestart(halted, RVD_RESTART_NMI)
    BY <1>0, <1>1, <2>1
  <2>2. CASE halted' # riscvRestart(halted, RVD_RESTART_NMI)
    <3>1. PICK new \in BOOLEAN : net' = [net EXCEPT !.haltreq = new]
            /\ ~(~DM /\ posedge(net.haltreq, new)) /\ halted' = halted
      BY <1>7, <2>2 DEF haltreqPortCB
    <3>2. /\ ~DM /\ net'.haltreq => net.haltreq
          /\ UNCHANGED <<net.resethaltreqS, net.restartwfi, net.deferint>>
      BY <1>3, <3>1 DEF NetRec, posedge
    <3> QED
      BY <1>6, <1>7, <3>1, <3>2 DEF haltreqPortCB, portFrame
  <2> QED
    BY <2>1, <2>2
<1>8. CASE resethaltreqPortCB
  <2>1. UNCHANGED <<net.haltreq, net.resethaltreqS, net.restartwfi, net.deferint>>
    BY <1>3, <1>8 DEF resethaltreqPortCB, NetRec
  <2> QED
    BY <1>6, <1>8, <2>1 DEF resethaltreqPortCB, portFrame
<1>9. CASE deferintPortCB
  <2>1. PICK new \in BOOLEAN :
          /\ net' = [net EXCEPT !.deferint = new]
          /\ IF negedge(net.deferint, new) THEN handlePendingAndEnabled ELSE UNCHANGED halted
    BY <1>9 DEF deferintPortCB
  <2>2. UNCHANGED <<net.haltreq, net.resethaltreqS, net.restartwfi>> /\ net'.deferint = new
    BY <1>3, <2>1 DEF NetRec
  <2>3. CASE ~negedge(net.deferint, new)
    BY <1>6, <1>9, <2>1, <2>2, <2>3 DEF deferintPortCB, portFrame, negedge
  <2>4. CASE negedge(net.deferint, new)
    <3>1. CASE riscvPendingAndEnabled'
      BY <1>0, <1>1, <2>1, <2>4, <3>1 DEF handlePendingAndEnabled
    <3>2. CASE ~riscvPendingAndEnabled'
      <4>1. halted' = halted
        BY <2>1, <2>4, <3>2 DEF handlePendingAndEnabled
      <4>2. riscvResumeFromWFI' => riscvResumeFromWFI
        BY <1>9, <2>2 DEF deferintPortCB, portFrame, riscvResumeFromWFI,
           getPendingEnabledMIP, mip
      <4> QED
        BY <1>9, <3>2, <4>1, <4>2, QuietWait, SameWait DEF deferintPortCB, portFrame
    <3> QED
      BY <3>1, <3>2
  <2> QED
    BY <2>3, <2>4
<1>10. CASE restartwfiPortCB
  <2>1. PICK new \in BOOLEAN :
          /\ net' = [net EXCEPT !.restartwfi = new]
          /\ IF posedge(net.restartwfi, new) THEN riscvTestInterrupt
             ELSE UNCHANGED <<pendEnab, halted>>
    BY <1>10 DEF restartwfiPortCB
  <2>2. UNCHANGED <<net.haltreq, net.resethaltreqS, net.deferint>> /\ net'.restartwfi = new
    BY <1>3, <2>1 DEF NetRec
  <2>3. CASE posedge(net.restartwfi, new)
    BY <1>0, <1>2, <1>10, <2>1, <2>3, SameWait, TestNoMissed DEF restartwfiPortCB, portFrame
  <2>4. CASE ~posedge(net.restartwfi, new)
    BY <1>6, <1>10, <2>1, <2>2, <2>4 DEF restartwfiPortCB, portFrame, posedge, pendVars
  <2> QED
    BY <2>3, <2>4
<1>11. CASE illegalInstrPortCB
  <2>1. ASSUME NEW e, NEW n, NEW r \in {RVD_RESTART_WFI, RVD_RESTART_NMI},
               takeAsync(e, riscvRestart(halted, r), n)
        PROVE  NoWait'
    <3>1. riscvRestart(halted, r) \in HaltRec
      BY HaltTyped DEF TypeOK, HaltType
    <3> QED
      BY <2>1, <3>1, RestartEnds, TakeExceptionNoWait DEF takeAsync
  <2>2. CASE NoWait'
    BY <1>0, <2>2
  <2>3. CASE ~NoWait'
    <3>1. PICK new \in BOOLEAN :
            /\ net' = [net EXCEPT !.illegalInst = new]
            /\ UNCHANGED <<mode, statusVars, mnstatus, dcsr, DM, mie, pendVars,
                           delegVars, pendEnab, halted, step, EA>>
      BY <1>11, <2>1, <2>3 DEF illegalInstrPortCB, handleBLimitTrap
    <3>2. UNCHANGED <<net.haltreq, net.resethaltreqS, net.restartwfi, net.deferint>>
      BY <1>3, <3>1 DEF NetRec
    <3> QED
      BY <1>6, <1>11, <3>1, <3>2 DEF illegalInstrPortCB, statusVars, pendVars
  <2> QED
    BY <2>2, <2>3
<1>12. CASE SCValidPortCB
  BY <1>6, <1>12 DEF SCValidPortCB, portFrame
<1>13. CASE riscvAbortExclusiveAccess
  <2>1. CASE halted' = halted
    BY <1>6, <1>13, <2>1 DEF riscvAbortExclusiveAccess, portFrame
  <2> QED
    BY <1>0, <1>1, <1>13, <2>1 DEF riscvAbortExclusiveAccess
<1>14. CASE resetPortCB
  <2>1. CASE NoWait'
    BY <1>0, <2>1
  <2>2. CASE riscvReset
    <3>1. riscvRestart(halted, RVD_RESTART_RESET) \in HaltRec
      BY HaltTyped DEF TypeOK, HaltType
    <3>2. riscvRestart(halted, RVD_RESTART_RESET).disable \cap RVD_RESTART_WFI = {}
      BY RestartEnds
    <3>3. halted' = riscvRestart(halted, RVD_RESTART_RESET)
            \/ halted' = updateDMStall(riscvRestart(halted, RVD_RESTART_RESET), FALSE)
      BY <2>2 DEF riscvReset
    <3>4. NoWait'
      BY <3>1, <3>2, <3>3, NoReason DEF NoWait
    <3> QED
      BY <1>0, <3>4
  <2>3. CASE ~riscvReset
    <3>1. /\ halted' = riscvHalt(halted, {RVD_RESET})
          /\ UNCHANGED <<mode, mstatus, dcsr, DM>> /\ portFrame
      BY <1>14, <2>3 DEF resetPortCB
    <3>2. RVD_RESET \in halted'.disable
      BY <3>1 DEF riscvHalt
    <3>3. NoMissedWakeup'
      BY <3>2 DEF NoMissedWakeup, Waiting, RVD_RESTART_WFI, RVD_WFI, RVD_WRS, RVD_STO, RVD_RESET
    <3> QED
      BY <3>1, <3>3, SameWait DEF portFrame
  <2> QED
    BY <2>1, <2>2, <2>3
<1> QED
  BY <1>4, <1>5, <1>7, <1>8, <1>9, <1>10, <1>11, <1>12, <1>13, <1>14 DEF Port

\* The debugger, when it does not halt the hart by writing DM.
LEMMA DebuggerWait ==
  ASSUME "enterDM" \notin Ports, WaitInv, Debugger
  PROVE  (WaitKnown /\ NoMissedWakeup /\ WaitLimitCurrent)'
<1>1. DM
  BY DEF Debugger, writeDM, writeDMStall, writeDcsr, dcsrWInt
<1>2. NoWait /\ halted \in HaltRec
  BY <1>1 DEF WaitInv, WaitKnown, TypeOK, HaltType
<1>3. NoWait'
  <2>1. ASSUME NEW s, leaveDM(s)
        PROVE  NoWait'
    BY <1>2, <2>1, NoReason DEF leaveDM, NoWait
  <2> QED
    BY <1>2, <2>1, NoReason DEF Debugger, writeDM, writeDMStall, writeDcsr, dcsrWInt, NoWait
<1> QED
  BY <1>3, NoWaitInv, PTL

\* The timers: the limit of a wait ends it.
LEMMA TimerWait ==
  ASSUME WaitInv, Timer
  PROVE  (WaitKnown /\ NoMissedWakeup /\ WaitLimitCurrent)'
<1>0. NoWait' => (WaitKnown /\ NoMissedWakeup /\ WaitLimitCurrent)'
  BY NoWaitInv, PTL
<1>1. CASE riscvStepExcept
  <2>1. net \in NetRec
    BY DEF WaitInv, TypeOK, NetType
  <2>2. UNCHANGED <<net.haltreq, net.resethaltreqS, net.restartwfi, net.deferint>>
    BY <1>1, <2>1 DEF riscvStepExcept, NetRec
  <2>3. riscvPendingAndEnabled' => riscvPendingAndEnabled
    BY <1>1, <2>2 DEF riscvStepExcept, riscvPendingAndEnabled, getPendingAndEnabledResethaltreq,
       getPendingAndEnabledHaltreq, getPendingAndEnabledNMI, getPendingAndEnabled,
       interruptStepDisable
  <2>4. riscvResumeFromWFI' => riscvResumeFromWFI
    BY <1>1, <2>2 DEF riscvStepExcept, riscvResumeFromWFI, getPendingEnabledMIP, mip, pendVars
  <2> QED
    BY <1>1, <2>3, <2>4, QuietWait, SameWait DEF WaitInv, riscvStepExcept, statusVars
<1>2. CASE expiredTW
  <2>1. CASE RVD_STO \notin halted.disable /\ blimitTrap
    <3>1. riscvRestart(halted, RVD_RESTART_WFI) \in HaltRec
      BY HaltTyped DEF WaitInv, TypeOK, HaltType
    <3>2. NoWait'
      BY <1>2, <2>1, <3>1, RestartEnds, TakeExceptionNoWait
      DEF expiredTW, handleBLimitTrap, takeAsync
    <3> QED
      BY <1>0, <3>2
  <2>2. CASE RVD_STO \in halted.disable
    BY <1>0, <1>2, <2>2, RestartEnds DEF expiredTW, NoWait
  <2>3. CASE RVD_STO \notin halted.disable /\ ~blimitTrap
    <3>1. RVD_WFI \notin halted.disable
      <4>1. ASSUME RVD_WFI \in halted.disable
            PROVE  FALSE
        <5>1. getWFITrap(RVD_WRS \in halted.disable) # noTrap
          BY <1>2, <2>3, <4>1 DEF expiredTW, WaitInv, WaitLimitCurrent
        <5>2. getWFITrap(FALSE) = noTrap
          BY <2>3, <4>1 DEF blimitTrap
        <5>3. CASE RVD_WRS \in halted.disable
          BY <5>1, <5>2, <5>3, WrsTrapIsWfiTrap
        <5>4. CASE RVD_WRS \notin halted.disable
          BY <5>1, <5>2, <5>4 DEF getWFITrap
        <5> QED
          BY <5>3, <5>4
      <4> QED
        BY <4>1
    <3>2. NoWait
      BY <3>1 DEF WaitInv, WaitKnown
    <3> QED
      BY <1>0, <1>2, <2>3, <3>2 DEF expiredTW, NoWait
  <2> QED
    BY <2>1, <2>2, <2>3
<1> QED
  BY <1>1, <1>2 DEF Timer

\* The hart starts running.
LEMMA InitWait == Init => WaitInv
BY InitTyped, NoWaitInv DEF Init, WaitInv, NoWait

\* WaitInv is inductive.
LEMMA NextWait ==
  ASSUME "enterDM" \notin Ports
  PROVE  WaitInv /\ [Next]_vars => WaitInv'
<1>1. ASSUME WaitInv, Next
      PROVE  WaitInv'
  <2>1. TypeOK'
    BY <1>1, NextTyped DEF WaitInv
  <2>2. (WaitKnown /\ NoMissedWakeup /\ WaitLimitCurrent)'
    <3>1. CASE Processor
      <4>1. NoWait' => (WaitKnown /\ NoMissedWakeup /\ WaitLimitCurrent)'
        BY NoWaitInv, PTL
      <4> QED
        BY <1>1, <3>1, <4>1, ProcessorNoWait, WaitsKnown DEF WaitInv
    <3> QED
      BY <1>1, <3>1, PortWait, DebuggerWait, TimerWait DEF Next
  <2> QED
    BY <2>1, <2>2 DEF WaitInv
<1>2. ASSUME WaitInv, UNCHANGED vars
      PROVE  WaitInv'
  <2>1. TypeOK'
    BY <1>2, NextTyped DEF WaitInv
  <2>2. riscvPendingAndEnabled' => riscvPendingAndEnabled
    BY <1>2 DEF vars, riscvPendingAndEnabled, getPendingAndEnabledResethaltreq,
       getPendingAndEnabledHaltreq, getPendingAndEnabledNMI, getPendingAndEnabled,
       interruptStepDisable
  <2>3. riscvResumeFromWFI' => riscvResumeFromWFI
    BY <1>2 DEF vars, riscvResumeFromWFI, getPendingEnabledMIP, mip
  <2> QED
    BY <1>2, <2>1, <2>2, <2>3, QuietWait, SameWait DEF WaitInv, vars
<1> QED
  BY <1>1, <1>2

(***************************************************************************)
(* For every configuration whose debugger does not halt a hart by writing  *)
(* the DM register, a hart that waits has nothing to wake up for: no       *)
(* interrupt, NMI or halt request comes in, no enable or pending bit rises *)
(* and no deferral ends without the hart being restarted.                  *)
(***************************************************************************)
THEOREM NoWakeupMissed ==
  ASSUME "enterDM" \notin Ports
  PROVE  Spec => []NoMissedWakeup
<1>1. Init => WaitInv
  BY InitWait
<1>2. WaitInv /\ [Next]_vars => WaitInv'
  BY NextWait
<1>3. WaitInv => NoMissedWakeup
  BY DEF WaitInv
<1> QED
  BY <1>1, <1>2, <1>3, PTL DEF Spec

(***************************************************************************)
(* For the same configurations the bounded-wait timer that runs is that of *)
(* the wait in progress, and every wait with a limit has it running, across *)
(* waits that interrupts, traps, stores and resets cut short.              *)
(***************************************************************************)
THEOREM WaitLimitIsCurrent ==
  ASSUME "enterDM" \notin Ports
  PROVE  Spec => []WaitLimitCurrent
<1>1. Init => WaitInv
  BY InitWait
<1>2. WaitInv /\ [Next]_vars => WaitInv'
  BY NextWait
<1>3. WaitInv => WaitLimitCurrent
  BY DEF WaitInv
<1> QED
  BY <1>1, <1>2, <1>3, PTL DEF Spec

-----------------------------------------------------------------------------
(***************************************************************************)
(* Single stepping.  An exception taken while the hart stalls counts as a  *)
(* step before any instruction has executed, so this is for harts on which *)
(* nothing but instructions and fetches raises one: without the            *)
(* illegal_instr port and without a time limit on waits.                   *)
(***************************************************************************)

NoAsyncException ==
  "illegal_instr" \notin Ports /\ TW_time_limit = 0 /\ "Zawrs" \notin Extensions

StepInv == TypeOK /\ SingleStep /\ twTimer = "off"

\* The timer after an instruction or a fetch that was not diverted to Debug
\* mode.
LEMMA StepAdvances ==
  ASSUME TypeOK, SingleStep, AtFetch, ~net.stepreq, NEW b \in BOOLEAN,
         step' \in {cyclePassed(step, b), cyclePassed(stepDone(step), b)},
         UNCHANGED <<DM, net>>, dcsr'.step = dcsr.step
  PROVE  SingleStep'
<1>1. step \in StepRec
  BY DEF TypeOK, TimerType
<1>2. CASE DM \/ ~dcsr.step
  BY <1>2 DEF SingleStep
<1>3. CASE ~DM /\ dcsr.step
  <2>1. step.timer = "armed"
    BY <1>3 DEF SingleStep, AtFetch
  <2>2. stepDone(step).timer = "armed"
    BY <1>1, <2>1 DEF stepDone, StepRec
  <2>3. step'.timer = "due"
    BY <2>1, <2>2 DEF cyclePassed
  <2> QED
    BY <2>3 DEF SingleStep
<1> QED
  BY <1>2, <1>3

\* In Debug mode no step is in progress.
LEMMA DebugStep == DM' => SingleStep'
BY DEF SingleStep

\* Fetches keep the step exact.
LEMMA FetchStepInv ==
  ASSUME StepInv, Fetch
  PROVE  SingleStep'
<1> USE DEF StepInv
<1>1. CASE FetchHalt \/ FetchStep
  <2>1. DM'
    BY <1>1 DEF FetchHalt, FetchStep, enterDM
  <2> QED
    BY <2>1, DebugStep
<1>2. ASSUME NEW s, step' = fetchStep(s, DM, dcsr), UNCHANGED <<DM, net>>,
             dcsr'.step = dcsr.step, AtFetch, ~net.stepreq,
             s \in {cyclePassed(step, FALSE), cyclePassed(stepDone(step), FALSE)}
      PROVE  SingleStep'
  <2>1. CASE defer_step_bug
    BY <1>2, <2>1 DEF fetchStep, stepBreakpoint, enableDebugStep, SingleStep
  <2>2. CASE ~defer_step_bug
    BY <1>2, <2>2, StepAdvances DEF fetchStep
  <2> QED
    BY <2>1, <2>2
<1>3. CASE FetchNMI
  <2>1. dcsr'.step = dcsr.step
    BY <1>3 DEF FetchNMI, TypeOK, DebugType, DcsrRec
  <2> QED
    BY <1>2, <1>3, <2>1 DEF FetchNMI
<1>4. CASE FetchInterrupt
  BY <1>2, <1>4 DEF FetchInterrupt
<1> QED
  BY <1>1, <1>3, <1>4 DEF Fetch

\* Leaving Debug mode begins a step.
LEMMA LeaveStep ==
  ASSUME NEW s, leaveDM(s)
  PROVE  SingleStep'
BY DEF leaveDM, stepBreakpoint, enableDebugStep, SingleStep

\* An instruction that traps is the one instruction of a step.
LEMMA TakeExceptionStep ==
  ASSUME StepInv, NEW e, fetchOK, raise(e)
  PROVE  SingleStep'
<1>1. CASE DM
  BY <1>1, DebugStep DEF raise, riscvTakeException, enterDM
<1>2. CASE ~DM
  BY <1>2, StepAdvances DEF StepInv, raise, riscvTakeException, executed, fetchOK
<1> QED
  BY <1>1, <1>2

\* Instructions but CSR writes; without a limit on waits the timer stays off.
LEMMA InstructionStep ==
  ASSUME NoAsyncException, StepInv, Nop \/ Trap \/ Return \/ Wait \/ LR \/ SC
  PROVE  SingleStep' /\ twTimer' = "off"
<1>1. ASSUME fetchOK, executed, UNCHANGED <<DM, dcsr, net>>
      PROVE  SingleStep'
  BY <1>1, StepAdvances DEF StepInv, executed, fetchOK
<1>2. ASSUME NEW e, Exception(e)
      PROVE  SingleStep' /\ twTimer' = "off"
  BY <1>2, TakeExceptionStep DEF Exception, StepInv
<1>3. CASE Nop \/ LR \/ SC
  BY <1>1, <1>3 DEF Nop, LR, SC, setEA, StepInv
<1>4. CASE Trap
  <2>1. CASE riscvEBREAK /\ (DM \/ mode \in dcsr.ebreak)
    <3>1. DM'
      BY <2>1 DEF riscvEBREAK, enterDM
    <3> QED
      BY <2>1, <3>1, DebugStep DEF riscvEBREAK, StepInv
  <2> QED
    BY <1>2, <1>4, <2>1 DEF Trap, riscvECALL, riscvEBREAK
<1>5. CASE Return
  <2>1. CASE riscvDRET
    BY <2>1, LeaveStep DEF riscvDRET, leaveDM, StepInv
  <2> QED
    BY <1>1, <1>5, <2>1 DEF Return, riscvMRET, riscvHSRET, riscvVSRET, riscvMNRET,
       doERETCommon, StepInv
<1>6. CASE Wait
  <2>1. riscvWFI
    BY <1>6 DEF Wait, riscvWRSNTO, riscvWRSSTO, NoAsyncException
  <2>2. getWFILimit(FALSE) = 0
    BY DEF getWFILimit, NoAsyncException
  <2>3. fetchOK
    BY <2>1 DEF riscvWFI
  <2>4. CASE getWFITrap(FALSE) # noTrap
    BY <2>1, <2>2, <2>3, <2>4, TakeExceptionStep DEF riscvWFI, scheduleWFITrap, StepInv
  <2>5. CASE getWFITrap(FALSE) = noTrap
    BY <1>1, <2>1, <2>3, <2>5 DEF riscvWFI, scheduleWFITrap, limitTimer
  <2> QED
    BY <2>4, <2>5
<1> QED
  BY <1>3, <1>4, <1>5, <1>6

\* CSR writes; dcsr is written in Debug mode.
LEMMA CSRStep ==
  ASSUME StepInv, CSRWrite
  PROVE  SingleStep' /\ twTimer' = "off"
<1>1. fetchOK /\ executed /\ twTimer' = twTimer
  BY DEF CSRWrite, mstatusW, sstatusW, hstatusW, vsstatusW, mnstatusW, ieW, ipW, midelegW,
     hidelegW, edelegW, dcsrW, dcsrWInt, statusW, csrw
<1>2. CASE dcsrW
  BY <1>1, <1>2, DebugStep DEF dcsrW, dcsrWInt, StepInv
<1>3. CASE ~dcsrW
  <2>1. UNCHANGED <<DM, dcsr, net>>
    BY <1>3 DEF CSRWrite, mstatusW, sstatusW, hstatusW, vsstatusW, mnstatusW, ieW, ipW,
       midelegW, hidelegW, edelegW, statusW
  <2> QED
    BY <1>1, <2>1, StepAdvances DEF StepInv, executed, fetchOK
<1> QED
  BY <1>2, <1>3

\* Ports, debugger and the step timer itself.
LEMMA OtherStep ==
  ASSUME NoAsyncException, StepInv, Port \/ Debugger \/ Timer
  PROVE  SingleStep' /\ twTimer' = "off"
<1>0. net \in NetRec /\ dcsr \in DcsrRec /\ step \in StepRec
  BY DEF StepInv, TypeOK, NetType, DebugType, TimerType
<1>1. ASSUME UNCHANGED <<step, DM>>, dcsr'.step = dcsr.step, net'.stepreq = net.stepreq
      PROVE  SingleStep'
  BY <1>1 DEF SingleStep, StepInv
<1>2. CASE Port /\ ~resetPortCB
  <2>1. UNCHANGED <<step, DM, twTimer>> /\ dcsr'.step = dcsr.step /\ net'.stepreq = net.stepreq
    <3>1. CASE nmiPortCB
      BY <1>0, <3>1 DEF nmiPortCB, portFrame, DcsrRec
    <3>2. CASE haltreqPortCB \/ resethaltreqPortCB \/ deferintPortCB \/ restartwfiPortCB
      BY <1>0, <3>2 DEF haltreqPortCB, resethaltreqPortCB, deferintPortCB, restartwfiPortCB,
         portFrame, NetRec
    <3> QED
      BY <1>2, <3>1, <3>2 DEF Port, interruptPortCB, illegalInstrPortCB, SCValidPortCB,
         riscvAbortExclusiveAccess, portFrame, NoAsyncException
  <2> QED
    BY <1>1, <2>1 DEF StepInv
<1>3. CASE resetPortCB
  <2>1. CASE riscvReset
    BY <1>3, <2>1 DEF resetPortCB, riscvReset, resetDcsr, SingleStep, portFrame, StepInv
  <2>2. CASE ~riscvReset
    BY <1>0, <1>1, <1>3, <2>2 DEF resetPortCB, portFrame, StepInv, NetRec
  <2> QED
    BY <2>1, <2>2
<1>4. CASE Debugger
  <2>1. CASE writeDM
    <3>1. CASE DM
      BY <2>1, <3>1, LeaveStep DEF writeDM, leaveDM, StepInv
    <3>2. CASE ~DM
      <4>1. DM' /\ twTimer' = twTimer
        BY <2>1, <3>2 DEF writeDM, enterDM, portFrame
      <4> QED
        BY <4>1, DebugStep DEF StepInv
    <3> QED
      BY <3>1, <3>2
  <2>2. CASE writeDMStall \/ writeDcsr
    <3>1. DM /\ DM' = DM /\ twTimer' = twTimer
      BY <2>2, Zenon DEF writeDMStall, writeDcsr, dcsrWInt, portFrame
    <3> QED
      BY <3>1, DebugStep DEF StepInv
  <2> QED
    BY <1>4, <2>1, <2>2 DEF Debugger
<1>5. CASE Timer
  <2>1. riscvStepExcept
    BY <1>5 DEF Timer, expiredTW, StepInv
  <2>2. CASE step.moved
    <3>1. net' = [net EXCEPT !.stepreq = enableDebugStep(DM, dcsr)]
            /\ UNCHANGED <<DM, dcsr, twTimer>>
      BY <2>1, <2>2 DEF riscvStepExcept
    <3>2. net'.stepreq = enableDebugStep(DM, dcsr)
      BY <1>0, <3>1 DEF NetRec
    <3> QED
      BY <3>1, <3>2 DEF enableDebugStep, SingleStep, StepInv
  <2>3. CASE ~step.moved
    BY <1>0, <2>1, <2>3 DEF riscvStepExcept, stepBreakpoint, enableDebugStep, SingleStep, StepInv
  <2> QED
    BY <2>2, <2>3
<1> QED
  BY <1>2, <1>3, <1>4, <1>5

(***************************************************************************)
(* For every hart on which only instructions and fetches raise exceptions, *)
(* no two instructions execute in one step, whatever interrupts, NMIs,     *)
(* resets, traps and debugger accesses fall into it.                       *)
(***************************************************************************)
THEOREM StepIsSingle ==
  ASSUME NoAsyncException
  PROVE  Spec => []SingleStep
<1>1. Init => StepInv
  BY InitTyped DEF Init, StepInv, SingleStep, resetDcsr
<1>2. StepInv /\ [Next]_vars => StepInv'
  <2>1. ASSUME StepInv, Next
        PROVE  StepInv'
    <3>1. TypeOK'
      BY <2>1, NextTyped DEF StepInv
    <3>2. SingleStep' /\ twTimer' = "off"
      <4>1. CASE Fetch
        BY <2>1, <4>1, FetchStepInv DEF Fetch, FetchHalt, FetchStep, FetchNMI,
           FetchInterrupt, StepInv
      <4> QED
        BY <2>1, <4>1, InstructionStep, CSRStep, OtherStep DEF Next, Processor
    <3> QED
      BY <3>1, <3>2 DEF StepInv
  <2>2. ASSUME StepInv, UNCHANGED vars
        PROVE  StepInv'
    BY <2>2, NextTyped DEF StepInv, SingleStep, vars
  <2> QED
    BY <2>1, <2>2
<1>3. StepInv => SingleStep
  BY DEF StepInv
<1> QED
  BY <1>1, <1>2, <1>3, PTL DEF Spec

-----------------------------------------------------------------------------
(***************************************************************************)
(* Interrupt delivery for every configuration without the ports whose      *)
(* callbacks change what is enabled and do not refresh the cached          *)
(* interrupt (reset, deferint, illegal_instr; see the README).             *)
(*                                                                         *)
(* The inductive invariant says when the cache pendEnab may be stale: it   *)
(* is exact while interrupts are open, and a hart stalled in WFI has none  *)
(* to take, which is what lets the time limit of a wait raise an exception *)
(* without a refresh.  Privilege follows: what raises the mode saves it,    *)
(* and MPRV stays in M mode.                                               *)
(***************************************************************************)

LocM  == getPendingLocallyEnabledBasic(RISCV_MODE_M)
LocS  == getPendingLocallyEnabledBasic(RISCV_MODE_S)
LocVS == getPendingLocallyEnabledBasic(RISCV_MODE_VS)

\* No pending and locally enabled interrupt is enabled in mode cur.
QuietIn(cur, MIE, SIE, VSIE) ==
  /\ LocM # {}  => cur = RISCV_MODE_M /\ ~MIE
  /\ LocS # {}  => cur = RISCV_MODE_M \/ (cur = RISCV_MODE_S /\ ~SIE)
  /\ LocVS # {} => cur \in BaseModes \/ (cur = RISCV_MODE_VS /\ ~VSIE)

Quiet == QuietIn(mode, mstatus.MIE, mstatus.SIE, vsstatus.SIE)

CacheExact ==
  InterruptsOpen => IF pendEnab.id = RV_NO_INT THEN Quiet ELSE pendEnab = refreshed

WaitQuiet == RVD_WFI \in halted.disable => ~getPendingAndEnabled

IInv == TypeOK /\ CacheExact /\ WaitQuiet

-----------------------------------------------------------------------------
\* The priorities of the five modes are distinct numbers.
LEMMA Priorities ==
  /\ mode5Priority(4) = 1 /\ mode5Priority(5) = 2 /\ mode5Priority(0) = 3
  /\ mode5Priority(1) = 4 /\ mode5Priority(3) = 5
BY DEF mode5Priority, RISCV_MODE_M, RISCV_MODE_S, RISCV_MODE_U, RISCV_MODE_VU,
   RISCV_MODE_VS

\* When no interrupt is enabled, in terms of the mode and of the enable bits.
LEMMA QuietIff ==
  ASSUME NEW cur \in Modes, NEW ms \in MstatusRec, NEW vs \in VsstatusRec
  PROVE  NoneEnabled(cur, ms, vs) <=> QuietIn(cur, ms.MIE, ms.SIE, vs.SIE)
<1>1. cur \in {0, 1, 3, 4, 5} /\ (cur \in BaseModes <=> cur \in {0, 1, 3})
  BY ModesAre DEF BaseModes, modeIsVirtual, RISCV_MODE_V
<1>2. ms.MIE \in BOOLEAN /\ ms.SIE \in BOOLEAN /\ vs.SIE \in BOOLEAN
  BY DEF MstatusRec, VsstatusRec
<1>3. ASSUME NEW IE \in BOOLEAN
      PROVE  /\ getIE(cur, IE, RISCV_MODE_M)  <=> ~(cur = 3 /\ ~IE)
             /\ getIE(cur, IE, RISCV_MODE_S)  <=> ~(cur = 3 \/ (cur = 1 /\ ~IE))
             /\ getIE(cur, IE, RISCV_MODE_VS) <=> ~(cur \in {0, 1, 3} \/ (cur = 5 /\ ~IE))
  <2>1. /\ mode5Priority(cur) < mode5Priority(3) <=> cur # 3
        /\ mode5Priority(cur) = mode5Priority(3) <=> cur = 3
        /\ mode5Priority(cur) < mode5Priority(1) <=> cur # 3 /\ cur # 1
        /\ mode5Priority(cur) = mode5Priority(1) <=> cur = 1
        /\ mode5Priority(cur) < mode5Priority(5) <=> cur \notin {0, 1, 3} /\ cur # 5
        /\ mode5Priority(cur) = mode5Priority(5) <=> cur = 5
    BY <1>1, Priorities
  <2>2. (cur = 1 => cur # 3) /\ (cur = 5 => cur \notin {0, 1, 3})
    OBVIOUS
  <2>3. getIE(cur, IE, RISCV_MODE_M) <=> ~(cur = 3 /\ ~IE)
    BY <2>1, Zenon DEF getIE, RISCV_MODE_M
  <2>4. getIE(cur, IE, RISCV_MODE_S) <=> ~(cur = 3 \/ (cur = 1 /\ ~IE))
    BY <2>1, <2>2 DEF getIE, RISCV_MODE_S
  <2>5. getIE(cur, IE, RISCV_MODE_VS) <=> ~(cur \in {0, 1, 3} \/ (cur = 5 /\ ~IE))
    BY <2>1, <2>2 DEF getIE, RISCV_MODE_VS
  <2> QED
    BY <2>3, <2>4, <2>5
<1>4. /\ enabledInts(RISCV_MODE_M, cur, ms, vs)
           = IF getIE(cur, ms.MIE, RISCV_MODE_M) THEN LocM ELSE {}
      /\ enabledInts(RISCV_MODE_S, cur, ms, vs)
           = IF getIE(cur, ms.SIE, RISCV_MODE_S) THEN LocS ELSE {}
      /\ enabledInts(RISCV_MODE_VS, cur, ms, vs)
           = IF getIE(cur, vs.SIE, RISCV_MODE_VS) THEN LocVS ELSE {}
  BY DEF enabledInts, LocM, LocS, LocVS, RISCV_MODE_M, RISCV_MODE_S, RISCV_MODE_VS
<1>5. enabledInts(RISCV_MODE_M, cur, ms, vs) = {} <=> (LocM # {} => cur = 3 /\ ~ms.MIE)
  BY <1>2, <1>3, <1>4
<1>6. enabledInts(RISCV_MODE_S, cur, ms, vs) = {}
        <=> (LocS # {} => cur = 3 \/ (cur = 1 /\ ~ms.SIE))
  BY <1>2, <1>3, <1>4
<1>7. enabledInts(RISCV_MODE_VS, cur, ms, vs) = {}
        <=> (LocVS # {} => cur \in {0, 1, 3} \/ (cur = 5 /\ ~vs.SIE))
  BY <1>2, <1>3, <1>4
<1> QED
  BY <1>1, <1>5, <1>6, <1>7 DEF NoneEnabled, QuietIn, RISCV_MODE_M, RISCV_MODE_S,
     RISCV_MODE_VS

\* A refreshed cache is exact.
LEMMA RefreshedExact == TypeOK /\ pendEnab = refreshed => CacheExact
<1> SUFFICES ASSUME TypeOK, pendEnab = refreshed, pendEnab.id = RV_NO_INT
             PROVE  Quiet
  BY DEF CacheExact
<1>1. IntTypes /\ mode \in Modes /\ mstatus \in MstatusRec /\ vsstatus \in VsstatusRec
  BY DEF TypeOK, ModeType, StatusType, InterruptType, IntTypes
<1>2. NoneEnabled(mode, mstatus, vsstatus)
  BY <1>1, Select DEF refreshed
<1> QED
  BY <1>1, <1>2, QuietIff DEF Quiet

\* Selection depends on the interrupt registers only.
LEMMA SelectFrame ==
  ASSUME UNCHANGED <<mie, ip, swip, mideleg, hideleg>>
  PROVE  /\ LocM' = LocM /\ LocS' = LocS /\ LocVS' = LocVS
         /\ UNCHANGED <<mode, mstatus, vsstatus>> => refreshed' = refreshed /\ (Quiet' <=> Quiet)
<1>1. LocM' = LocM /\ LocS' = LocS /\ LocVS' = LocVS
  BY DEF LocM, LocS, LocVS, getPendingLocallyEnabledBasic, getPendingEnabledMIP, mip
<1>2. ASSUME UNCHANGED <<mode, mstatus, vsstatus>>
      PROVE  refreshed' = refreshed
  BY <1>1, <1>2 DEF refreshed, selectInt, enabledInts, LocM, LocS, LocVS
<1>3. ASSUME UNCHANGED <<mode, mstatus, vsstatus>>
      PROVE  Quiet' <=> Quiet
  BY <1>1, <1>3 DEF Quiet, QuietIn
<1> QED
  BY <1>1, <1>2, <1>3

-----------------------------------------------------------------------------
(***************************************************************************)
(* The ways in which a step keeps the invariant.                           *)
(***************************************************************************)

\* It tests interrupts last.
LEMMA TestStep ==
  ASSUME TypeOK', riscvTestInterrupt
  PROVE  IInv'
<1>1. CacheExact'
  <2>1. (TypeOK /\ pendEnab = refreshed => CacheExact)'
    BY RefreshedExact, PTL
  <2> QED
    BY <2>1 DEF riscvTestInterrupt, riscvRefreshPendingAndEnabled
<1>2. WaitQuiet'
  <2>1. getPendingAndEnabled' => riscvPendingAndEnabled'
    BY DEF riscvPendingAndEnabled
  <2>2. getPendingAndEnabled' => RVD_WFI \notin halted'.disable
    BY <2>1 DEF riscvTestInterrupt, testWake, riscvRestart, RVD_RESTART_NMI, RVD_RESTART_WFI
  <2> QED
    BY <2>2 DEF WaitQuiet
<1> QED
  BY <1>1, <1>2 DEF IInv

\* It closes interrupts.
LEMMA ClosedStep ==
  ASSUME TypeOK', ~InterruptsOpen'
  PROVE  IInv'
<1>1. ~getPendingAndEnabled'
  BY DEF getPendingAndEnabled, InterruptsOpen
<1> QED
  BY <1>1 DEF IInv, CacheExact, WaitQuiet

\* It leaves no interrupt enabled and none in the cache.
LEMMA QuietStep ==
  ASSUME TypeOK', Quiet', pendEnab'.id = RV_NO_INT
  PROVE  IInv'
<1>1. ~getPendingAndEnabled'
  BY DEF getPendingAndEnabled
<1> QED
  BY <1>1 DEF IInv, CacheExact, WaitQuiet

intVars == <<mode, mstatus, vsstatus, mnstatus, mie, ip, swip, mideleg, hideleg, pendEnab>>

\* It touches nothing interrupts depend on and opens none.
LEMMA FrameStep ==
  ASSUME IInv, TypeOK', UNCHANGED intVars, InterruptsOpen' => InterruptsOpen,
         RVD_WFI \in halted'.disable => ~getPendingAndEnabled
  PROVE  IInv'
<1>1. refreshed' = refreshed /\ (Quiet' <=> Quiet)
  BY SelectFrame DEF intVars
<1>2. CacheExact'
  BY <1>1 DEF IInv, CacheExact, intVars
<1>3. getPendingAndEnabled' => getPendingAndEnabled
  BY DEF getPendingAndEnabled, intVars, InterruptsOpen
<1> QED
  BY <1>2, <1>3 DEF IInv, WaitQuiet

\* With interrupts open and none to take, none is enabled.
LEMMA NoneToTake ==
  ASSUME IInv, InterruptsOpen, ~getPendingAndEnabled
  PROVE  Quiet /\ pendEnab.id = RV_NO_INT
BY DEF IInv, CacheExact, getPendingAndEnabled, InterruptsOpen

\* S mode exists when an interrupt can be offered to VS mode.
LEMMA SModeExists == TypeOK /\ LocVS # {} => 1 \in BaseModes
<1>1. LocVS # {} => mideleg # {}
  BY DEF LocVS, getPendingLocallyEnabledBasic, relocateVStoS, RISCV_MODE_M,
     RISCV_MODE_S, RISCV_MODE_VS
<1>2. TypeOK /\ LocVS # {} => "S" \in Arch
  BY <1>1 DEF TypeOK, InterruptType
<1> QED
  BY <1>2, ModesAre DEF BaseModes, modeIsVirtual, RISCV_MODE_V

\* A trap masks its own level: none is enabled after it if no interrupt is
\* pending for a higher one.
LEMMA TrapMasks ==
  ASSUME TypeOK, NEW m, trapTo(m), UNCHANGED <<mie, ip, swip, mideleg, hideleg>>,
         m # RISCV_MODE_M => LocM = {}, m = RISCV_MODE_VS => LocS = {}
  PROVE  Quiet'
<1>1. mstatus \in MstatusRec /\ vsstatus \in VsstatusRec
  BY DEF TypeOK, StatusType
<1>2. LocM' = LocM /\ LocS' = LocS /\ LocVS' = LocVS
  BY SelectFrame
<1>3. CASE m = RISCV_MODE_M
  <2>1. mode' = 3 /\ mstatus' = [mstatus EXCEPT !.MPIE = mstatus.MIE, !.MIE = FALSE,
                                   !.MPP = getBaseMode(mode), !.MPV = modeIsVirtual(mode)]
    BY <1>3 DEF trapTo, trapM, RISCV_MODE_M, RISCV_MODE_S, RISCV_MODE_VS
  <2>2. mstatus'.MIE = FALSE
    BY <1>1, <2>1, Zenon DEF MstatusRec
  <2>3. 3 \in BaseModes
    BY ModesAre DEF BaseModes, modeIsVirtual, RISCV_MODE_V
  <2> QED
    BY <2>1, <2>2, <2>3 DEF Quiet, QuietIn, RISCV_MODE_M
<1>4. CASE m = RISCV_MODE_S
  <2>1. mode' = 1 /\ mstatus' = [mstatus EXCEPT !.SPIE = mstatus.SIE, !.SIE = FALSE,
                                   !.SPP = getBaseMode(mode) % 2]
    BY <1>4 DEF trapTo, trapHS, RISCV_MODE_M, RISCV_MODE_S, RISCV_MODE_VS
  <2>2. mstatus'.SIE = FALSE
    BY <1>1, <2>1, Zenon DEF MstatusRec
  <2>3. LocM = {}
    BY <1>4 DEF RISCV_MODE_M, RISCV_MODE_S
  <2>4. LocVS # {} => 1 \in BaseModes
    BY SModeExists
  <2> QED
    BY <1>2, <2>1, <2>2, <2>3, <2>4 DEF Quiet, QuietIn, RISCV_MODE_S, RISCV_MODE_M
<1>5. CASE m = RISCV_MODE_VS
  <2>1. mode' = 5 /\ vsstatus' = [vsstatus EXCEPT !.SPIE = vsstatus.SIE, !.SIE = FALSE,
                                   !.SPP = getBaseMode(mode) % 2]
    BY <1>5 DEF trapTo, trapVS, RISCV_MODE_M, RISCV_MODE_S, RISCV_MODE_VS
  <2>2. vsstatus'.SIE = FALSE
    BY <1>1, <2>1, Zenon DEF VsstatusRec
  <2>3. LocM = {} /\ LocS = {}
    BY <1>5 DEF RISCV_MODE_M, RISCV_MODE_VS
  <2> QED
    BY <1>2, <2>1, <2>2, <2>3 DEF Quiet, QuietIn, RISCV_MODE_VS
<1> QED
  BY <1>3, <1>4, <1>5 DEF trapTo

\* A trap upwards with no interrupt enabled leaves none enabled.
LEMMA TrapQuiet ==
  ASSUME TypeOK, Quiet, NEW m, mode5Priority(mode) <= mode5Priority(m),
         trapTo(m), UNCHANGED <<mie, ip, swip, mideleg, hideleg>>
  PROVE  Quiet'
<1>1. mode \in {0, 1, 3, 4, 5}
  BY ModesAre DEF TypeOK, ModeType
<1>2. (LocM # {} => mode = 3) /\ (LocS # {} => mode = 3 \/ mode = 1)
  BY DEF Quiet, QuietIn, RISCV_MODE_M, RISCV_MODE_S
<1>3. m \in {1, 3, 5}
  BY DEF trapTo, RISCV_MODE_M, RISCV_MODE_S, RISCV_MODE_VS
<1>4. /\ m # RISCV_MODE_M => LocM = {}
      /\ m = RISCV_MODE_VS => LocS = {}
  BY <1>1, <1>2, <1>3, Priorities DEF RISCV_MODE_M, RISCV_MODE_VS
<1> QED
  BY <1>4, TrapMasks

\* The trap of the interrupt selected leaves none enabled.
LEMMA InterruptQuiet ==
  ASSUME TypeOK, NEW m \in {RISCV_MODE_M, RISCV_MODE_S, RISCV_MODE_VS}, trapTo(m),
         UNCHANGED <<mie, ip, swip, mideleg, hideleg>>,
         enabledInts(m, mode, mstatus, vsstatus) # {},
         m # RISCV_MODE_M => enabledInts(RISCV_MODE_M, mode, mstatus, vsstatus) = {},
         m = RISCV_MODE_VS => enabledInts(RISCV_MODE_S, mode, mstatus, vsstatus) = {}
  PROVE  Quiet'
<1>1. mode \in {0, 1, 3, 4, 5}
  BY ModesAre DEF TypeOK, ModeType
<1>2. \/ mode5Priority(mode) < mode5Priority(m)
      \/ mode5Priority(mode) = mode5Priority(m)
  BY DEF enabledInts, getIE
<1>3. m \in {1, 3, 5}
  BY DEF RISCV_MODE_M, RISCV_MODE_S, RISCV_MODE_VS
<1>4. m # RISCV_MODE_M => mode5Priority(mode) < mode5Priority(RISCV_MODE_M)
  BY <1>1, <1>2, <1>3, Priorities DEF RISCV_MODE_M
<1>5. m = RISCV_MODE_VS => mode5Priority(mode) < mode5Priority(RISCV_MODE_S)
  BY <1>1, <1>2, Priorities DEF RISCV_MODE_VS, RISCV_MODE_S
<1>6. m # RISCV_MODE_M => LocM = {}
  BY <1>4 DEF enabledInts, getIE, LocM
<1>7. m = RISCV_MODE_VS => LocS = {}
  BY <1>5 DEF enabledInts, getIE, LocS
<1> QED
  BY <1>6, <1>7, TrapMasks

\* Exceptions never trap downwards.
LEMMA ExceptionUp ==
  ASSUME TypeOK, NEW ecode
  PROVE  mode5Priority(mode) <= mode5Priority(getExceptionModeX(ecode))
<1>1. mode \in {0, 1, 3, 4, 5}
  BY ModesAre DEF TypeOK, ModeType
<1>2. getModeX(ecode) \in {1, 3, 5} /\ (getModeX(ecode) = 5 => mode \in {4, 5})
  BY <1>1 DEF getModeX, modeIsVirtual, RISCV_MODE_M, RISCV_MODE_S, RISCV_MODE_VS, RISCV_MODE_V
<1>3. priMap(0) = 0 /\ priMap(1) = 2 /\ priMap(3) = 3 /\ priMap(4) = 0 /\ priMap(5) = 1
  BY DEF priMap, RISCV_MODE_M, RISCV_MODE_S, RISCV_MODE_U, RISCV_MODE_VU, RISCV_MODE_VS
<1>4. getExceptionModeX(ecode) = mode
      \/ (getExceptionModeX(ecode) = getModeX(ecode) /\ ~(priMap(getModeX(ecode)) < priMap(mode)))
  BY DEF getExceptionModeX
<1> QED
  BY <1>1, <1>2, <1>3, <1>4, Priorities

\* An exception taken with no interrupt to take.
LEMMA ExceptionStep ==
  ASSUME IInv, TypeOK', ~getPendingAndEnabled, NEW ecode, NEW h, NEW n,
         n.deferint = net.deferint, riscvTakeException(ecode, h, n),
         UNCHANGED <<mnstatus, mie, ip, swip, mideleg, hideleg, pendEnab>>
  PROVE  IInv'
<1>1. CASE DM
  <2>1. DM'
    BY <1>1 DEF riscvTakeException, enterDM
  <2> QED
    BY <2>1, ClosedStep DEF InterruptsOpen
<1>2. CASE ~DM
  <2>1. /\ trapTo(getExceptionModeX(ecode)) /\ net' = n /\ UNCHANGED <<DM, dcsr>>
    BY <1>2 DEF riscvTakeException
  <2>2. InterruptsOpen' => InterruptsOpen
    BY <2>1 DEF InterruptsOpen, interruptStepDisable
  <2>3. CASE ~InterruptsOpen'
    BY <2>3, ClosedStep
  <2>4. CASE InterruptsOpen'
    <3>1. Quiet /\ pendEnab.id = RV_NO_INT
      BY <2>2, <2>4, NoneToTake
    <3>2. Quiet'
      BY <2>1, <3>1, TrapQuiet, ExceptionUp DEF IInv
    <3> QED
      BY <3>1, <3>2, QuietStep
  <2> QED
    BY <2>3, <2>4
<1> QED
  BY <1>1, <1>2

-----------------------------------------------------------------------------
(***************************************************************************)
(* Each action keeps the invariant.                                        *)
(***************************************************************************)

\* What an instruction finds: the hart runs and has no interrupt to take.
LEMMA AtInstruction ==
  ASSUME fetchOK
  PROVE  ~getPendingAndEnabled /\ halted.disable = {}
BY DEF fetchOK, AtFetch, Running, riscvPendingAndEnabled

\* Running harts are not in WFI.
LEMMA RunningStep ==
  ASSUME IInv, TypeOK', UNCHANGED intVars, UNCHANGED halted, halted.disable = {},
         InterruptsOpen' => InterruptsOpen
  PROVE  IInv'
BY FrameStep

\* Entry to Debug mode keeps the invariant: no interrupt is taken there.
LEMMA EnterDMStep ==
  ASSUME TypeOK', NEW h, NEW n, enterDM(h, n)
  PROVE  IInv'
<1>1. DM'
  BY DEF enterDM
<1> QED
  BY <1>1, ClosedStep DEF InterruptsOpen

\* Leaving Debug mode refreshes the cache.
LEMMA LeaveDMStep ==
  ASSUME TypeOK', NEW s, leaveDM(s)
  PROVE  IInv'
<1>1. CacheExact'
  <2>1. (TypeOK /\ pendEnab = refreshed => CacheExact)'
    BY RefreshedExact, PTL
  <2> QED
    BY <2>1 DEF leaveDM, riscvRefreshPendingAndEnabled
<1>2. WaitQuiet'
  <2> DEFINE h == testWake(halted, riscvPendingAndEnabled', riscvResumeFromWFI')
  <2>1. getPendingAndEnabled' => RVD_WFI \notin h.disable
    <3>1. getPendingAndEnabled' => riscvPendingAndEnabled'
      BY DEF riscvPendingAndEnabled
    <3> QED
      BY <3>1 DEF testWake, riscvRestart, RVD_RESTART_NMI, RVD_RESTART_WFI
  <2> HIDE DEF h
  <2>2. halted' = updateDMStall(h, FALSE)
    BY DEF leaveDM, h
  <2>3. RVD_WFI \in halted'.disable => RVD_WFI \in h.disable
    BY <2>2 DEF updateDMStall, riscvRestart
  <2> QED
    BY <2>1, <2>3 DEF WaitQuiet
<1> QED
  BY <1>1, <1>2 DEF IInv

\* Fetches keep the invariant.
LEMMA FetchKeeps ==
  ASSUME IInv, TypeOK', Fetch
  PROVE  IInv'
<1>0. TypeOK
  BY DEF IInv
<1>1. CASE FetchHalt \/ FetchStep
  BY <1>1, EnterDMStep DEF FetchHalt, FetchStep
<1>2. CASE FetchNMI
  <2>1. CASE ~InterruptsOpen'
    BY <2>1, ClosedStep
  <2>2. CASE InterruptsOpen'
    <3>0. /\ mode' = RISCV_MODE_M /\ halted' = halted /\ halted.disable = {}
          /\ UNCHANGED <<mstatus, vsstatus, mie, ip, swip, mideleg, hideleg, DM, net>>
      BY <1>2 DEF FetchNMI, AtFetch, Running, statusVars, pendVars, delegVars
    <3>1. UNCHANGED mnstatus /\ dcsr' = [dcsr EXCEPT !.nmip = FALSE]
      BY <1>2, <2>2 DEF FetchNMI, InterruptsOpen
    <3>2. InterruptsOpen
      <4>1. dcsr'.step = dcsr.step /\ dcsr'.stepie = dcsr.stepie
        BY <1>0, <3>1, Zenon DEF TypeOK, DebugType, DcsrRec
      <4> QED
        BY <2>2, <3>0, <3>1, <4>1 DEF InterruptsOpen, interruptStepDisable
    <3>3. RVD_WFI \notin halted'.disable
      BY <3>0
    <3>4. CASE pendEnab.id # RV_NO_INT
      <4>1. pendEnab' = refreshed'
        BY <1>2, <3>4 DEF FetchNMI, riscvRefreshPendingAndEnabled
      <4>2. CacheExact'
        <5>1. (TypeOK /\ pendEnab = refreshed => CacheExact)'
          BY RefreshedExact, PTL
        <5> QED
          BY <4>1, <5>1
      <4> QED
        BY <3>3, <4>2 DEF IInv, WaitQuiet
    <3>5. CASE pendEnab.id = RV_NO_INT
      <4>1. Quiet
        BY <3>2, <3>5 DEF IInv, CacheExact
      <4>2. mode \in {0, 1, 3, 4, 5} /\ 3 \in BaseModes
        BY <1>0, ModesAre DEF TypeOK, ModeType, BaseModes, modeIsVirtual, RISCV_MODE_V
      <4>3. LocM' = LocM /\ LocS' = LocS /\ LocVS' = LocVS
        BY <3>0, SelectFrame
      <4>4. Quiet'
        BY <3>0, <4>1, <4>2, <4>3 DEF Quiet, QuietIn, RISCV_MODE_M
      <4>5. pendEnab' = pendEnab
        BY <1>2, <3>5 DEF FetchNMI
      <4> QED
        BY <3>5, <4>4, <4>5, QuietStep
    <3> QED
      BY <3>4, <3>5
  <2> QED
    BY <2>1, <2>2
<1>3. CASE FetchInterrupt
  <2>0. /\ trapTo(pendEnab.priv)
        /\ UNCHANGED <<mnstatus, dcsr, DM, mie, ip, swip, mideleg, hideleg, net>>
    BY <1>3 DEF FetchInterrupt, pendVars, delegVars
  <2>1. InterruptsOpen /\ pendEnab.id # RV_NO_INT
    BY <1>3 DEF FetchInterrupt, getPendingAndEnabled, InterruptsOpen
  <2>2. pendEnab = selectInt(mode, mstatus, vsstatus)
    BY <2>1 DEF IInv, CacheExact, refreshed
  <2>3. pendEnab'.id = RV_NO_INT
    BY <1>0, <1>3 DEF FetchInterrupt, TypeOK, PendEnabType
  <2>4. IntTypes /\ mode \in Modes /\ mstatus \in MstatusRec /\ vsstatus \in VsstatusRec
    BY <1>0 DEF TypeOK, ModeType, StatusType, InterruptType, IntTypes
  <2>5. PICK m \in {RISCV_MODE_M, RISCV_MODE_S, RISCV_MODE_VS} :
          /\ enabledInts(m, mode, mstatus, vsstatus) # {}
          /\ pendEnab.priv = m
          /\ m # RISCV_MODE_M => enabledInts(RISCV_MODE_M, mode, mstatus, vsstatus) = {}
          /\ m = RISCV_MODE_VS => enabledInts(RISCV_MODE_S, mode, mstatus, vsstatus) = {}
    <3>1. selectInt(mode, mstatus, vsstatus) # noInt
      BY <2>1, <2>2 DEF noInt
    <3> QED
      BY <2>2, <2>4, <3>1, Select
  <2>6. Quiet'
    BY <1>0, <2>0, <2>4, <2>5, InterruptQuiet
  <2> QED
    BY <2>3, <2>6, QuietStep
<1> QED
  BY <1>1, <1>2, <1>3 DEF Fetch

\* An exception or a call keeps the invariant.
LEMMA RaiseKeeps ==
  ASSUME IInv, TypeOK', fetchOK, NEW ecode, raise(ecode)
  PROVE  IInv'
<1>1. ~getPendingAndEnabled
  BY AtInstruction
<1>2. /\ riscvTakeException(ecode, halted, net)
      /\ UNCHANGED <<mnstatus, mie, ip, swip, mideleg, hideleg, pendEnab>>
  BY DEF raise, pendVars, delegVars
<1> QED
  BY <1>1, <1>2, ExceptionStep

\* Traps of instructions keep the invariant.
LEMMA TrapKeeps ==
  ASSUME IInv, TypeOK', Trap
  PROVE  IInv'
<1>1. ASSUME NEW ecode, Exception(ecode)
      PROVE  IInv'
  BY <1>1, RaiseKeeps DEF Exception
<1>2. CASE riscvEBREAK /\ (DM \/ mode \in dcsr.ebreak)
  BY <1>2, EnterDMStep DEF riscvEBREAK
<1> QED
  BY <1>1, <1>2 DEF Trap, riscvECALL, riscvEBREAK

\* Returns keep the invariant: they test interrupts in the new mode.
LEMMA ReturnKeeps ==
  ASSUME IInv, TypeOK', Return
  PROVE  IInv'
<1>1. ASSUME NEW newMode, doERETCommon(newMode)
      PROVE  IInv'
  BY <1>1, TestStep DEF doERETCommon
<1> QED
  BY <1>1, LeaveDMStep DEF Return, riscvMRET, riscvHSRET, riscvVSRET, riscvMNRET, riscvDRET

\* Waits keep the invariant: a hart waits only with nothing to take.
LEMMA WaitKeeps ==
  ASSUME IInv, TypeOK', Nop \/ Wait \/ LR \/ SC
  PROVE  IInv'
<1>1. ASSUME fetchOK,
             UNCHANGED <<mode, statusVars, mnstatus, dcsr, DM, mie, pendVars, delegVars,
                         pendEnab, net>>
      PROVE  IInv'
  <2>1. InterruptsOpen' => InterruptsOpen
    BY <1>1 DEF InterruptsOpen, interruptStepDisable
  <2> QED
    BY <1>1, <2>1, AtInstruction, FrameStep DEF intVars, statusVars, pendVars, delegVars
<1>2. CASE Nop \/ LR \/ SC
  BY <1>1, <1>2 DEF Nop, LR, SC, setEA
<1>3. ASSUME fetchOK, NEW isWRS, NEW stall, scheduleWFITrap(isWRS, stall)
      PROVE  IInv'
  BY <1>1, <1>3, RaiseKeeps DEF scheduleWFITrap
<1>4. CASE riscvWFI \/ riscvWRSNTO
  BY <1>3, <1>4 DEF riscvWFI, riscvWRSNTO
<1>5. CASE riscvWRSSTO
  BY <1>1, <1>5 DEF riscvWRSSTO
<1> QED
  BY <1>2, <1>4, <1>5 DEF Wait

\* A write that lets enable bits only fall, with no interrupt to take.
LEMMA FallStep ==
  ASSUME IInv, TypeOK', fetchOK, mstatus'.MIE => mstatus.MIE, mstatus'.SIE => mstatus.SIE,
         vsstatus'.SIE => vsstatus.SIE,
         UNCHANGED <<mode, mnstatus, dcsr, DM, mie, ip, swip, mideleg, hideleg, net, pendEnab>>
  PROVE  IInv'
<1>1. InterruptsOpen' => InterruptsOpen
  BY DEF InterruptsOpen, interruptStepDisable
<1>2. CASE ~InterruptsOpen'
  BY <1>2, ClosedStep
<1>3. CASE InterruptsOpen'
  <2>1. Quiet /\ pendEnab.id = RV_NO_INT
    BY <1>1, <1>3, AtInstruction, NoneToTake
  <2>2. LocM' = LocM /\ LocS' = LocS /\ LocVS' = LocVS
    BY SelectFrame
  <2>3. Quiet'
    BY <2>1, <2>2 DEF Quiet, QuietIn
  <2> QED
    BY <2>1, <2>3, QuietStep
<1> QED
  BY <1>2, <1>3

\* Writes of the status registers keep the invariant, with or without a test.
LEMMA StatusWKeeps ==
  ASSUME IInv, TypeOK', NEW fields, fetchOK, statusW(fields)
  PROVE  IInv'
<1>0. mstatus \in MstatusRec /\ TypeOK
  BY DEF IInv, TypeOK, StatusType
<1>1. PICK new \in statusValues(fields) :
        /\ mstatus' = IF riscvHasMode(new.MPP) THEN new
                      ELSE [new EXCEPT !.MPP = mstatus.MPP]
        /\ UNCHANGED <<mode, hstatus, vsstatus, mnstatus, dcsr, DM, mie, pendVars,
                       delegVars, net, twTimer, EA>>
        /\ postStatusW(rises(mstatus.MIE, new.MIE) \/ rises(mstatus.SIE, new.SIE))
  BY DEF statusW
<1>2. new \in AskedRec
  BY <1>0, AskedTyped
<1>3. mstatus'.MIE = new.MIE /\ mstatus'.SIE = new.SIE
  BY <1>1, <1>2, Zenon DEF AskedRec
<1>4. CASE rises(mstatus.MIE, new.MIE) \/ rises(mstatus.SIE, new.SIE)
  BY <1>1, <1>4, TestStep DEF postStatusW
<1>5. CASE ~(rises(mstatus.MIE, new.MIE) \/ rises(mstatus.SIE, new.SIE))
  <2>1. (mstatus'.MIE => mstatus.MIE) /\ (mstatus'.SIE => mstatus.SIE)
    BY <1>3, <1>5 DEF rises
  <2>2. UNCHANGED <<vsstatus, pendEnab, halted>>
    BY <1>1, <1>5 DEF postStatusW
  <2> QED
    BY <1>1, <2>1, <2>2, FallStep DEF pendVars, delegVars
<1> QED
  BY <1>4, <1>5

\* CSR writes keep the invariant.
LEMMA CSRWriteKeeps ==
  ASSUME IInv, TypeOK', CSRWrite
  PROVE  IInv'
<1>1. CASE mstatusW \/ sstatusW
  BY <1>1, StatusWKeeps DEF mstatusW, sstatusW, csrw
<1>2. CASE hstatusW \/ edelegW
  <2>1. /\ fetchOK
        /\ UNCHANGED <<mode, mstatus, vsstatus, mnstatus, dcsr, DM, mie, ip, swip, mideleg,
                       hideleg, net, pendEnab>>
    BY <1>2 DEF hstatusW, edelegW, csrw, statusVars, pendVars, delegVars
  <2> QED
    BY <2>1, FallStep
<1>3. CASE vsstatusW
  <2>0. vsstatus \in VsstatusRec
    BY DEF IInv, TypeOK, StatusType
  <2>1. PICK a, b, c :
               /\ vsstatus' = [SIE |-> a, SPIE |-> b, SPP |-> c]
               /\ UNCHANGED <<mode, mstatus, hstatus, mnstatus, dcsr, DM, mie, pendVars,
                              delegVars, net, twTimer, EA>>
               /\ postStatusW(rises(vsstatus.SIE, a))
    BY <1>3 DEF vsstatusW
  <2>2. fetchOK
    BY <1>3 DEF vsstatusW, csrw
  <2>3. CASE rises(vsstatus.SIE, a)
    BY <2>1, <2>3, TestStep DEF postStatusW
  <2>4. CASE ~rises(vsstatus.SIE, a)
    <3>1. vsstatus'.SIE = a
      BY <2>1, Zenon
    <3>2. vsstatus'.SIE => vsstatus.SIE
      BY <2>4, <3>1 DEF rises
    <3> QED
      BY <2>1, <2>2, <2>4, <3>2, FallStep DEF postStatusW, pendVars, delegVars
  <2> QED
    BY <2>3, <2>4
<1>4. CASE mnstatusW
  <2>0. mnstatus \in MnstatusRec
    BY DEF IInv, TypeOK, NMIType
  <2>1. PICK nmie, pp :
               /\ mnstatus' = [mnstatus EXCEPT
                                 !.NMIE = mnstatus.NMIE \/ nmie,
                                 !.MNPP = IF riscvHasMode(pp) THEN pp ELSE mnstatus.MNPP]
               /\ UNCHANGED <<mode, statusVars, dcsr, DM, mie, pendVars, delegVars, net,
                              twTimer, EA>>
               /\ postStatusW(rises(mnstatus.NMIE, nmie))
    BY <1>4 DEF mnstatusW
  <2>2. fetchOK
    BY <1>4 DEF mnstatusW, csrw
  <2>3. CASE rises(mnstatus.NMIE, nmie)
    BY <2>1, <2>3, TestStep DEF postStatusW
  <2>4. CASE ~rises(mnstatus.NMIE, nmie)
    <3>1. mnstatus'.NMIE => mnstatus.NMIE
      BY <2>0, <2>1, <2>4 DEF rises, MnstatusRec
    <3>2. InterruptsOpen' => InterruptsOpen
      BY <2>1, <3>1 DEF InterruptsOpen, interruptStepDisable
    <3>3. UNCHANGED <<pendEnab, halted>>
      BY <2>1, <2>4 DEF postStatusW
    <3>4. CASE ~InterruptsOpen'
      BY <3>4, ClosedStep
    <3>5. CASE InterruptsOpen'
      <4>1. Quiet /\ pendEnab.id = RV_NO_INT
        BY <2>2, <3>2, <3>5, AtInstruction, NoneToTake
      <4>2. Quiet'
        BY <2>1, <4>1, SelectFrame DEF statusVars, pendVars, delegVars
      <4> QED
        BY <3>3, <4>1, <4>2, QuietStep
    <3> QED
      BY <3>4, <3>5
  <2> QED
    BY <2>3, <2>4
<1>5. ASSUME NEW b, b <=> ~UNCHANGED <<mie, swip, mideleg, hideleg>>, testIfChanged(b), fetchOK,
             UNCHANGED <<mode, statusVars, mnstatus, dcsr, DM, ip, net>>
      PROVE  IInv'
  <2>1. CASE b
    BY <1>5, <2>1, TestStep DEF testIfChanged
  <2>2. CASE ~b
    <3>1. UNCHANGED <<pendEnab, mie, swip, mideleg, hideleg>>
      BY <1>5, <2>2 DEF testIfChanged
    <3> QED
      BY <1>5, <3>1, FallStep DEF statusVars
  <2> QED
    BY <2>1, <2>2
<1>6. CASE ieW \/ ipW \/ midelegW \/ hidelegW
  <2>1. CASE ieW
    BY <1>5, <2>1 DEF ieW, csrw, pendVars, delegVars
  <2>2. CASE ipW
    BY <1>5, <2>2 DEF ipW, csrw, delegVars
  <2>3. CASE midelegW
    BY <1>5, <2>3 DEF midelegW, csrw, pendVars
  <2>4. CASE hidelegW
    BY <1>5, <2>4 DEF hidelegW, csrw, pendVars
  <2> QED
    BY <1>6, <2>1, <2>2, <2>3, <2>4
<1>7. CASE dcsrW
  <2>1. ~InterruptsOpen'
    BY <1>7 DEF dcsrW, dcsrWInt, InterruptsOpen
  <2> QED
    BY <2>1, ClosedStep
<1> QED
  BY <1>1, <1>2, <1>3, <1>4, <1>6, <1>7 DEF CSRWrite

\* The ports whose callbacks leave the cache stale are not connected.
NoStalePorts == Ports \cap {"reset", "deferint", "illegal_instr"} = {}

\* Ports keep the invariant, except the three that leave the cache stale.
LEMMA PortKeeps ==
  ASSUME NoStalePorts, IInv, TypeOK', Port
  PROVE  IInv'
<1>1. ASSUME UNCHANGED intVars, UNCHANGED <<DM, halted>>, net'.deferint = net.deferint,
             dcsr'.step = dcsr.step, dcsr'.stepie = dcsr.stepie
      PROVE  IInv'
  <2>1. InterruptsOpen' => InterruptsOpen
    BY <1>1 DEF InterruptsOpen, interruptStepDisable, intVars
  <2> QED
    BY <1>1, <2>1, FrameStep DEF IInv, WaitQuiet
<1>2. ASSUME UNCHANGED intVars, UNCHANGED DM, net'.deferint = net.deferint,
             dcsr'.step = dcsr.step, dcsr'.stepie = dcsr.stepie,
             halted' = riscvRestart(halted, RVD_RESTART_NMI)
      PROVE  IInv'
  <2>1. InterruptsOpen' => InterruptsOpen
    BY <1>2 DEF InterruptsOpen, interruptStepDisable, intVars
  <2>2. RVD_WFI \notin halted'.disable
    BY <1>2 DEF riscvRestart, RVD_RESTART_NMI, RVD_RESTART_WFI
  <2> QED
    BY <1>2, <2>1, <2>2, FrameStep
<1>3. net \in NetRec /\ dcsr \in DcsrRec
  BY DEF IInv, TypeOK, NetType, DebugType
<1>4. CASE interruptPortCB
  BY <1>4, TestStep DEF interruptPortCB
<1>5. CASE nmiPortCB
  <2>1. PICK x : dcsr' = [dcsr EXCEPT !.nmip = x]
    BY <1>5 DEF nmiPortCB
  <2>2. dcsr'.step = dcsr.step /\ dcsr'.stepie = dcsr.stepie
    BY <1>3, <2>1, Zenon DEF DcsrRec
  <2>3. /\ UNCHANGED intVars /\ UNCHANGED <<DM, net>>
        /\ halted' = riscvRestart(halted, RVD_RESTART_NMI) \/ halted' = halted
    BY <1>5 DEF nmiPortCB, portFrame, intVars, delegVars
  <2> QED
    BY <1>1, <1>2, <2>2, <2>3
<1>6. CASE haltreqPortCB
  <2>1. PICK x : net' = [net EXCEPT !.haltreq = x]
    BY <1>6 DEF haltreqPortCB
  <2>2. net'.deferint = net.deferint
    BY <1>3, <2>1, Zenon DEF NetRec
  <2>3. /\ UNCHANGED intVars /\ UNCHANGED <<DM, dcsr>>
        /\ halted' = riscvRestart(halted, RVD_RESTART_NMI) \/ halted' = halted
    BY <1>6 DEF haltreqPortCB, portFrame, intVars, delegVars
  <2> QED
    BY <1>1, <1>2, <2>2, <2>3
<1>7. CASE resethaltreqPortCB
  <2>1. PICK x : net' = [net EXCEPT !.resethaltreq = x]
    BY <1>7 DEF resethaltreqPortCB
  <2>2. net'.deferint = net.deferint
    BY <1>3, <2>1, Zenon DEF NetRec
  <2>3. UNCHANGED intVars /\ UNCHANGED <<DM, dcsr, halted>>
    BY <1>7 DEF resethaltreqPortCB, portFrame, intVars, delegVars
  <2> QED
    BY <1>1, <2>2, <2>3
<1>8. CASE restartwfiPortCB
  <2>1. PICK new \in BOOLEAN :
          /\ net' = [net EXCEPT !.restartwfi = new]
          /\ UNCHANGED <<mode, mstatus, vsstatus, mnstatus, dcsr, DM, mie, pendVars,
                         mideleg, hideleg, step, EA>>
          /\ IF posedge(net.restartwfi, new) THEN riscvTestInterrupt
             ELSE UNCHANGED <<pendEnab, halted>>
    BY <1>8 DEF restartwfiPortCB
  <2>2. CASE posedge(net.restartwfi, new)
    BY <2>1, <2>2, TestStep
  <2>3. CASE ~posedge(net.restartwfi, new)
    <3>1. net'.deferint = net.deferint
      BY <1>3, <2>1, Zenon DEF NetRec
    <3> QED
      BY <1>1, <2>1, <2>3, <3>1 DEF intVars, pendVars
  <2> QED
    BY <2>2, <2>3
<1>9. CASE SCValidPortCB
  BY <1>1, <1>9 DEF SCValidPortCB, portFrame, intVars, delegVars
<1>10. CASE riscvAbortExclusiveAccess
  BY <1>1, <1>2, <1>10 DEF riscvAbortExclusiveAccess, portFrame, intVars, delegVars,
     RVD_RESTART_NMI
<1> QED
  BY <1>4, <1>5, <1>6, <1>7, <1>8, <1>9, <1>10 DEF Port, NoStalePorts, deferintPortCB,
     illegalInstrPortCB, resetPortCB

\* Debugger writes keep the invariant.
LEMMA DebuggerKeeps ==
  ASSUME IInv, TypeOK', Debugger
  PROVE  IInv'
<1>1. CASE writeDM
  BY <1>1, EnterDMStep, LeaveDMStep DEF writeDM
<1>2. CASE writeDMStall
  <2>1. ~InterruptsOpen'
    BY <1>2 DEF writeDMStall, InterruptsOpen
  <2> QED
    BY <2>1, ClosedStep
<1>3. CASE writeDcsr
  <2>1. ~InterruptsOpen'
    BY <1>3 DEF writeDcsr, dcsrWInt, InterruptsOpen
  <2> QED
    BY <2>1, ClosedStep
<1> QED
  BY <1>1, <1>2, <1>3 DEF Debugger

\* The limit of a wait may raise an exception: the waiting hart has no interrupt
\* to take.
LEMMA TimerKeeps ==
  ASSUME IInv, TypeOK', Timer
  PROVE  IInv'
<1>0. net \in NetRec
  BY DEF IInv, TypeOK, NetType
<1>1. CASE riscvStepExcept
  <2>1. \/ net' = [net EXCEPT !.stepreq = enableDebugStep(DM, dcsr)]
        \/ net' = [net EXCEPT !.stepreq = FALSE]
    BY <1>1 DEF riscvStepExcept
  <2>2. net'.deferint = net.deferint
    BY <1>0, <2>1, Zenon DEF NetRec
  <2>3. UNCHANGED intVars /\ UNCHANGED <<DM, dcsr, halted>>
    BY <1>1 DEF riscvStepExcept, intVars, statusVars, pendVars, delegVars
  <2>4. InterruptsOpen' => InterruptsOpen
    BY <2>2, <2>3 DEF InterruptsOpen, interruptStepDisable, intVars
  <2> QED
    BY <2>3, <2>4, FrameStep DEF IInv, WaitQuiet
<1>2. CASE expiredTW
  <2>1. CASE RVD_STO \notin halted.disable /\ blimitTrap
    <3>1. ~getPendingAndEnabled
      BY <2>1 DEF blimitTrap, IInv, WaitQuiet
    <3>2. PICK ecode, h : takeAsync(ecode, h, net)
      BY <1>2, <2>1 DEF expiredTW, handleBLimitTrap
    <3> QED
      BY <3>1, <3>2, ExceptionStep DEF takeAsync, pendVars, delegVars
  <2>2. CASE ~(RVD_STO \notin halted.disable /\ blimitTrap)
    <3>1. /\ UNCHANGED intVars /\ UNCHANGED <<DM, dcsr, net>>
          /\ halted' = riscvRestart(halted, RVD_RESTART_WFI) \/ halted' = halted
      BY <1>2, <2>2 DEF expiredTW, intVars, statusVars, pendVars, delegVars
    <3>2. InterruptsOpen' => InterruptsOpen
      BY <3>1 DEF InterruptsOpen, interruptStepDisable, intVars
    <3>3. RVD_WFI \in halted'.disable => RVD_WFI \in halted.disable
      BY <3>1 DEF riscvRestart
    <3> QED
      BY <3>1, <3>2, <3>3, FrameStep DEF IInv, WaitQuiet
  <2> QED
    BY <2>1, <2>2
<1> QED
  BY <1>1, <1>2 DEF Timer

\* Nothing is cached and nothing is pending at the start.
LEMMA InitIInv == Init => IInv
<1> SUFFICES ASSUME Init PROVE IInv
  OBVIOUS
<1>1. TypeOK
  BY InitTyped
<1>2. LocM = {} /\ LocS = {} /\ LocVS = {}
  BY DEF Init, LocM, LocS, LocVS, getPendingLocallyEnabledBasic, getPendingEnabledMIP,
     relocateVStoS, RISCV_MODE_M, RISCV_MODE_S, RISCV_MODE_VS
<1>3. Quiet
  BY <1>2 DEF Quiet, QuietIn
<1>4. pendEnab.id = RV_NO_INT /\ ~getPendingAndEnabled
  BY DEF Init, noInt, getPendingAndEnabled
<1> QED
  BY <1>1, <1>3, <1>4 DEF IInv, CacheExact, WaitQuiet

\* Every step keeps the invariant.
LEMMA NextIInv ==
  ASSUME NoStalePorts
  PROVE  IInv /\ [Next]_vars => IInv'
<1> SUFFICES ASSUME IInv, [Next]_vars PROVE IInv'
  OBVIOUS
<1>1. TypeOK'
  BY NextTyped DEF IInv
<1>2. CASE Next
  BY <1>1, <1>2, FetchKeeps, WaitKeeps, TrapKeeps, ReturnKeeps, CSRWriteKeeps, PortKeeps,
     DebuggerKeeps, TimerKeeps DEF Next, Processor
<1>3. CASE UNCHANGED vars
  <2>1. UNCHANGED intVars /\ UNCHANGED <<DM, dcsr, net, halted>>
    BY <1>3 DEF vars, intVars
  <2>2. InterruptsOpen' => InterruptsOpen
    BY <2>1 DEF InterruptsOpen, interruptStepDisable, intVars
  <2> QED
    BY <1>1, <2>1, <2>2, FrameStep DEF IInv, WaitQuiet
<1> QED
  BY <1>2, <1>3

-----------------------------------------------------------------------------
(***************************************************************************)
(* What the invariant says of the registers.                               *)
(***************************************************************************)

\* Interrupts offered to a mode are the pending and enabled ones that target it,
\* under the numbers they are delivered as.
LEMMA OfferedAre ==
  ASSUME TypeOK
  PROVE  /\ \A i \in mip \cap mie : Target(i) = RISCV_MODE_M  => DeliveredAs(i) \in LocM
         /\ \A i \in mip \cap mie : Target(i) = RISCV_MODE_S  => DeliveredAs(i) \in LocS
         /\ \A i \in mip \cap mie : Target(i) = RISCV_MODE_VS => DeliveredAs(i) \in LocVS
         /\ \A x \in LocM : \E i \in mip \cap mie :
              Target(i) = RISCV_MODE_M /\ DeliveredAs(i) = x
         /\ \A x \in LocS : \E i \in mip \cap mie :
              Target(i) = RISCV_MODE_S /\ DeliveredAs(i) = x
         /\ \A x \in LocVS : \E i \in mip \cap mie :
              Target(i) = RISCV_MODE_VS /\ DeliveredAs(i) = x
<1> USE DEF RISCV_MODE_M, RISCV_MODE_S, RISCV_MODE_VS
<1> DEFINE P == mip \cap mie
           V == P \cap mideleg \cap hideleg
<1>1. LocM = P \ mideleg /\ LocS = (P \cap mideleg) \ hideleg /\ LocVS = relocateVStoS(V)
  BY DEF LocM, LocS, LocVS, getPendingLocallyEnabledBasic, getPendingEnabledMIP
<1>2. V \subseteq hvip
  BY ConfigAssumption DEF TypeOK, InterruptType
<1>3. LocVS = {i - 1 : i \in V}
  BY <1>1, <1>2 DEF relocateVStoS
<1>4. \A i : /\ Target(i) = 3 <=> i \notin mideleg
             /\ Target(i) = 1 <=> i \in mideleg /\ i \notin hideleg
             /\ Target(i) = 5 <=> i \in mideleg /\ i \in hideleg
  BY DEF Target
<1>5. \A i : Target(i) # 5 => DeliveredAs(i) = i
  BY DEF DeliveredAs
<1>6. \A i \in V : Target(i) = 5 /\ DeliveredAs(i) = i - 1
  BY <1>2, <1>4 DEF DeliveredAs
<1> HIDE DEF P, V
<1>7. \A i \in P : Target(i) = 5 => i \in V
  BY <1>4 DEF V
<1>8. V \subseteq P
  BY DEF V
<1>9. \A i \in P : /\ Target(i) = 3 => DeliveredAs(i) \in LocM
                   /\ Target(i) = 1 => DeliveredAs(i) \in LocS
                   /\ Target(i) = 5 => DeliveredAs(i) \in LocVS
  BY <1>1, <1>3, <1>4, <1>5, <1>6, <1>7
<1>10. /\ \A x \in LocM : \E i \in P : Target(i) = 3 /\ DeliveredAs(i) = x
       /\ \A x \in LocS : \E i \in P : Target(i) = 1 /\ DeliveredAs(i) = x
  BY <1>1, <1>4, <1>5
<1>11. \A x \in LocVS : \E i \in P : Target(i) = 5 /\ DeliveredAs(i) = x
  BY <1>3, <1>6, <1>8
<1> QED
  BY <1>9, <1>10, <1>11 DEF P

\* Interrupts enabled for a mode are the deliverable ones that target it.
LEMMA EnabledAre ==
  ASSUME TypeOK, NEW m \in {RISCV_MODE_M, RISCV_MODE_S, RISCV_MODE_VS}
  PROVE  /\ \A j \in Interrupts : Deliverable(j) /\ Target(j) = m
              => DeliveredAs(j) \in enabledInts(m, mode, mstatus, vsstatus)
         /\ \A x \in enabledInts(m, mode, mstatus, vsstatus) :
              \E i \in Interrupts : Deliverable(i) /\ Target(i) = m /\ DeliveredAs(i) = x
<1> DEFINE Loc == getPendingLocallyEnabledBasic(m)
           E   == enabledInts(m, mode, mstatus, vsstatus)
           On  == mode5Priority(mode) < mode5Priority(m) \/ (mode = m /\ GlobalEnable(m))
<1>1. E = IF getIE(mode, GlobalEnable(m), m) THEN Loc ELSE {}
  <2>1. CASE m = RISCV_MODE_M
    <3>1. GlobalEnable(m) = mstatus.MIE
      BY <2>1 DEF GlobalEnable, RISCV_MODE_M, RISCV_MODE_S, RISCV_MODE_VS
    <3> QED
      BY <2>1, <3>1 DEF enabledInts, RISCV_MODE_M, RISCV_MODE_S, RISCV_MODE_VS
  <2>2. CASE m = RISCV_MODE_S
    <3>1. GlobalEnable(m) = mstatus.SIE
      BY <2>2 DEF GlobalEnable, RISCV_MODE_M, RISCV_MODE_S, RISCV_MODE_VS
    <3> QED
      BY <2>2, <3>1 DEF enabledInts, RISCV_MODE_M, RISCV_MODE_S, RISCV_MODE_VS
  <2>3. CASE m = RISCV_MODE_VS
    <3>1. GlobalEnable(m) = vsstatus.SIE
      BY <2>3 DEF GlobalEnable, RISCV_MODE_M, RISCV_MODE_S, RISCV_MODE_VS
    <3> QED
      BY <2>3, <3>1 DEF enabledInts, RISCV_MODE_M, RISCV_MODE_S, RISCV_MODE_VS
  <2> QED
    BY <2>1, <2>2, <2>3
<1>2. mode5Priority(mode) = mode5Priority(m) <=> mode = m
  <2>1. mode \in {0, 1, 3, 4, 5}
    BY ModesAre DEF TypeOK, ModeType
  <2>2. m \in {1, 3, 5}
    BY DEF RISCV_MODE_M, RISCV_MODE_S, RISCV_MODE_VS
  <2> QED
    BY <2>1, <2>2, Priorities
<1>3. getIE(mode, GlobalEnable(m), m) <=> On
  BY <1>2, Zenon DEF getIE
<1>4. \A i \in mip \cap mie : Target(i) = m => DeliveredAs(i) \in Loc
  BY OfferedAre DEF LocM, LocS, LocVS
<1>5. \A x \in Loc : \E i \in mip \cap mie : Target(i) = m /\ DeliveredAs(i) = x
  BY OfferedAre DEF LocM, LocS, LocVS
<1>6. mip \subseteq Interrupts
  BY DEF TypeOK, InterruptType, mip
<1>7. \A i : Deliverable(i) /\ Target(i) = m <=> i \in mip \cap mie /\ Target(i) = m /\ On
  BY DEF Deliverable
<1> HIDE DEF Loc, E, On
<1>8. \A j : Deliverable(j) /\ Target(j) = m => DeliveredAs(j) \in E
  BY <1>1, <1>3, <1>4, <1>7
<1>9. \A x \in E : \E i \in Interrupts : Deliverable(i) /\ Target(i) = m /\ DeliveredAs(i) = x
  BY <1>1, <1>3, <1>5, <1>6, <1>7
<1> QED
  BY <1>8, <1>9 DEF E

\* An interrupt in an exact cache is the one to take.
LEMMA IInvJustified == IInv => InterruptJustified
<1> SUFFICES ASSUME IInv, getPendingAndEnabled
             PROVE  \E i \in Interrupts :
                      /\ Deliverable(i)
                      /\ pendEnab = [id |-> DeliveredAs(i), priv |-> Target(i)]
                      /\ \A j \in Interrupts : Deliverable(j) => Before(i, j)
  BY DEF InterruptJustified
<1> DEFINE E(m) == enabledInts(m, mode, mstatus, vsstatus)
           X    == {RISCV_MODE_M, RISCV_MODE_S, RISCV_MODE_VS}
<1>1. TypeOK /\ IntTypes
  BY DEF IInv, TypeOK, InterruptType, IntTypes
<1>2. pendEnab.id # RV_NO_INT /\ pendEnab = selectInt(mode, mstatus, vsstatus)
  BY DEF IInv, CacheExact, getPendingAndEnabled, InterruptsOpen, refreshed
<1>3. PICK m \in X :
        /\ pendEnab.id \in E(m)
        /\ pendEnab.priv = m
        /\ \A j \in E(m) : outranks(pendEnab.id, j)
        /\ m # RISCV_MODE_M => E(RISCV_MODE_M) = {}
        /\ m = RISCV_MODE_VS => E(RISCV_MODE_S) = {}
  <2>1. selectInt(mode, mstatus, vsstatus) # noInt
    BY <1>2 DEF noInt
  <2> QED
    BY <1>1, <1>2, <2>1, Select
<1>4. PICK i \in Interrupts : Deliverable(i) /\ Target(i) = m /\ DeliveredAs(i) = pendEnab.id
  BY <1>1, <1>3, EnabledAre
<1>5. pendEnab = [id |-> DeliveredAs(i), priv |-> Target(i)]
  <2>1. pendEnab = [id |-> pendEnab.id, priv |-> pendEnab.priv]
    BY <1>1 DEF TypeOK, PendEnabType
  <2> QED
    BY <1>3, <1>4, <2>1
<1>6. ASSUME NEW j \in Interrupts, Deliverable(j)
      PROVE  Before(i, j)
  <2>1. Target(j) \in X
    BY DEF Target
  <2>2. DeliveredAs(j) \in E(Target(j))
    BY <1>1, <1>6, <2>1, EnabledAre
  <2>3. CASE Target(j) = m
    BY <1>3, <1>4, <2>2, <2>3 DEF Before
  <2>4. CASE Target(j) # m
    <3>1. m # RISCV_MODE_M => Target(j) # RISCV_MODE_M
      BY <1>3, <2>2
    <3>2. m = RISCV_MODE_VS => Target(j) # RISCV_MODE_S
      BY <1>3, <2>2
    <3>3. mode5Priority(m) > mode5Priority(Target(j))
      BY <2>1, <2>4, <3>1, <3>2, Priorities DEF RISCV_MODE_M, RISCV_MODE_S, RISCV_MODE_VS
    <3> QED
      BY <1>4, <3>3 DEF Before
  <2> QED
    BY <2>3, <2>4
<1> QED
  BY <1>4, <1>5, <1>6

\* An exact cache hides none.
LEMMA IInvNotMissed == IInv => NoInterruptMissed
<1> SUFFICES ASSUME IInv, InterruptsOpen, NEW i \in Interrupts, Deliverable(i)
             PROVE  pendEnab.id # RV_NO_INT
  BY DEF NoInterruptMissed, getPendingAndEnabled, InterruptsOpen
<1>1. TypeOK /\ mode \in Modes /\ mstatus \in MstatusRec /\ vsstatus \in VsstatusRec
  BY DEF IInv, TypeOK, ModeType, StatusType
<1>2. Target(i) \in {RISCV_MODE_M, RISCV_MODE_S, RISCV_MODE_VS}
  BY DEF Target
<1>3. enabledInts(Target(i), mode, mstatus, vsstatus) # {}
  BY <1>1, <1>2, EnabledAre
<1>4. ~NoneEnabled(mode, mstatus, vsstatus)
  BY <1>2, <1>3 DEF NoneEnabled
<1>5. ~Quiet
  BY <1>1, <1>4, QuietIff DEF Quiet
<1> QED
  BY <1>5 DEF IInv, CacheExact

(***************************************************************************)
(* For every hart without the ports that leave the cache stale the fetch   *)
(* callback takes an interrupt only when it is pending, enabled and        *)
(* delegated so, the highest one first, though the cache is refreshed at   *)
(* only some of the steps that could change the answer.                    *)
(***************************************************************************)
THEOREM TakenAreJustified ==
  ASSUME NoStalePorts
  PROVE  Spec => []InterruptJustified
<1>1. Init => IInv
  BY InitIInv
<1>2. IInv /\ [Next]_vars => IInv'
  BY NextIInv
<1> QED
  BY <1>1, <1>2, IInvJustified, PTL DEF Spec

(***************************************************************************)
(* For the same harts the cache overlooks no interrupt: one that is        *)
(* deliverable while interrupts are open is registered to be taken.        *)
(***************************************************************************)
THEOREM NoneOverlooked ==
  ASSUME NoStalePorts
  PROVE  Spec => []NoInterruptMissed
<1>1. Init => IInv
  BY InitIInv
<1>2. IInv /\ [Next]_vars => IInv'
  BY NextIInv
<1> QED
  BY <1>1, <1>2, IInvNotMissed, PTL DEF Spec

-----------------------------------------------------------------------------
(***************************************************************************)
(* Privilege.                                                              *)
(***************************************************************************)

\* Where a trap from mode m to mode x saves m.
Saved(x, ms, hs, vs) ==
  \/ x = RISCV_MODE_M /\ ~ms.MIE /\ SavedIn(ms.MPP, ms.MPV)
  \/ x = RISCV_MODE_S /\ ~ms.SIE /\ SavedIn(ms.SPP, hs.SPV)
  \/ x = RISCV_MODE_VS /\ modeIsVirtual(mode) /\ ~vs.SIE /\ vs.SPP = getBaseMode(mode)

\* A trap upwards saves the mode it interrupts.
LEMMA TrapSaves ==
  ASSUME TypeOK, NEW m, trapTo(m), mode5Priority(mode') > mode5Priority(mode)
  PROVE  mode' = m /\ Saved(m, mstatus', hstatus', vsstatus')
<1>1. mode \in {0, 1, 3, 4, 5} /\ mode' = m
  BY ModesAre DEF TypeOK, ModeType, trapTo
<1>2. mstatus \in MstatusRec /\ hstatus \in HstatusRec /\ vsstatus \in VsstatusRec
  BY DEF TypeOK, StatusType
<1>3. /\ getBaseMode(0) = 0 /\ getBaseMode(4) = 0 /\ getBaseMode(5) = 1
      /\ 0 % 2 = 0 /\ 1 % 2 = 1 /\ ~modeIsVirtual(0) /\ modeIsVirtual(4)
  BY DEF getBaseMode, modeIsVirtual, RISCV_MODE_V
<1>4. CASE m = RISCV_MODE_M
  <2>1. mstatus' = [mstatus EXCEPT !.MPIE = mstatus.MIE, !.MIE = FALSE,
                                   !.MPP = getBaseMode(mode), !.MPV = modeIsVirtual(mode)]
    BY <1>4 DEF trapTo, trapM, RISCV_MODE_M, RISCV_MODE_S, RISCV_MODE_VS
  <2>2. mstatus'.MIE = FALSE /\ mstatus'.MPP = getBaseMode(mode)
          /\ mstatus'.MPV = modeIsVirtual(mode)
    BY <1>2, <2>1, Zenon DEF MstatusRec
  <2> QED
    BY <1>1, <1>4, <2>2 DEF Saved, SavedIn
<1>5. CASE m = RISCV_MODE_S
  <2>1. /\ mstatus' = [mstatus EXCEPT !.SPIE = mstatus.SIE, !.SIE = FALSE,
                                      !.SPP = getBaseMode(mode) % 2]
        /\ hstatus' = [hstatus EXCEPT !.SPV = modeIsVirtual(mode)]
    BY <1>5 DEF trapTo, trapHS, RISCV_MODE_M, RISCV_MODE_S, RISCV_MODE_VS
  <2>2. mstatus'.SIE = FALSE /\ mstatus'.SPP = getBaseMode(mode) % 2
          /\ hstatus'.SPV = modeIsVirtual(mode)
    BY <1>2, <2>1, Zenon DEF MstatusRec, HstatusRec
  <2>3. mode \in {0, 4, 5}
    BY <1>1, <1>5, Priorities DEF RISCV_MODE_S
  <2>4. getBaseMode(mode) % 2 = getBaseMode(mode)
    BY <1>3, <2>3
  <2> QED
    BY <1>1, <1>5, <2>2, <2>4 DEF Saved, SavedIn
<1>6. CASE m = RISCV_MODE_VS
  <2>1. vsstatus' = [vsstatus EXCEPT !.SPIE = vsstatus.SIE, !.SIE = FALSE,
                                     !.SPP = getBaseMode(mode) % 2]
    BY <1>6 DEF trapTo, trapVS, RISCV_MODE_M, RISCV_MODE_S, RISCV_MODE_VS
  <2>2. vsstatus'.SIE = FALSE /\ vsstatus'.SPP = getBaseMode(mode) % 2
    BY <1>2, <2>1, Zenon DEF VsstatusRec
  <2>3. mode = 4
    BY <1>1, <1>6, Priorities DEF RISCV_MODE_VS
  <2> QED
    BY <1>1, <1>3, <1>6, <2>2, <2>3 DEF Saved
<1> QED
  BY <1>4, <1>5, <1>6 DEF trapTo

\* What RiseSavesMode says of a step.
RiseSaved ==
  (~DM /\ ~net.reset /\ mode5Priority(mode') > mode5Priority(mode)) =>
    \/ DM' /\ SavedIn(dcsr'.prv, dcsr'.v)
    \/ mode' = RISCV_MODE_M /\ ~mnstatus'.NMIE /\ SavedIn(mnstatus'.MNPP, mnstatus'.MNPV)
    \/ mode' = RISCV_MODE_M /\ rnmi_version = "none" /\ dcsr.nmip /\ ~dcsr'.nmip
    \/ mode' = RISCV_MODE_M /\ ~mstatus'.MIE /\ SavedIn(mstatus'.MPP, mstatus'.MPV)
    \/ mode' = RISCV_MODE_S /\ ~mstatus'.SIE /\ SavedIn(mstatus'.SPP, hstatus'.SPV)
    \/ /\ mode' = RISCV_MODE_VS /\ modeIsVirtual(mode)
       /\ ~vsstatus'.SIE /\ vsstatus'.SPP = getBaseMode(mode)

\* Debug entry saves the mode in dcsr.
LEMMA DebugSaves ==
  ASSUME TypeOK, NEW h, NEW n, enterDM(h, n)
  PROVE  RiseSaved
<1>1. CASE DM
  BY <1>1 DEF RiseSaved
<1>2. CASE ~DM
  <2>1. dcsr \in DcsrRec
    BY DEF TypeOK, DebugType
  <2>2. DM' /\ dcsr' = [dcsr EXCEPT !.prv = getBaseMode(mode), !.v = modeIsVirtual(mode)]
    BY <1>2 DEF enterDM
  <2>3. dcsr'.prv = getBaseMode(mode) /\ dcsr'.v = modeIsVirtual(mode)
    BY <2>1, <2>2, Zenon DEF DcsrRec
  <2> QED
    BY <2>2, <2>3 DEF RiseSaved, SavedIn
<1> QED
  BY <1>1, <1>2

\* A trap saves the mode.
LEMMA TrapRise ==
  ASSUME TypeOK, NEW m, trapTo(m)
  PROVE  RiseSaved
BY TrapSaves DEF RiseSaved, Saved

\* So does an exception, in Debug mode or out of it.
LEMMA ExceptionRise ==
  ASSUME TypeOK, NEW e, NEW h, NEW n, riscvTakeException(e, h, n)
  PROVE  RiseSaved
BY DebugSaves, TrapRise DEF riscvTakeException

\* What the fetch callback enters saves the mode.
LEMMA FetchRise ==
  ASSUME TypeOK, Fetch
  PROVE  RiseSaved
<1>1. CASE FetchHalt \/ FetchStep
  BY <1>1, DebugSaves DEF FetchHalt, FetchStep
<1>2. CASE FetchInterrupt
  BY <1>2, TrapRise DEF FetchInterrupt
<1>3. CASE FetchNMI
  <2>1. CASE rnmi_version # "none"
    BY <1>3, <2>1 DEF FetchNMI, RiseSaved, SavedIn
  <2>2. CASE rnmi_version = "none"
    <3>1. dcsr \in DcsrRec /\ dcsr' = [dcsr EXCEPT !.nmip = FALSE] /\ dcsr.nmip
      BY <1>3, <2>2 DEF FetchNMI, getPendingAndEnabledNMI, TypeOK, DebugType
    <3>2. dcsr'.nmip = FALSE
      BY <3>1, Zenon DEF DcsrRec
    <3> QED
      BY <1>3, <2>2, <3>1, <3>2 DEF FetchNMI, RiseSaved
  <2> QED
    BY <2>1, <2>2
<1> QED
  BY <1>1, <1>2, <1>3 DEF Fetch

\* Returns do not raise the privilege.
LEMMA ReturnRise ==
  ASSUME TypeOK, Return
  PROVE  RiseSaved
<1>1. mode \in {0, 1, 3, 4, 5}
  BY ModesAre DEF TypeOK, ModeType
<1>2. mode' \in {0, 1, 3, 4, 5}
  BY ReturnTyped, ModesAre DEF TypeOK, ModeType
<1>3. CASE mode = RISCV_MODE_M
  BY <1>1, <1>2, <1>3, Priorities DEF RiseSaved, RISCV_MODE_M
<1>4. CASE riscvHSRET /\ mode = RISCV_MODE_S
  <2>1. mstatus.SPP \in 0..1 /\ "S" \in Arch /\ "U" \in Arch
    BY <1>4, ArchAssumption DEF riscvHSRET, TypeOK, StatusType, MstatusRec
  <2>2. getERETMode(mstatus.SPP) = mstatus.SPP
    BY <2>1 DEF getERETMode, riscvHasMode, RISCV_MODE_U, RISCV_MODE_S
  <2>3. mode' \in {0, 1, 4, 5}
    BY <1>4, <2>1, <2>2 DEF riscvHSRET, doERETCommon, RISCV_MODE_V
  <2> QED
    BY <1>4, <2>3, Priorities DEF RiseSaved, RISCV_MODE_S
<1>5. CASE riscvVSRET
  <2>1. mode = 5 /\ "U" \in Arch /\ "S" \in Arch /\ vsstatus.SPP \in 0..1
    BY <1>5, ArchAssumption DEF riscvVSRET, TypeOK, ModeType, StatusType, VsstatusRec, Modes,
       riscvHasMode, RISCV_MODE_VS, RISCV_MODE_M, RISCV_MODE_S, RISCV_MODE_U, RISCV_MODE_VU
  <2>2. getERETMode(vsstatus.SPP) = vsstatus.SPP
    BY <2>1 DEF getERETMode, riscvHasMode, RISCV_MODE_U, RISCV_MODE_S
  <2>3. mode' \in {4, 5}
    BY <1>5, <2>1, <2>2 DEF riscvVSRET, doERETCommon, RISCV_MODE_V
  <2> QED
    BY <2>1, <2>3, Priorities DEF RiseSaved
<1>6. CASE riscvDRET
  BY <1>6 DEF riscvDRET, RiseSaved
<1> QED
  BY <1>3, <1>4, <1>5, <1>6 DEF Return, riscvMRET, riscvHSRET, riscvMNRET

\* A step that keeps the mode raises nothing.
LEMMA SameModeRise == mode \in Modes /\ mode' = mode => RiseSaved
<1> SUFFICES ASSUME mode \in Modes, mode' = mode
             PROVE  ~(mode5Priority(mode') > mode5Priority(mode))
  BY DEF RiseSaved
<1>1. mode \in {0, 1, 3, 4, 5}
  BY ModesAre
<1> QED
  BY <1>1, Priorities

\* Every step of the hart.
LEMMA NextRise ==
  ASSUME TypeOK, Next
  PROVE  RiseSaved
<1>0. mode' = mode => RiseSaved
  BY SameModeRise DEF TypeOK, ModeType
<1>1. ASSUME NEW e, Exception(e) \/ raise(e)
      PROVE  RiseSaved
  BY <1>1, ExceptionRise DEF Exception, raise
<1>2. CASE Nop \/ LR \/ SC \/ CSRWrite
  BY <1>0, <1>2 DEF Nop, LR, SC, setEA, CSRWrite, mstatusW, sstatusW, hstatusW, vsstatusW,
     mnstatusW, ieW, ipW, midelegW, hidelegW, edelegW, dcsrW, dcsrWInt, statusW
<1>3. CASE Trap
  BY <1>1, <1>3, DebugSaves DEF Trap, riscvECALL, riscvEBREAK
<1>4. CASE Wait
  BY <1>0, <1>1, <1>4 DEF Wait, riscvWFI, riscvWRSNTO, riscvWRSSTO, scheduleWFITrap
<1>5. ASSUME NEW e, NEW h, NEW n, takeAsync(e, h, n)
      PROVE  RiseSaved
  BY <1>5, ExceptionRise DEF takeAsync
<1>6. CASE Port
  <2>1. CASE riscvReset /\ net.reset
    BY <2>1 DEF RiseSaved
  <2>2. CASE illegalInstrPortCB
    BY <1>0, <1>5, <2>2 DEF illegalInstrPortCB, handleBLimitTrap
  <2> QED
    BY <1>0, <1>6, <2>1, <2>2 DEF Port, interruptPortCB, nmiPortCB, haltreqPortCB,
       resethaltreqPortCB, deferintPortCB, restartwfiPortCB, SCValidPortCB,
       riscvAbortExclusiveAccess, resetPortCB
<1>7. CASE Debugger
  <2>1. CASE writeDM
    <3>1. CASE DM
      BY <3>1 DEF RiseSaved
    <3> QED
      BY <2>1, <3>1, DebugSaves DEF writeDM
  <2> QED
    BY <1>0, <1>7, <2>1 DEF Debugger, writeDMStall, writeDcsr, dcsrWInt
<1>8. CASE Timer
  BY <1>0, <1>5, <1>8 DEF Timer, riscvStepExcept, expiredTW, handleBLimitTrap
<1> QED
  BY <1>2, <1>3, <1>4, <1>6, <1>7, <1>8, FetchRise, ReturnRise DEF Next, Processor

(***************************************************************************)
(* For every configuration the privilege of the hart rises, outside Debug  *)
(* mode and reset, only through a trap, NMI or Debug entry, which saves    *)
(* the interrupted mode, virtualisation included, where the return from    *)
(* that handler finds it.                                                  *)
(***************************************************************************)
THEOREM RisesSaveMode == Spec => RiseSavesMode
<1>1. TypeOK /\ [Next]_vars => [RiseSaved]_vars
  BY NextRise
<1> QED
  BY <1>1, TypeCorrect, PTL DEF Spec, RiseSavesMode, RiseSaved

\* MPRV and mode are as they were, or the step ends in M mode or clears MPRV.
MPRVSafe ==
  \/ mode' = mode /\ mstatus'.MPRV = mstatus.MPRV
  \/ mode' = RISCV_MODE_M
  \/ ~mstatus'.MPRV

\* A return clears MPRV unless it stays in M mode.
LEMMA ClearedMPRV ==
  ASSUME NEW ms \in MstatusRec, NEW m
  PROVE  m = RISCV_MODE_M \/ ~clearMPRV(ms, m).MPRV
<1>1. [ms EXCEPT !.MPRV = FALSE].MPRV = FALSE
  BY Zenon DEF MstatusRec
<1> QED
  BY <1>1 DEF clearMPRV

\* A trap keeps MPRV, and one taken in M mode stays there.
LEMMA TrapMPRV ==
  ASSUME TypeOK, MPRVOnlyInM, NEW m, trapTo(m), mode = RISCV_MODE_M => m = RISCV_MODE_M
  PROVE  MPRVOnlyInM'
<1>1. mstatus \in MstatusRec
  BY DEF TypeOK, StatusType
<1>2. mstatus'.MPRV = mstatus.MPRV
  <2>1. CASE trapM
    BY <1>1, <2>1 DEF trapM, MstatusRec
  <2>2. CASE trapHS
    BY <1>1, <2>2 DEF trapHS, MstatusRec
  <2>3. CASE trapVS
    BY <2>3 DEF trapVS
  <2> QED
    BY <2>1, <2>2, <2>3 DEF trapTo
<1> QED
  BY <1>2 DEF MPRVOnlyInM, trapTo

\* An exception keeps MPRV in M mode.
LEMMA ExceptionMPRV ==
  ASSUME TypeOK, MPRVOnlyInM, NEW e, NEW h, NEW n, riscvTakeException(e, h, n)
  PROVE  MPRVOnlyInM'
<1>1. CASE DM
  BY <1>1 DEF riscvTakeException, enterDM, statusVars, MPRVOnlyInM
<1>2. CASE ~DM
  <2>1. trapTo(getExceptionModeX(e))
    BY <1>2 DEF riscvTakeException
  <2>2. mode = RISCV_MODE_M => getExceptionModeX(e) = RISCV_MODE_M
    <3>1. mode5Priority(mode) <= mode5Priority(getExceptionModeX(e))
      BY ExceptionUp
    <3>2. getExceptionModeX(e) \in {1, 3, 5}
      BY <2>1 DEF trapTo, RISCV_MODE_M, RISCV_MODE_S, RISCV_MODE_VS
    <3> QED
      BY <3>1, <3>2, Priorities DEF RISCV_MODE_M
  <2> QED
    BY <2>1, <2>2, TrapMPRV
<1> QED
  BY <1>1, <1>2

\* Every step of the hart keeps MPRV in M mode.
LEMMA NextMPRV ==
  ASSUME rnmi_version = "none", IInv, TypeOK', MPRVOnlyInM, Next
  PROVE  MPRVOnlyInM'
<1>0. TypeOK /\ mstatus \in MstatusRec
  BY DEF IInv, TypeOK, StatusType
<1>1. MPRVSafe => MPRVOnlyInM'
  BY DEF MPRVSafe, MPRVOnlyInM
<1>2. UNCHANGED <<mode, mstatus>> => MPRVSafe
  BY DEF MPRVSafe
<1>3. ASSUME NEW h, NEW n, enterDM(h, n), UNCHANGED mstatus
      PROVE  MPRVSafe
  BY <1>3 DEF enterDM, MPRVSafe
<1>4. ASSUME NEW e, Exception(e) \/ raise(e)
      PROVE  MPRVOnlyInM'
  BY <1>0, <1>4, ExceptionMPRV DEF Exception, raise
<1>5. ASSUME NEW s, leaveDM(s)
      PROVE  MPRVSafe
  BY <1>0, <1>5, ClearedMPRV DEF leaveDM, MPRVSafe
<1>6. CASE Fetch
  <2>1. CASE FetchInterrupt
    <3>1. PICK i \in Interrupts :
            Deliverable(i) /\ pendEnab = [id |-> DeliveredAs(i), priv |-> Target(i)]
      BY <2>1, IInvJustified DEF FetchInterrupt, InterruptJustified
    <3>2. pendEnab.priv = Target(i) /\ Target(i) \in {1, 3, 5}
      BY <3>1 DEF Target, RISCV_MODE_M, RISCV_MODE_S, RISCV_MODE_VS
    <3>3. mode = RISCV_MODE_M => pendEnab.priv = RISCV_MODE_M
      BY <3>1, <3>2, Priorities DEF Deliverable, RISCV_MODE_M
    <3> QED
      BY <1>0, <2>1, <3>3, TrapMPRV DEF FetchInterrupt
  <2>2. CASE FetchNMI
    BY <1>1, <2>2 DEF FetchNMI, MPRVSafe
  <2> QED
    BY <1>1, <1>3, <1>6, <2>1, <2>2 DEF Fetch, FetchHalt, FetchStep, statusVars
<1>7. CASE Nop \/ LR \/ SC
  BY <1>1, <1>2, <1>7 DEF Nop, LR, SC, setEA, statusVars
<1>8. CASE Trap
  BY <1>1, <1>3, <1>4, <1>8 DEF Trap, riscvECALL, riscvEBREAK, statusVars
<1>9. CASE Return
  <2>1. CASE riscvMRET
    <3>1. [mstatus EXCEPT !.MIE = mstatus.MPIE, !.MPIE = TRUE, !.MPP = riscvGetMinMode,
                          !.MPV = FALSE] \in MstatusRec
      BY <1>0, MinMode, Zenon DEF MstatusRec
    <3> QED
      BY <1>1, <2>1, <3>1, ClearedMPRV DEF riscvMRET, doERETCommon, MPRVSafe
  <2>2. CASE riscvHSRET
    <3>1. riscvGetMinMode \in 0..1
      BY <2>2, ArchAssumption DEF riscvHSRET, riscvGetMinMode, RISCV_MODE_U, RISCV_MODE_S
    <3>2. [mstatus EXCEPT !.SIE = mstatus.SPIE, !.SPIE = TRUE, !.SPP = riscvGetMinMode]
            \in MstatusRec
      BY <1>0, <3>1, Zenon DEF MstatusRec
    <3> QED
      BY <1>1, <2>2, <3>2, ClearedMPRV DEF riscvHSRET, doERETCommon, MPRVSafe
  <2>3. CASE riscvVSRET
    BY <1>0, <1>1, <2>3, ClearedMPRV DEF riscvVSRET, doERETCommon, MPRVSafe
  <2> QED
    BY <1>1, <1>5, <1>9, <2>1, <2>2, <2>3 DEF Return, riscvMNRET, riscvDRET
<1>10. CASE Wait
  BY <1>1, <1>2, <1>4, <1>10 DEF Wait, riscvWFI, riscvWRSNTO, riscvWRSSTO, scheduleWFITrap,
     statusVars
<1>11. CASE CSRWrite
  <2>1. CASE mstatusW
    BY <1>1, <2>1 DEF mstatusW, csrw, statusW, MPRVSafe
  <2>2. CASE sstatusW
    <3>1. PICK new \in statusValues(sstatusFields) :
            /\ mstatus' = IF riscvHasMode(new.MPP) THEN new
                          ELSE [new EXCEPT !.MPP = mstatus.MPP]
            /\ mode' = mode
      BY <2>2 DEF sstatusW, statusW
    <3>2. new.MPRV = mstatus.MPRV
      BY DEF statusValues, sstatusFields, bit
    <3>3. [new EXCEPT !.MPP = mstatus.MPP].MPRV = new.MPRV
      BY DEF statusValues
    <3> QED
      BY <1>1, <3>1, <3>2, <3>3 DEF MPRVSafe
  <2> QED
    BY <1>1, <1>2, <1>11, <2>1, <2>2 DEF CSRWrite, hstatusW, vsstatusW, mnstatusW, ieW, ipW,
       midelegW, hidelegW, edelegW, dcsrW, dcsrWInt, statusVars
<1>12. ASSUME NEW e, NEW h, NEW n, takeAsync(e, h, n)
       PROVE  MPRVOnlyInM'
  BY <1>0, <1>12, ExceptionMPRV DEF takeAsync
<1>13. CASE Port
  <2>1. CASE illegalInstrPortCB
    BY <1>1, <1>2, <1>12, <2>1 DEF illegalInstrPortCB, handleBLimitTrap, statusVars
  <2>2. CASE riscvReset
    BY <1>1, <2>2 DEF riscvReset, MPRVSafe
  <2> QED
    BY <1>1, <1>2, <1>13, <2>1, <2>2 DEF Port, interruptPortCB, nmiPortCB, haltreqPortCB,
       resethaltreqPortCB, deferintPortCB, restartwfiPortCB, SCValidPortCB,
       riscvAbortExclusiveAccess, resetPortCB
<1>14. CASE Debugger
  BY <1>1, <1>2, <1>3, <1>5, <1>14 DEF Debugger, writeDM, writeDMStall, writeDcsr, dcsrWInt,
     statusVars
<1>15. CASE Timer
  BY <1>1, <1>2, <1>12, <1>15 DEF Timer, riscvStepExcept, expiredTW, handleBLimitTrap, statusVars
<1> QED
  BY <1>6, <1>7, <1>8, <1>9, <1>10, <1>11, <1>13, <1>14, <1>15 DEF Next, Processor

(***************************************************************************)
(* For every hart without resumable NMIs and without the ports that leave  *)
(* the cached interrupt stale, MPRV is set in M mode only: every way down  *)
(* from M mode clears it, and no interrupt taken in M mode leads out of it. *)
(***************************************************************************)
THEOREM MPRVStaysInM ==
  ASSUME NoStalePorts, rnmi_version = "none"
  PROVE  Spec => []MPRVOnlyInM
<1>1. Init => IInv /\ MPRVOnlyInM
  BY InitIInv DEF Init, MPRVOnlyInM
<1>2. IInv /\ MPRVOnlyInM /\ [Next]_vars => (IInv /\ MPRVOnlyInM)'
  <2>1. IInv /\ [Next]_vars => IInv'
    BY NextIInv
  <2>2. ASSUME IInv, MPRVOnlyInM, Next
        PROVE  MPRVOnlyInM'
    BY <2>1, <2>2, NextMPRV DEF IInv
  <2>3. UNCHANGED vars /\ MPRVOnlyInM => MPRVOnlyInM'
    BY DEF vars, MPRVOnlyInM
  <2> QED
    BY <2>1, <2>2, <2>3
<1> QED
  BY <1>1, <1>2, PTL DEF Spec
=============================================================================
