-------------------------------- MODULE Timer --------------------------------
(***************************************************************************)
(* Time comparators and pending interrupts of one hart: the mtime counter, *)
(* mtimecmp and msip of the CLINT, stimecmp and vstimecmp of Sstc, and the *)
(* mip register composed from them (riscvExceptions.c, riscvCLINT.c and    *)
(* the CSR writes of riscvCSR.c).                                          *)
(*                                                                         *)
(* A hart has a single simulator timer for all its comparators, set to the *)
(* nearest moment at which one of them changes.  CLINT registers of a hart *)
(* are written by stores of any hart; each store merges its bytes into the *)
(* register and writes it whole, so any value may result.                  *)
(*                                                                         *)
(* Left out: CLIC, Smaia, guest external interrupts, access faults of      *)
(* stimecmp and save/restore.                                              *)
(***************************************************************************)
EXTENDS Integers

CONSTANTS
  TimeMod,      \* counters wrap at this value (2^64 in the code)
  CLINT,        \* an internal CLINT is configured
  Sstc,
  Hypervisor,
  mtimeTimer    \* mtime is counted internally, not driven by a port

VARIABLES
  mtime,        \* mtimebase plus the count of the timer
  timecmp,      \* value of each comparator
  htimedelta,
  fired,        \* comparators last seen to have passed: mip.MTIP in ip, and
                \* riscv->stimecmp and riscv->vstimecmp
  msip,
  swip,         \* STIP and VSTIP written by software
  menvcfgSTCE,
  henvcfgSTCE,
  mip,          \* what the hart sees pending
  timer         \* ticks to the timer callback; 0: callback due

cfgVars == <<menvcfgSTCE, henvcfgSTCE>>

vars == <<mtime, timecmp, htimedelta, fired, msip, swip, cfgVars, mip, timer>>

\* Comparators of the hart: mtimecmp, stimecmp and vstimecmp.
Comparators ==
  {c \in {"m", "s", "vs"} :
     \/ c = "m" /\ CLINT
     \/ c = "s" /\ Sstc
     \/ c = "vs" /\ Sstc /\ Hypervisor}

\* With a CLINT there is no mtime port; without comparators, no state here.
ASSUME TimerAssumption ==
  /\ TimeMod \in Nat /\ TimeMod > 1
  /\ {CLINT, Sstc, Hypervisor, mtimeTimer} \subseteq BOOLEAN
  /\ CLINT \/ Sstc
  /\ CLINT => mtimeTimer

Time == 0..(TimeMod - 1)

\* The timer has not been set.
OFF == -1

MSIP  == 3
STIP  == 5
VSTIP == 6
MTIP  == 7

\* Sum of two 64-bit values.
add(a, b) == IF a + b < TimeMod THEN a + b ELSE a + b - TimeMod

-----------------------------------------------------------------------------
(***************************************************************************)
(* Composition of mip (riscvUpdatePending).                                *)
(***************************************************************************)

stimecmpEnabled == menvcfgSTCE

vstimecmpEnabled == stimecmpEnabled /\ henvcfgSTCE

only(bit, condition) == IF condition THEN {bit} ELSE {}

\* STIP comes from stimecmp alone when Sstc is enabled; VSTIP from either.
effectiveSwip ==
  IF ~stimecmpEnabled THEN swip
  ELSE (swip \ {STIP}) \cup only(STIP, "s" \in fired)
                       \cup only(VSTIP, "vs" \in fired /\ vstimecmpEnabled)

composed == only(MSIP, msip) \cup only(MTIP, "m" \in fired) \cup effectiveSwip

riscvUpdatePending == mip' = composed'

-----------------------------------------------------------------------------
(***************************************************************************)
(* Comparators and the timer (riscvUpdateTimer).                           *)
(***************************************************************************)

\* The time comparator c is compared with.
timeFor(c) == IF c = "vs" THEN add(mtime, htimedelta) ELSE mtime

passed(c) == timeFor(c) >= timecmp[c]

\* Mutant: a comparator that has passed needs no further look.
timeoutOf_noWrap(c) == IF passed(c) THEN TimeMod - 1 ELSE timecmp[c] - timeFor(c)

\* Ticks to the next change of comparator c: until time reaches it or, once it
\* has passed, until time wraps.  The negation of time 0 is 0.
timeoutOf(c) ==
  IF ~passed(c) THEN timecmp[c] - timeFor(c)
  ELSE IF timeFor(c) = 0 THEN 0
  ELSE TimeMod - timeFor(c)

lower(timeout, c) ==
  IF c \in Comparators /\ timeoutOf(c) < timeout THEN timeoutOf(c) ELSE timeout

\* The nearest change of all; a timeout of 0 is taken for none.
nextTimeout ==
  LET timeout == lower(lower(lower(TimeMod - 1, "m"), "s"), "vs")
  IN  IF timeout = 0 THEN TimeMod - 1 ELSE timeout

\* Comparators are looked at again and the timer is set.
refreshTimer ==
  /\ fired' = {c \in Comparators : passed(c)'}
  /\ timer' = IF mtimeTimer THEN nextTimeout' ELSE OFF

\* Called last by its callers: it sees their other updates.
riscvUpdateTimer ==
  /\ refreshTimer
  /\ IF fired' # fired THEN riscvUpdatePending ELSE UNCHANGED mip

-----------------------------------------------------------------------------
Init ==
  /\ mtime = 0
  /\ timecmp = [c \in Comparators |-> 0]
  /\ htimedelta = 0
  /\ fired = Comparators
  /\ msip = FALSE
  /\ swip = {}
  /\ menvcfgSTCE = FALSE /\ henvcfgSTCE = FALSE
  /\ mip = composed
  /\ timer = OFF

\* Time passes up to the next timer callback.
Tick ==
  /\ mtimeTimer
  /\ timer # 0
  /\ mtime' = add(mtime, 1)
  /\ timer' = IF timer = OFF THEN OFF ELSE timer - 1
  /\ UNCHANGED <<timecmp, htimedelta, fired, msip, swip, cfgVars, mip>>

mtimeCB ==
  /\ timer = 0
  /\ UNCHANGED <<mtime, timecmp, htimedelta, msip, swip, cfgVars>>
  /\ riscvUpdateTimer

\* A CLINT store to mtime, common to all harts, or a change of the mtime port.
riscvWriteMTIME ==
  /\ CLINT \/ ~mtimeTimer
  /\ mtime' \in Time
  /\ UNCHANGED <<timecmp, htimedelta, msip, swip, cfgVars>>
  /\ riscvUpdateTimer

timecmpW(c) ==
  /\ c \in Comparators
  /\ \E value \in Time : timecmp' = [timecmp EXCEPT ![c] = value]
  /\ UNCHANGED <<mtime, htimedelta, msip, swip, cfgVars>>
  /\ riscvUpdateTimer

\* A CLINT store to mtimecmp.
riscvWriteMTIMECMP == timecmpW("m")

stimecmpWInt == timecmpW("s")

vstimecmpWInt == timecmpW("vs")

htimedeltaIntW ==
  /\ Hypervisor
  /\ htimedelta' \in Time \ {htimedelta}
  /\ UNCHANGED <<mtime, timecmp, msip, swip, cfgVars>>
  /\ riscvUpdateTimer

riscvWriteCLINTMSIP ==
  /\ CLINT
  /\ msip' \in BOOLEAN
  /\ UNCHANGED <<mtime, timecmp, htimedelta, fired, swip, cfgVars, timer>>
  /\ riscvUpdatePending

\* mip.STIP is read-only while Sstc is enabled; hvip.VSTIP never is.
ipW ==
  /\ \E bit \in (IF stimecmpEnabled THEN {} ELSE {STIP})
                  \cup (IF Hypervisor THEN {VSTIP} ELSE {}) :
       swip' \in {swip \cup {bit}, swip \ {bit}}
  /\ UNCHANGED <<mtime, timecmp, htimedelta, fired, msip, cfgVars, timer>>
  /\ IF swip' # swip THEN riscvUpdatePending ELSE UNCHANGED mip

\* Mutant: enabling or disabling a comparator leaves mip as it was.
pendingIf_never(changed) == UNCHANGED mip

pendingIf(changed) == IF changed THEN riscvUpdatePending ELSE UNCHANGED mip

menvcfgWInt ==
  /\ Sstc
  /\ menvcfgSTCE' \in BOOLEAN
  /\ UNCHANGED <<mtime, timecmp, htimedelta, fired, msip, swip, henvcfgSTCE, timer>>
  /\ pendingIf(stimecmpEnabled # stimecmpEnabled')

\* henvcfg.STCE keeps its value, unseen, while menvcfg.STCE is clear.
henvcfgWInt ==
  /\ Sstc /\ Hypervisor
  /\ henvcfgSTCE' \in (IF stimecmpEnabled THEN BOOLEAN ELSE {henvcfgSTCE})
  /\ UNCHANGED <<mtime, timecmp, htimedelta, fired, msip, swip, menvcfgSTCE, timer>>
  /\ pendingIf(vstimecmpEnabled # vstimecmpEnabled')

\* Comparators, time and configuration survive a reset.
riscvReset ==
  /\ msip' = (msip /\ ~CLINT)
  /\ UNCHANGED <<mtime, timecmp, htimedelta, swip, cfgVars>>
  /\ refreshTimer
  /\ IF CLINT \/ fired' # fired THEN riscvUpdatePending ELSE UNCHANGED mip

Next ==
  \/ Tick \/ mtimeCB
  \/ riscvWriteMTIME \/ riscvWriteMTIMECMP \/ stimecmpWInt \/ vstimecmpWInt
  \/ htimedeltaIntW \/ riscvWriteCLINTMSIP \/ ipW \/ menvcfgWInt \/ henvcfgWInt
  \/ riscvReset

Spec == Init /\ [][Next]_vars

=============================================================================
