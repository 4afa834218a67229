----------------------------- MODULE TimerProofs -----------------------------
(***************************************************************************)
(* The comparators of a hart are exact and its mip is current, for every   *)
(* width of the counters and every configuration of comparators.           *)
(***************************************************************************)
EXTENDS TimerProperties, TLAPS

\* Ticks to the next change of comparator c, at time 0 too.
distance(c) ==
  IF passed(c) THEN TimeMod - timeFor(c) ELSE timecmp[c] - timeFor(c)

\* The timer calls back no later than comparator c changes.
inTime(c) == timer # OFF => timer <= distance(c)

\* A timer that was never set means that no comparator was written.
offAtReset == timer = OFF /\ mtimeTimer => \A c \in Comparators : timecmp[c] = 0

\* What the timer is set to.
timeoutInTime ==
  /\ nextTimeout \in Time \ {0}
  /\ \A c \in Comparators : othersSet(c) => nextTimeout <= distance(c)

\* What TimerExact rests on.
TimerInv ==
  /\ offAtReset
  /\ TimerExact
  /\ \A c \in Comparators : othersSet(c) => inTime(c)

IInv == TypeOK /\ TimerInv

-----------------------------------------------------------------------------
\* Times, virtual time too, stay within the width of the counters.
LEMMA TimeForType ==
  TimeType => \A c \in Comparators : timeFor(c) \in Time /\ timecmp[c] \in Time
  BY TimerAssumption DEF TimeType, Time, timeFor, add

\* No comparator changes at once.
LEMMA DistancePositive ==
  TimeType => \A c \in Comparators : distance(c) \in 1..TimeMod
<1> SUFFICES ASSUME TimeType, NEW c \in Comparators
             PROVE  distance(c) \in 1..TimeMod
  OBVIOUS
<1>1. timeFor(c) \in Time /\ timecmp[c] \in Time
  BY TimeForType
<1> QED
  BY <1>1, TimerAssumption DEF distance, passed, Time

\* The timeout of a comparator is its distance unless both it and time are 0.
LEMMA TimeoutDistance ==
  TimeType => \A c \in Comparators :
              /\ timeoutOf(c) \in Time
              /\ \/ timeoutOf(c) = distance(c)
                 \/ timeoutOf(c) = 0 /\ distance(c) = TimeMod /\ timecmp[c] = 0
<1> SUFFICES ASSUME TimeType, NEW c \in Comparators
             PROVE  /\ timeoutOf(c) \in Time
                    /\ \/ timeoutOf(c) = distance(c)
                       \/ timeoutOf(c) = 0 /\ distance(c) = TimeMod /\ timecmp[c] = 0
  OBVIOUS
<1>1. timeFor(c) \in Time /\ timecmp[c] \in Time
  BY TimeForType
<1> QED
  BY <1>1, TimerAssumption DEF timeoutOf, distance, passed, Time

\* The timer is never set to 0, and in time for every comparator whose
\* companions are not 0.
LEMMA NextTimeoutInTime ==
  TimeType => timeoutInTime
<1> SUFFICES ASSUME TimeType
             PROVE  timeoutInTime
  OBVIOUS
<1> DEFINE t1 == lower(TimeMod - 1, "m")
           t2 == lower(t1, "s")
           t3 == lower(t2, "vs")
<1>1. \A c \in Comparators : timeoutOf(c) \in Time
  BY TimeoutDistance
<1>2. /\ t1 \in Time
      /\ "m" \in Comparators => t1 <= timeoutOf("m")
      /\ t1 = TimeMod - 1 \/ ("m" \in Comparators /\ t1 = timeoutOf("m"))
  BY <1>1, TimerAssumption DEF lower, Time
<1>3. /\ t2 \in Time /\ t2 <= t1
      /\ "s" \in Comparators => t2 <= timeoutOf("s")
      /\ t2 = t1 \/ ("s" \in Comparators /\ t2 = timeoutOf("s"))
  <2> HIDE DEF t1
  <2> QED BY <1>1, <1>2 DEF lower, Time
<1>4. /\ t3 \in Time /\ t3 <= t2
      /\ "vs" \in Comparators => t3 <= timeoutOf("vs")
      /\ t3 = t2 \/ ("vs" \in Comparators /\ t3 = timeoutOf("vs"))
  <2> HIDE DEF t1, t2
  <2> QED BY <1>1, <1>3 DEF lower, Time
<1>5. \A c \in Comparators : c \in {"m", "s", "vs"}
  BY DEF Comparators
<1>6. /\ t3 \in Time
      /\ \A c \in Comparators : t3 <= timeoutOf(c)
      /\ t3 = TimeMod - 1 \/ \E c \in Comparators : t3 = timeoutOf(c)
  <2> HIDE DEF t1, t2, t3
  <2> QED BY <1>1, <1>2, <1>3, <1>4, <1>5, TimerAssumption DEF Time
<1>7. nextTimeout = IF t3 = 0 THEN TimeMod - 1 ELSE t3
  BY DEF nextTimeout
<1> HIDE DEF t1, t2, t3
<1>8. nextTimeout \in Time \ {0}
  BY <1>6, <1>7, TimerAssumption DEF Time
<1>9. ASSUME NEW c \in Comparators, othersSet(c)
      PROVE  nextTimeout <= distance(c)
  <2>1. distance(c) \in 1..TimeMod
    BY DistancePositive
  <2>2. CASE timeoutOf(c) = distance(c)
    <3>1. \A d \in Comparators \ {c} : timeoutOf(d) # 0
      BY <1>9, TimeoutDistance, DistancePositive DEF othersSet
    <3>2. t3 # 0
      BY <1>6, <2>1, <2>2, <3>1, TimerAssumption
    <3> QED
      BY <1>6, <1>7, <2>2, <3>2
  <2>3. CASE distance(c) = TimeMod
    BY <1>8, <2>3, TimerAssumption DEF Time
  <2> QED
    BY <2>2, <2>3, TimeoutDistance
<1> QED
  BY <1>8, <1>9 DEF timeoutInTime

\* Looking at the comparators again restores the invariant, whatever changed.
LEMMA RefreshRestores ==
  ASSUME TimeType', refreshTimer
  PROVE  /\ fired' \subseteq Comparators
         /\ timer' \in Time \cup {OFF}
         /\ TimerInv'
<1>0. (TimeType => timeoutInTime)'
  BY NextTimeoutInTime, PTL
<1>1. /\ nextTimeout' \in Time \ {0}
      /\ \A c \in Comparators : othersSet(c)' => nextTimeout' <= distance(c)'
  BY <1>0 DEF timeoutInTime
<1>2. \A c \in Comparators : exact(c)'
  BY DEF refreshTimer, exact
<1>3. fired' \subseteq Comparators
  BY DEF refreshTimer
<1>4. CASE mtimeTimer
  <2>1. timer' = nextTimeout'
    BY <1>4 DEF refreshTimer
  <2>2. timer' \in Time /\ timer' # OFF
    BY <1>1, <2>1, TimerAssumption DEF Time, OFF
  <2>3. \A c \in Comparators : othersSet(c)' => inTime(c)'
    BY <1>1, <2>1 DEF inTime
  <2> QED
    BY <1>2, <1>3, <2>2, <2>3 DEF TimerInv, offAtReset, TimerExact
<1>5. CASE ~mtimeTimer
  <2>1. timer' = OFF
    BY <1>5 DEF refreshTimer
  <2> QED
    BY <1>2, <1>3, <1>5, <2>1 DEF TimerInv, offAtReset, TimerExact, inTime
<1> QED
  BY <1>4, <1>5

\* mip holds known interrupts, composed again or left alone.
LEMMA MipType ==
  ASSUME TypeOK, swip' \subseteq {STIP, VSTIP}, riscvUpdatePending \/ UNCHANGED mip
  PROVE  mip' \subseteq {MSIP, STIP, VSTIP, MTIP}
  BY DEF TypeOK, riscvUpdatePending, composed, effectiveSwip, only

\* Time passes: up to the callback, no comparator changes.
LEMMA TickPreserves ==
  ASSUME IInv, Tick
  PROVE  IInv'
<1>0. (TimeType => \A c \in Comparators : distance(c) \in 1..TimeMod)'
  BY DistancePositive, PTL
<1>1. TimeType /\ mtime \in Time /\ htimedelta \in Time /\ timer \in Time \cup {OFF}
  BY DEF IInv, TypeOK, TimeType
<1>2. mtime' \in Time
  BY <1>1, TimerAssumption DEF Tick, add, Time
<1>3. timer' \in Time \cup {OFF} /\ (timer' = OFF <=> timer = OFF)
  BY <1>1, TimerAssumption DEF Tick, Time, OFF
<1>4. TypeOK'
  BY <1>2, <1>3 DEF IInv, TypeOK, TimeType, Tick, cfgVars
<1>5. offAtReset'
  BY <1>3 DEF IInv, TimerInv, offAtReset, Tick
<1>6. ASSUME NEW c \in Comparators, othersSet(c)'
      PROVE  (timer' # 0 => exact(c)') /\ inTime(c)'
  <2>1. exact(c) /\ inTime(c)
    BY <1>6 DEF IInv, TimerInv, TimerExact, othersSet, Tick
  <2>2. /\ timeFor(c) \in Time /\ timecmp[c] \in Time
        /\ timeFor(c)' = add(timeFor(c), 1)
        /\ timecmp'[c] = timecmp[c] /\ fired' = fired
    <3>1. timeFor(c)' = add(timeFor(c), 1)
      BY <1>1, TimerAssumption DEF Tick, timeFor, add, Time
    <3> QED
      BY <1>1, <3>1, TimeForType DEF Tick
  <2>3. CASE timer = OFF
    <3>1. timecmp[c] = 0
      BY <2>3 DEF IInv, TimerInv, offAtReset, Tick
    <3>2. passed(c) /\ passed(c)'
      BY <2>2, <3>1, TimerAssumption DEF passed, Time, add
    <3> QED
      BY <1>3, <2>1, <2>2, <2>3, <3>2 DEF exact, inTime
  <2>4. CASE timer # OFF
    <3>1. timer \in 1..(TimeMod - 1) /\ timer' = timer - 1 /\ timer <= distance(c)
      BY <1>1, <2>1, <2>4 DEF Tick, Time, inTime
    <3>2. timer > 1 => (passed(c)' <=> passed(c)) /\ distance(c)' = distance(c) - 1
      BY <2>2, <3>1, TimerAssumption DEF passed, distance, add, Time
    <3>3. distance(c)' \in 1..TimeMod
      BY <1>0, <1>4 DEF TypeOK
    <3>4. CASE timer = 1
      BY <3>1, <3>3, <3>4 DEF inTime
    <3>5. CASE timer > 1
      BY <2>1, <2>2, <3>1, <3>2, <3>5, DistancePositive, <1>1 DEF inTime, exact
    <3> QED
      BY <3>1, <3>4, <3>5
  <2> QED
    BY <2>3, <2>4
<1> QED
  BY <1>4, <1>5, <1>6 DEF IInv, TimerInv, TimerExact

\* Steps that look at the comparators again, and what they may write first.
LEMMA UpdatePreserves ==
  ASSUME IInv, refreshTimer, riscvUpdatePending \/ UNCHANGED mip,
         TimeType', msip' \in BOOLEAN, swip' = swip, UNCHANGED cfgVars
  PROVE  IInv'
<1>1. mip' \subseteq {MSIP, STIP, VSTIP, MTIP}
  BY MipType DEF IInv, TypeOK
<1> QED
  BY <1>1, RefreshRestores DEF IInv, TypeOK, cfgVars

\* Steps that leave time, comparators and timer alone.
LEMMA PendingPreserves ==
  ASSUME IInv, UNCHANGED <<mtime, timecmp, htimedelta, fired, timer>>,
         msip' \in BOOLEAN, swip' \subseteq {STIP, VSTIP},
         menvcfgSTCE' \in BOOLEAN, henvcfgSTCE' \in BOOLEAN,
         riscvUpdatePending \/ UNCHANGED mip
  PROVE  IInv'
<1>1. mip' \subseteq {MSIP, STIP, VSTIP, MTIP}
  BY MipType DEF IInv
<1>2. TypeOK'
  BY <1>1 DEF IInv, TypeOK, TimeType
<1>3. TimerInv'
  BY DEF IInv, TimerInv, offAtReset, TimerExact, exact, othersSet, inTime,
         distance, passed, timeFor
<1> QED
  BY <1>2, <1>3 DEF IInv

\* Out of reset every comparator is 0, passed, and seen to have.
LEMMA InitIInv == Init => IInv
<1> SUFFICES ASSUME Init PROVE IInv
  OBVIOUS
<1>1. TimeType
  BY TimerAssumption DEF Init, TimeType, Time
<1>2. TypeOK
  BY <1>1 DEF Init, TypeOK, composed, effectiveSwip, only, stimecmpEnabled
<1>3. \A c \in Comparators : timecmp[c] = 0 /\ passed(c)
  BY <1>1, TimeForType DEF Init, passed, Time
<1>4. TimerInv
  BY <1>3 DEF Init, TimerInv, offAtReset, TimerExact, exact, inTime
<1> QED
  BY <1>2, <1>4 DEF IInv

\* Every step preserves the invariant.
LEMMA NextIInv == IInv /\ [Next]_vars => IInv'
<1> SUFFICES ASSUME IInv, [Next]_vars PROVE IInv'
  OBVIOUS
<1> USE DEF IInv, TypeOK
<1>1. CASE Tick
  BY <1>1, TickPreserves
<1>2. CASE mtimeCB
  BY <1>2, UpdatePreserves DEF mtimeCB, riscvUpdateTimer, TimeType
<1>3. CASE riscvWriteMTIME
  BY <1>3, UpdatePreserves DEF riscvWriteMTIME, riscvUpdateTimer, TimeType
<1>4. ASSUME NEW c, timecmpW(c) PROVE IInv'
  BY <1>4, UpdatePreserves DEF timecmpW, riscvUpdateTimer, TimeType
<1>5. CASE htimedeltaIntW
  BY <1>5, UpdatePreserves DEF htimedeltaIntW, riscvUpdateTimer, TimeType
<1>6. CASE riscvWriteCLINTMSIP
  BY <1>6, PendingPreserves DEF riscvWriteCLINTMSIP, cfgVars
<1>7. CASE ipW
  BY <1>7, PendingPreserves DEF ipW, cfgVars
<1>8. CASE menvcfgWInt
  BY <1>8, PendingPreserves DEF menvcfgWInt, pendingIf
<1>9. CASE henvcfgWInt
  BY <1>9, PendingPreserves DEF henvcfgWInt, pendingIf
<1>10. CASE riscvReset
  BY <1>10, UpdatePreserves DEF riscvReset, TimeType
<1>11. CASE UNCHANGED vars
  BY <1>11, PendingPreserves DEF vars, cfgVars
<1> QED
  BY <1>1, <1>2, <1>3, <1>4, <1>5, <1>6, <1>7, <1>8, <1>9, <1>10, <1>11
     DEF Next, riscvWriteMTIMECMP, stimecmpWInt, vstimecmpWInt

(***************************************************************************)
(* Comparators are exact between timer callbacks, for every width of the   *)
(* counters and with mtimecmp, stimecmp and vstimecmp, or any of them      *)
(* (riscvUpdateTimer, mtimeCB).                                            *)
(***************************************************************************)
THEOREM ComparatorsExact == Spec => []TimerExact
<1>1. IInv => TimerExact
  BY DEF IInv, TimerInv
<1> QED
  BY <1>1, InitIInv, NextIInv, PTL DEF Spec

\* A step that does not compose mip again changes none of its sources.
LEMMA NextMipCurrent == TypeOK /\ MipCurrent /\ [Next]_vars => MipCurrent'
<1> SUFFICES ASSUME TypeOK, MipCurrent, [Next]_vars PROVE MipCurrent'
  OBVIOUS
<1>1. CASE riscvUpdatePending
  BY <1>1 DEF riscvUpdatePending, MipCurrent
<1>2. CASE /\ UNCHANGED <<mip, fired, msip, swip>>
           /\ UNCHANGED stimecmpEnabled /\ UNCHANGED vstimecmpEnabled
  BY <1>2 DEF MipCurrent, composed, effectiveSwip
<1> USE DEF cfgVars, stimecmpEnabled, vstimecmpEnabled
<1>3. CASE Tick
  BY <1>2, <1>3 DEF Tick
<1>4. CASE mtimeCB
  BY <1>1, <1>2, <1>4 DEF mtimeCB, riscvUpdateTimer
<1>5. CASE riscvWriteMTIME
  BY <1>1, <1>2, <1>5 DEF riscvWriteMTIME, riscvUpdateTimer
<1>6. ASSUME NEW c, timecmpW(c) PROVE MipCurrent'
  BY <1>1, <1>2, <1>6 DEF timecmpW, riscvUpdateTimer
<1>7. CASE htimedeltaIntW
  BY <1>1, <1>2, <1>7 DEF htimedeltaIntW, riscvUpdateTimer
<1>8. CASE riscvWriteCLINTMSIP
  BY <1>1, <1>8 DEF riscvWriteCLINTMSIP
<1>9. CASE ipW
  BY <1>1, <1>2, <1>9 DEF ipW
<1>10. CASE menvcfgWInt
  BY <1>1, <1>2, <1>10 DEF menvcfgWInt, pendingIf
<1>11. CASE henvcfgWInt
  BY <1>1, <1>2, <1>11 DEF henvcfgWInt, pendingIf
<1>12. CASE riscvReset
  <2>1. CASE CLINT
    BY <1>1, <1>12, <2>1 DEF riscvReset
  <2>2. CASE ~CLINT
    <3>1. msip' = msip
      BY <1>12, <2>2, Zenon DEF riscvReset, TypeOK
    <3> QED
      BY <1>1, <1>2, <1>12, <2>2, <3>1 DEF riscvReset
  <2> QED
    BY <2>1, <2>2
<1>13. CASE UNCHANGED vars
  BY <1>2, <1>13 DEF vars
<1> QED
  BY <1>3, <1>4, <1>5, <1>6, <1>7, <1>8, <1>9, <1>10, <1>11, <1>12, <1>13
     DEF Next, riscvWriteMTIMECMP, stimecmpWInt, vstimecmpWInt

(***************************************************************************)
(* mip agrees with all its sources at every moment, in every configuration *)
(* (riscvUpdatePending and its callers).                                   *)
(***************************************************************************)
THEOREM MipAlwaysCurrent == Spec => []MipCurrent
<1>1. Init => MipCurrent
  BY DEF Init, MipCurrent
<1>2. IInv => TypeOK
  BY DEF IInv
<1> QED
  BY <1>1, <1>2, InitIInv, NextIInv, NextMipCurrent, PTL DEF Spec

=============================================================================
