--------------------------- MODULE TimerProperties ---------------------------
(***************************************************************************)
(* What the time comparators of a hart promise.                            *)
(***************************************************************************)
EXTENDS Timer

\* Types of what programs write.
TimeType ==
  /\ mtime \in Time
  /\ timecmp \in [Comparators -> Time]
  /\ htimedelta \in Time

\* Types of the variables.
TypeOK ==
  /\ TimeType
  /\ fired \subseteq Comparators
  /\ msip \in BOOLEAN
  /\ swip \subseteq {STIP, VSTIP}
  /\ menvcfgSTCE \in BOOLEAN /\ henvcfgSTCE \in BOOLEAN
  /\ mip \subseteq {MSIP, STIP, VSTIP, MTIP}
  /\ timer \in Time \cup {OFF}

\* The flag of comparator c says whether its time has passed.
exact(c) == c \in fired <=> passed(c)

\* No other comparator is at 0, its value out of reset.
othersSet(c) == \A d \in Comparators \ {c} : timecmp[d] # 0

(***************************************************************************)
(* One timer serves all comparators of a hart, through writes of time and  *)
(* of the comparators, offsets of virtual time and wrapping of the         *)
(* counters: whenever no timer callback is due, a comparator is seen to    *)
(* have passed exactly when it has (riscvUpdateTimer, mtimeCB).  A         *)
(* comparator at 0 may hide the deadlines of the others while its time is  *)
(* 0: its timeout is then 0, which is taken for none.                      *)
(***************************************************************************)
TimerExact == timer # 0 => \A c \in Comparators : othersSet(c) => exact(c)

(***************************************************************************)
(* The mip register, written only when some caller knows that one of its   *)
(* sources changed, always agrees with all of them: the CLINT, software,   *)
(* the comparators and the STCE enables (riscvUpdatePending).              *)
(***************************************************************************)
MipCurrent == mip = composed
=============================================================================
