-------------------------- MODULE CountersProperties --------------------------
(***************************************************************************)
(* What the counters promise.                                              *)
(***************************************************************************)
EXTENDS Counters

\* What the next instruction, or the debugger, reads between instructions.
reads(s, c) == counterR(s, c, TRUE)

(***************************************************************************)
(* A counter reads the number of instructions that retired (or of cycles)  *)
(* since it was written, those while it was inhibited left out: whatever   *)
(* order it was written, stopped and started in, from an instruction, the  *)
(* debugger, mcountinhibit or by halts in Debug mode, and also when it     *)
(* wraps.  Excepted are reads in Debug mode that stops the counter, and    *)
(* counters that were written or restarted there (see the README).         *)
(***************************************************************************)
CountersExact ==
  /\ hart \in Hart
  /\ \A c \in Counter \ hart.stale : ~stopCount(hart, c) => reads(hart, c) = hart.count[c]

(***************************************************************************)
(* A counter that is inhibited keeps its value, whatever retires, traps or *)
(* halts, until it is written.                                             *)
(***************************************************************************)
InhibitedStays ==
  [][\A c \in Counter :
       (inhibited(hart, c) /\ inhibited(hart', c) /\ reads(hart', c) # reads(hart, c))
         => CounterW \/ DebuggerCounterW]_vars
=============================================================================
