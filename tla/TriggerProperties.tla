--------------------------- MODULE TriggerProperties ---------------------------
(***************************************************************************)
(* What the trigger module promises: an instruction-count trigger lets one *)
(* instruction run, breakpoints do not nest, the debugger's triggers are   *)
(* its own, and an action due after an instruction is taken.               *)
(***************************************************************************)
EXTENDS Trigger

(***************************************************************************)
(* Types of the state.  Entry to Debug mode is an action of the debugger's *)
(* triggers only, whatever sequence of writes set them up.                 *)
(***************************************************************************)
TypeOK ==
  /\ config \in Configs
  /\ hart.trig \in [Triggers -> TData1]
  /\ \A i \in Triggers : /\ hart.trig[i].type \in config.types
                         /\ hart.trig[i].action = 1 => hart.trig[i].dmode
  /\ hart.match \in [Triggers -> 0..2]
  /\ {hart.mode, hart.prv, hart.MPP} \subseteq Modes
  /\ hart.after \subseteq {"debug", "bkpt"}
  /\ hart.dm => hart.mode = M

(***************************************************************************)
(* While an ICOUNT trigger with a breakpoint action is armed for U mode,   *)
(* at most one U mode instruction runs under it: if the instruction traps, *)
(* or an interrupt or an NMI comes before the breakpoint is taken, the     *)
(* trigger is left pending and fires before the instruction the handler    *)
(* returns to.  (On harts no debugger stops; see the README.)              *)
(***************************************************************************)
StepBounded ==
  ~config.debugger =>
    \A i \in Triggers :
      LET t == hart.trig[i]
      IN (t.type = "ICOUNT" /\ U \in t.modes /\ firstInChain(hart, i)) => hart.ran[i] <= 1

(***************************************************************************)
(* Between a trap and the MRET that ends its handler, no breakpoint is     *)
(* taken in M mode, which would overwrite what the handler needs to        *)
(* return, unless software enabled them there (tcontrol, mstatus).         *)
(***************************************************************************)
NoNestedBreakpoint == [][hart'.out = "bkptM" => ~hart.trapped]_vars

\* What software reads of a trigger that firing does not change.
setting(t) == [t EXCEPT !.hit = FALSE, !.pending = FALSE, !.modes = {}]

(***************************************************************************)
(* Outside Debug mode, only reset changes the settings of a trigger with   *)
(* dmode set or arms it for another mode; firing may disarm it.            *)
(***************************************************************************)
DebuggerKeeps ==
  [][\A i \in Triggers :
       LET t == hart.trig[i]
           n == hart'.trig[i]
       IN (t.dmode /\ ~hart.dm /\ ~riscvReset) =>
            setting(n) = setting(t) /\ n.modes \in {t.modes, {}}]_vars

(***************************************************************************)
(* Entry to Debug mode that a trigger asked for after an instruction comes *)
(* at the very next fetch, before any interrupt, breakpoint or NMI.        *)
(***************************************************************************)
DebugDelivered ==
  [][(/\ "debug" \in hart.after /\ ~hart.dm /\ ~riscvReset
      /\ \E i \in Triggers :
           LET t == hart.trig[i]
           IN /\ t.type = "ADMATCH" /\ t.action = 1 /\ t.timing /\ hart.match[i] = 1
              /\ ~t.chain /\ firstInChain(hart, i))
     => hart'.dm]_vars
=============================================================================
