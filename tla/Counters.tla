------------------------------- MODULE Counters -------------------------------
(***************************************************************************)
(* The counters mcycle and minstret of one hart (riscvCSR.c).  The model   *)
(* stores no count.  It keeps a base for each counter and derives the      *)
(* count from the simulator's instruction counts: the base is subtracted   *)
(* from them while the counter runs, and is the count itself while it is   *)
(* inhibited by mcountinhibit, or by dcsr.stopcount in Debug mode.  Each   *)
(* change of these must convert the base, and allow for the instruction    *)
(* that makes the change, which the simulator has already counted.         *)
(***************************************************************************)
EXTENDS Integers

CONSTANTS
  Half,     \* values of half a counter: 2^32
  Configs   \* harts to look at

ASSUME CountersAssumption == Half \in Nat \ {0, 1}

VARIABLES
  config,   \* the hart looked at
  hart      \* its state

vars == <<config, hart>>

Counter == {"cycle", "instret"}

Value == 0..(Half * Half - 1)

wrap(x) == x % (Half * Half)

(***************************************************************************)
(* hart.icount: vmirtGetICount and vmirtGetExecutedICount of the simulator.*)
(* base: baseCycles and baseInstructions.  countinhibit: counters with     *)
(* their bit of mcountinhibit set.  count and stale are not in the code:   *)
(* what the counters have to read, and those that were written in Debug    *)
(* mode while it stops them.                                               *)
(***************************************************************************)
Hart ==
  [icount : [Counter -> Value], base : [Counter -> Value],
   countinhibit : SUBSET Counter, stopcount : BOOLEAN, DM : BOOLEAN,
   count : [Counter -> Value], stale : SUBSET Counter]

(***************************************************************************)
(* Reading and writing.  aa is riscv->artifactAccess: an access by the     *)
(* debugger, between instructions.                                         *)
(***************************************************************************)

\* getCycles and getInstructions exclude the current instruction.
getCount(s, c, aa) == s.icount[c] - (IF aa THEN 0 ELSE 1)

stopCount(s, c) == s.DM /\ s.stopcount /\ (c = "cycle" => ~config.parent)

\* riscvInhibitCycle, riscvInhibitInstret
inhibited(s, c) == c \in s.countinhibit \/ stopCount(s, c)

\* cycleR, instretR
counterR(s, c, aa) ==
  IF inhibited(s, c) THEN s.base[c] ELSE wrap(getCount(s, c, aa) - s.base[c])

\* cycleW, instretW
counterW(s, c, newValue, preIncrement, aa) ==
  LET v == IF inhibited(s, c) THEN newValue ELSE getCount(s, c, aa) - newValue
  IN [s EXCEPT !.base[c] = wrap(v + (IF preIncrement /\ ~aa THEN 1 ELSE 0))]

setLower(newValue, oldValue) == ((oldValue \div Half) * Half) + (newValue % Half)
setUpper(newValue, oldValue) == ((newValue % Half) * Half) + (oldValue % Half)

\* Value of a counter of which a CSR write changes the part given.
written(part, newValue, oldValue) ==
  CASE part = "all" -> newValue
    [] part = "lower" -> setLower(newValue, oldValue)
    [] part = "upper" -> setUpper(newValue, oldValue)

\* mcycleW, mcyclehW, minstretW, minstrethW
csrW(s, c, part, newValue, aa) ==
  counterW(s, c, written(part, newValue, counterR(s, c, aa)), ~inhibited(s, c), aa)

(***************************************************************************)
(* Starting and stopping.                                                  *)
(***************************************************************************)

riscvPreInhibit(s, aa) ==
  [c \in Counter |-> [inhibit |-> inhibited(s, c), value |-> counterR(s, c, aa)]]

\* Mutant: a counter that starts is not set back by the current instruction.
postInhibitNoExclude(s, old, c, preIncrement, aa) ==
  IF old[c].inhibit = inhibited(s, c) THEN s
  ELSE counterW(s, c, old[c].value, preIncrement /\ ~old[c].inhibit, aa)

postInhibit(s, old, c, preIncrement, aa) ==
  LET starts == preIncrement /\ old[c].inhibit /\ ~aa
  IN IF old[c].inhibit = inhibited(s, c) THEN s
     ELSE counterW(s, c, old[c].value - (IF starts THEN 1 ELSE 0),
                   preIncrement /\ ~old[c].inhibit, aa)

riscvPostInhibit(s, old, preIncrement, aa) ==
  postInhibit(postInhibit(s, old, "cycle", preIncrement, aa), old, "instret", preIncrement, aa)

\* s becomes n, with the counters converted.
change(s, n, preIncrement, aa) ==
  riscvPostInhibit(n, riscvPreInhibit(s, aa), preIncrement, aa)

mcountinhibitW(s, cs, aa) == change(s, [s EXCEPT !.countinhibit = cs], TRUE, aa)

dcsrWInt(s, stopcount, aa) == change(s, [s EXCEPT !.stopcount = stopcount], TRUE, aa)

enterDM(s) == IF s.DM THEN s ELSE change(s, [s EXCEPT !.DM = TRUE], FALSE, FALSE)

leaveDM(s) == change(s, [s EXCEPT !.DM = FALSE], FALSE, FALSE)

\* Mutant: a counter that Debug mode stops moves as well.
uncountStopped(s, c) == IF c \in s.countinhibit THEN s ELSE [s EXCEPT !.base[c] = wrap(@ + 1)]

\* The current instruction is not to be counted.
uncount(s, c) == IF inhibited(s, c) THEN s ELSE [s EXCEPT !.base[c] = wrap(@ + 1)]

riscvNoRetire(s, isFetch) == IF isFetch THEN s ELSE uncount(s, "instret")

riscvEBREAK(s) ==
  LET s1 == riscvNoRetire(s, FALSE)
  IN enterDM(IF s1.stopcount THEN uncount(s1, "cycle") ELSE s1)

(***************************************************************************)
(* What the counters have to read.  A counter that is not inhibited before *)
(* an instruction counts it, if it retires (instret) or takes a cycle.     *)
(***************************************************************************)
tick(s, cs) ==
  [s EXCEPT !.count = [c \in Counter |->
     IF c \in cs /\ ~inhibited(s, c) THEN wrap(@[c] + 1) ELSE @[c]]]

\* State s becomes n.  The counters cs were written: what Debug mode that stops
\* them makes of it is left open.
become(s, n, cs) ==
  LET stale == n.stale \cup {c \in cs : stopCount(s, c) \/ stopCount(n, c)}
  IN /\ hart' = [n EXCEPT !.stale = stale,
                          !.count = [c \in Counter |-> IF c \in stale THEN 0 ELSE @[c]]]
     /\ UNCHANGED config

\* The state in which the next instruction executes: the simulator has
\* counted it.  cs are the counters that have to count it.
current(cs) == [tick(hart, cs) EXCEPT !.icount = [c \in Counter |-> wrap(@[c] + 1)]]

\* A written counter reads as written, and its history no longer matters if
\* it is written in full while Debug mode does not stop it.
overwrite(n, c, part, newValue) ==
  [n EXCEPT !.count[c] = written(part, newValue, hart.count[c]),
            !.stale = IF part = "all" THEN @ \ {c} ELSE @]

parts == IF config.XLEN32 THEN {"lower", "upper"} ELSE {"all"}

(***************************************************************************)
(* Instructions.                                                           *)
(***************************************************************************)
Nop == become(hart, current(Counter), {})

\* riscvTakeException inside an instruction.
Exception == become(hart, riscvNoRetire(current({"cycle"}), FALSE), {})

\* An EBREAK that enters Debug mode.
Ebreak ==
  /\ config.debug
  /\ become(hart, riscvEBREAK(current(IF hart.stopcount THEN {} ELSE {"cycle"})), {})

\* A trigger that enters Debug mode before the effect of the instruction.
TriggerBefore ==
  /\ config.debug
  /\ become(hart, enterDM(riscvNoRetire(current({"cycle"}), FALSE)), {})

DRET == hart.DM /\ become(hart, leaveDM(current(Counter)), {})

CounterW ==
  \E c \in Counter, part \in parts, v \in Value :
    become(hart, overwrite(csrW(current(Counter), c, part, v, FALSE), c, part, v), {c})

McountinhibitW ==
  \E cs \in SUBSET Counter : become(hart, mcountinhibitW(current(Counter), cs, FALSE), Counter)

DcsrW ==
  /\ hart.DM
  /\ \E b \in BOOLEAN : become(hart, dcsrWInt(current(Counter), b, FALSE), Counter)

(***************************************************************************)
(* Between instructions.                                                   *)
(***************************************************************************)

\* An event that the fetch takes instead of an instruction is a cycle if the
\* simulator counts it.
diverted(n) ==
  IF config.countsFetch
  THEN [tick(n, {"cycle"}) EXCEPT !.icount["cycle"] = wrap(@ + 1)]
  ELSE n

\* riscvIFetchExcept: an interrupt or a fetch exception.
FetchException == become(hart, diverted(riscvNoRetire(hart, TRUE)), {})

\* riscvIFetchExcept: haltreq, a step, or a trigger after an instruction.
FetchDebug == config.debug /\ become(hart, diverted(enterDM(hart)), {})

\* Time passes while the hart waits.
Idle == become(hart, [tick(hart, {"cycle"}) EXCEPT !.icount["cycle"] = wrap(@ + 1)], {})

\* The debugger writes a CSR (writeCSR).
DebuggerCounterW ==
  \E c \in Counter, part \in parts, v \in Value :
    become(hart, overwrite(csrW(hart, c, part, v, TRUE), c, part, v), {c})

DebuggerMcountinhibitW ==
  \E cs \in SUBSET Counter : become(hart, mcountinhibitW(hart, cs, TRUE), Counter)

DebuggerDcsrW ==
  config.debug /\ \E b \in BOOLEAN : become(hart, dcsrWInt(hart, b, TRUE), Counter)

\* The debugger writes DM (riscvSetDM).
WriteDM == config.debug /\ become(hart, IF hart.DM THEN leaveDM(hart) ELSE enterDM(hart), {})

\* riscvReset leaves Debug mode, then resets dcsr (riscvCSRReset).
riscvReset ==
  become(hart, dcsrWInt(IF hart.DM THEN leaveDM(hart) ELSE hart, FALSE, FALSE), {})

Init ==
  /\ config \in Configs
  /\ hart = [icount |-> [c \in Counter |-> 0], base |-> [c \in Counter |-> 0],
             countinhibit |-> {}, stopcount |-> FALSE, DM |-> FALSE,
             count |-> [c \in Counter |-> 0], stale |-> {}]

Next ==
  \/ Nop \/ Exception \/ Ebreak \/ TriggerBefore \/ DRET
  \/ CounterW \/ McountinhibitW \/ DcsrW
  \/ FetchException \/ FetchDebug \/ Idle
  \/ DebuggerCounterW \/ DebuggerMcountinhibitW \/ DebuggerDcsrW \/ WriteDM \/ riscvReset

Spec == Init /\ [][Next]_vars
=============================================================================
