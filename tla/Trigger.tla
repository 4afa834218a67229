------------------------------- MODULE Trigger -------------------------------
(***************************************************************************)
(* The trigger module of one hart (riscvTrigger.c and the trigger CSRs of  *)
(* riscvCSR.c), with the fetch callback, traps and returns as far as they  *)
(* act on triggers.  A trigger that matches records the instruction count; *)
(* a chain fires when all its triggers carry the count of one instruction. *)
(* Actions due after an instruction wait in triggerAfter for the next      *)
(* fetch, where they are looked up again.                                  *)
(*                                                                         *)
(* What triggers match (tdata2, tdata3, contexts, sizes) is data: each     *)
(* event matches an arbitrary set of triggers.  The trigger written is the *)
(* one tselect names.  Left out: S and virtual modes, tval, single step    *)
(* (see Hart), artifact writes, derived models, save and restore.          *)
(***************************************************************************)
EXTENDS Integers, FiniteSets

CONSTANTS
  Configs         \* configurations of the hart and its programs

VARIABLES
  config,         \* configuration, never changed
  hart

vars == <<config, hart>>

U == 0
M == 3
Modes == {U, M}

Types == {"NONE", "ADMATCH", "ICOUNT", "INTERRUPT", "EXCEPTION"}

\* The unpacked tdata1; ADMATCH stands for MCONTROL6 too.
TData1 == [type : Types, dmode : BOOLEAN, modes : SUBSET Modes, action : {0, 1},
           timing : BOOLEAN, chain : BOOLEAN, priv : SUBSET {"X", "R", "W"},
           pending : BOOLEAN, nmi : BOOLEAN, hit : BOOLEAN]

(***************************************************************************)
(* A configuration: trigger_num, trigger types of tinfo, whether tcontrol  *)
(* exists, debug specification from 0.14 (tdata1.pending) and from 1.0     *)
(* (NMIs match interrupt triggers), no_hit, debug_priority; whether the    *)
(* simulator counts a fetch that ends in an exception; whether a debugger  *)
(* runs code in Debug mode and requests halts; the operations programs     *)
(* use and the values they write to tdata1.                                *)
(***************************************************************************)
ASSUME TriggerAssumption ==
  \A c \in Configs :
    /\ c.num \in Nat \ {0}
    /\ c.types \subseteq Types /\ c.types # {}
    /\ {c.tcontrol, c.v0_14, c.v1_0, c.no_hit, c.countsFetch, c.debugger} \subseteq BOOLEAN
    /\ c.priority \in {"A_S_X_H", "A_S_H_X", "A_H_S_X", "H_A_S_X"}
    /\ c.values \subseteq TData1

Triggers == 0..(config.num - 1)

\* Triggers that compare data of the event (addresses, values, cause numbers).
Comparing == {i \in Triggers : hart.trig[i].type # "ICOUNT" /\ hart.trig[i].modes # {}}

----------------------------------------------------------------------------
(* Chains and their actions.  match[i] is the age of the count trigger i   *)
(* recorded: 0 for the current one, 1 for the one before, 2 for any other. *)

\* An ICOUNT trigger left pending by a trap fires before an instruction.
getTriggerAfter(t) == ~t.pending /\ t.timing

firstInChain(s, i) == i = 0 \/ ~s.trig[i - 1].chain

lastInChain(s, i) == i = config.num - 1 \/ ~s.trig[i].chain

\* Last trigger of the chain that starts with i.
chainEnd(s, i) ==
  CHOOSE j \in Triggers : /\ j >= i /\ lastInChain(s, j)
                          /\ \A k \in i..(j - 1) : ~lastInChain(s, k)

\* All triggers of the chain from i recorded the count of that age, and have
\* the same timing.
matchChain(s, i, age) ==
  \A k \in i..chainEnd(s, i) :
    s.match[k] = age /\ getTriggerAfter(s.trig[k]) = getTriggerAfter(s.trig[i])

\* Mutant: breakpoint triggers fire in M mode, enabled or not.
breakpointAlways(s) == TRUE

\* Breakpoint triggers are disabled in M mode by tcontrol.mte or mstatus.MIE.
breakpointEnabled(s) == s.mode # M \/ (IF config.tcontrol THEN s.mte ELSE s.MIE)

(***************************************************************************)
(* Actions due for the count of an age, the triggers they hit, and the     *)
(* ICOUNT triggers among the last ones of their chains.                    *)
(***************************************************************************)
getActiveAction(s, age) ==
  LET fires == {i \in Triggers :
                  /\ firstInChain(s, i)
                  /\ matchChain(s, i, age)
                  /\ s.trig[chainEnd(s, i)].action = 1 \/ breakpointEnabled(s)}
      last == {chainEnd(s, i) : i \in fires}
  IN [acts |-> {<<IF s.trig[chainEnd(s, i)].action = 1 THEN "debug" ELSE "bkpt",
                  IF getTriggerAfter(s.trig[i]) THEN "after" ELSE "before">> : i \in fires},
      hits |-> UNION {i..chainEnd(s, i) : i \in fires},
      icmatch |-> {j \in last : s.trig[j].type = "ICOUNT"}]

setTriggerHit(s, hits) ==
  IF config.no_hit THEN s
  ELSE [s EXCEPT !.trig = [i \in Triggers |-> [s.trig[i] EXCEPT !.hit = @ \/ i \in hits]]]

markTriggerMatched(s, is) ==
  [s EXCEPT !.match = [i \in Triggers |-> IF i \in is THEN 0 ELSE s.match[i]]]

\* Pending triggers match when the mode or the triggers change.
riscvGetCurrentTriggers(s) ==
  markTriggerMatched(s, {i \in Triggers : /\ s.trig[i].type = "ICOUNT" /\ s.trig[i].pending
                                          /\ s.mode \in s.trig[i].modes})

riscvSetMode(s, m) == riscvGetCurrentTriggers([s EXCEPT !.mode = m])

scheduleTriggerAfter(s, acts) ==
  [s EXCEPT !.after = @ \cup {a[1] : a \in {x \in acts : x[2] = "after"}}]

----------------------------------------------------------------------------
(* Traps.  A trap matches triggers of its type that cover the mode it      *)
(* comes from, and leaves ICOUNT triggers of that mode pending.            *)

\* Mutant: traps do not leave ICOUNT triggers pending.
triggerTrapNoPending(s, modeY, type, hits) ==
  LET matched == {i \in Triggers : /\ modeY \in s.trig[i].modes
                                   /\ s.trig[i].type = type /\ i \in hits}
      t == markTriggerMatched(s, matched)
      e == getActiveAction(t, 0)
  IN IF matched = {} THEN t ELSE scheduleTriggerAfter(setTriggerHit(t, e.hits), e.acts)

triggerTrap(s, modeY, type, hits) ==
  LET covers == {i \in Triggers : modeY \in s.trig[i].modes}
      matched == {i \in covers : s.trig[i].type = type /\ i \in hits}
      t == markTriggerMatched(
             [s EXCEPT !.trig = [i \in Triggers |->
                [s.trig[i] EXCEPT !.pending = @ \/ (i \in covers /\ s.trig[i].type = "ICOUNT")]]],
             matched)
      e == getActiveAction(t, 0)
  IN IF matched = {} THEN t ELSE scheduleTriggerAfter(setTriggerHit(t, e.hits), e.acts)

\* An NMI matches by the mode it has switched to.
triggerNMI(s) ==
  LET matched == {i \in Triggers :
                    /\ s.trig[i].nmi
                    /\ config.v1_0 => s.mode \in s.trig[i].modes
                    /\ s.trig[i].type = IF config.v1_0 THEN "INTERRUPT" ELSE "EXCEPTION"}
      t == markTriggerMatched(s, matched)
      e == getActiveAction(t, 0)
  IN IF matched = {} THEN s ELSE scheduleTriggerAfter(setTriggerHit(t, e.hits), e.acts)

trapM(s) ==
  [s EXCEPT !.MPIE = s.MIE, !.MIE = FALSE, !.MPP = s.mode,
            !.mpte = s.mte, !.mte = FALSE, !.trapped = TRUE]

\* A trap of either kind; an exception in Debug mode ends there.
riscvTakeException(s, type, hits) ==
  IF s.dm THEN s
  ELSE triggerTrap(riscvSetMode(trapM(s), M), s.mode, type, hits)

doNMI(s) == triggerNMI(riscvSetMode(s, M))

enterDM(s) ==
  IF s.dm THEN s ELSE riscvSetMode([s EXCEPT !.dm = TRUE, !.prv = s.mode], M)

leaveDM(s) == riscvSetMode([s EXCEPT !.dm = FALSE], s.prv)

(***************************************************************************)
(* Take the actions of evaluation e: ICOUNT triggers that fire are         *)
(* disarmed; entry to Debug mode wins over a breakpoint.                   *)
(***************************************************************************)
doTriggerAction(s, e, acts, hits) ==
  LET debug == \E a \in acts : a[1] = "debug"
      t == [s EXCEPT !.trig = [i \in Triggers |->
              IF i \in e.icmatch THEN [s.trig[i] EXCEPT !.modes = {}, !.pending = FALSE]
              ELSE s.trig[i]],
            !.out = IF s.dm THEN "silent" ELSE IF debug THEN "debug"
                    ELSE IF s.mode = M THEN "bkptM" ELSE "bkptU"]
  IN IF debug THEN enterDM(t) ELSE riscvTakeException(t, "EXCEPTION", hits)

\* Actions before an instruction end it; others are scheduled.
doTriggerBefore(s, hits) ==
  LET e == getActiveAction(s, 0)
      t == setTriggerHit(s, e.hits)
  IN [acts |-> e.acts,
      ends |-> \E a \in e.acts : a[2] = "before",
      st   |-> IF \E a \in e.acts : a[2] = "before"
               THEN doTriggerAction(t, e, e.acts, hits)
               ELSE scheduleTriggerAfter(t, e.acts)]

\* Mutant: actions are looked up under the current count.
doTriggerAfterNow(s, type, hits) ==
  LET e == getActiveAction(s, 0)
      acts == {<<type, "after">>} \cap e.acts
      t == [setTriggerHit(s, e.hits) EXCEPT !.after = @ \ {type}]
  IN IF type \notin s.after THEN [acts |-> {}, st |-> s]
     ELSE [acts |-> acts, st |-> IF acts = {} THEN t ELSE doTriggerAction(t, e, acts, hits)]

\* Actions of a type due after the preceding instruction: they are looked up
\* again, and forgotten if none is left.
doTriggerAfter(s, type, hits) ==
  LET e == getActiveAction(s, 1)
      acts == {<<type, "after">>} \cap e.acts
      t == [setTriggerHit(s, e.hits) EXCEPT !.after = @ \ {type}]
  IN IF type \notin s.after THEN [acts |-> {}, st |-> s]
     ELSE [acts |-> acts, st |-> IF acts = {} THEN t ELSE doTriggerAction(t, e, acts, hits)]

\* Triggers on an access of privilege priv; onlyBefore: at a fetch.
doTriggerADMATCH(s, priv, hits, onlyBefore) ==
  LET matched == {i \in Triggers :
                    LET t == s.trig[i] IN
                    /\ ~(onlyBefore /\ getTriggerAfter(t))
                    /\ s.mode \in t.modes
                    /\ \/ t.type = "ICOUNT"
                       \/ /\ t.type = "ADMATCH" /\ priv \in t.priv /\ i \in hits
                          /\ onlyBefore => t.dmode}
  IN IF s.dm \/ matched = {} THEN [acts |-> {}, ends |-> FALSE, st |-> s]
     ELSE doTriggerBefore(markTriggerMatched(s, matched), hits)

----------------------------------------------------------------------------
(* Trigger CSRs                                                            *)

\* Mutant: triggers of the debugger may be written.
mayWriteAny(s, i) == TRUE

mayWriteTrigger(s, i) == s.dm \/ ~s.trig[i].dmode

mayWriteDMode(s, dmode) == ~dmode \/ s.dm

mayWriteChain(s, i, dmode) == ~dmode \/ i = 0 \/ s.trig[i - 1].dmode \/ ~s.trig[i - 1].chain

\* Mutant: action 1 does not need dmode.
unpackTData1AnyAction(s, v) ==
  LET dmode == v.type # "NONE" /\ v.dmode /\ mayWriteDMode(s, v.dmode)
  IN [v EXCEPT !.dmode = dmode, !.pending = v.type = "ICOUNT" /\ config.v0_14 /\ @]

unpackTData1(s, v) ==
  LET is(ts) == v.type \in ts
      dmode == v.dmode /\ mayWriteDMode(s, v.dmode) /\ ~is({"NONE"})
  IN [type    |-> v.type,
      dmode   |-> dmode,
      modes   |-> IF is({"NONE"}) THEN {} ELSE v.modes,
      action  |-> IF dmode THEN v.action ELSE 0,
      timing  |-> IF is({"ADMATCH"}) THEN v.timing ELSE ~is({"NONE"}),
      chain   |-> is({"ADMATCH"}) /\ v.chain,
      priv    |-> IF is({"ADMATCH"}) THEN v.priv ELSE {},
      pending |-> is({"ICOUNT"}) /\ config.v0_14 /\ v.pending,
      nmi     |-> is({IF config.v1_0 THEN "INTERRUPT" ELSE "EXCEPTION"}) /\ v.nmi,
      hit     |-> ~config.no_hit /\ ~is({"NONE"}) /\ v.hit]

\* tdata1 as it reads: pending shows from 0.14 on.
packTData1(t) == [t EXCEPT !.pending = config.v0_14 /\ @]

\* Write v to tdata1 of trigger i; a value that reads the same changes nothing.
tdata1W(s, i, v) ==
  LET new == unpackTData1(s, v)
  IN IF /\ mayWriteTrigger(s, i)
        /\ v.type \in config.types
        /\ mayWriteChain(s, i, new.dmode)
        /\ packTData1(new) # packTData1(s.trig[i])
     THEN riscvGetCurrentTriggers([s EXCEPT !.trig[i] = new, !.ran[i] = 0, !.out = "write"])
     ELSE s

getTriggerResetType == CHOOSE t \in config.types : TRUE

ResetTrigger ==
  [type |-> getTriggerResetType, dmode |-> FALSE, modes |-> {}, action |-> 0,
   timing |-> getTriggerResetType \in {"ICOUNT", "INTERRUPT", "EXCEPTION"}, chain |-> FALSE,
   priv |-> {}, pending |-> FALSE, nmi |-> FALSE, hit |-> FALSE]

\* Reset writes each tdata1 with all rights.
resetTriggers(s) ==
  [s EXCEPT !.trig = [i \in Triggers |-> IF packTData1(s.trig[i]) = ResetTrigger
                                         THEN s.trig[i] ELSE ResetTrigger],
            !.match = [i \in Triggers |-> 2],
            !.ran = [i \in Triggers |-> 0]]

----------------------------------------------------------------------------
(* The fetch callback, in the order of its tests.                          *)

become(s) == hart' = s /\ UNCHANGED config

begin == [hart EXCEPT !.out = "none"]

\* The instruction count advances (vmirtGetICount).
advance(s) == [s EXCEPT !.match = [i \in Triggers |-> IF @[i] = 2 THEN 2 ELSE @[i] + 1]]

afterFetch(s) == IF config.countsFetch THEN advance(s) ELSE s

X_H == config.priority = "A_S_X_H"

(***************************************************************************)
(* What the tests of one fetch find, when each finds nothing before it:    *)
(* Debug mode entry due after the last instruction; execute triggers       *)
(* tested at the fetch; a breakpoint due; execute triggers of the          *)
(* instruction, which is reached if the fetch itself takes no action.      *)
(***************************************************************************)
fetch(hits) ==
  LET debug == doTriggerAfter(begin, "debug", hits)
      x0    == IF X_H THEN doTriggerADMATCH(debug.st, "X", hits, TRUE)
               ELSE [acts |-> {}, ends |-> FALSE, st |-> debug.st]
      bkpt  == doTriggerAfter(x0.st, "bkpt", hits)
  IN [hits |-> hits, debug |-> debug, x0 |-> x0, bkpt |-> bkpt,
      x    |-> doTriggerADMATCH(bkpt.st, "X", hits, FALSE),
      done |-> debug.acts = {} /\ x0.acts = {} /\ bkpt.acts = {}]

\* haltreq is high (doHaltReq); its place depends on debug_priority.
FetchHalt(f) ==
  /\ config.debugger /\ ~hart.dm
  /\ \/ config.priority = "H_A_S_X" /\ become(afterFetch(enterDM(begin)))
     \/ /\ config.priority = "A_H_S_X" /\ f.debug.acts = {}
        /\ become(afterFetch(enterDM(f.debug.st)))
     \/ /\ config.priority \in {"A_S_X_H", "A_S_H_X"}
        /\ f.debug.acts = {} /\ f.x0.acts = {}
        /\ become(afterFetch(enterDM(f.x0.st)))

FetchAfterDebug(f) ==
  /\ f.debug.acts # {}
  /\ become(afterFetch(f.debug.st))

FetchX0(f) ==
  /\ f.debug.acts = {} /\ f.x0.acts # {}
  /\ become(afterFetch(f.x0.st))

FetchAfterBreakpoint(f) ==
  /\ f.debug.acts = {} /\ f.x0.acts = {} /\ f.bkpt.acts # {}
  /\ become(afterFetch(f.bkpt.st))

FetchNMI(f) ==
  /\ "nmi" \in config.ops /\ f.done /\ ~hart.dm
  /\ become(afterFetch(doNMI(f.bkpt.st)))

FetchInterrupt(f) ==
  /\ "interrupt" \in config.ops /\ f.done
  /\ ~hart.dm /\ (hart.mode = U \/ hart.MIE)
  /\ become(afterFetch(riscvTakeException(f.bkpt.st, "INTERRUPT", f.hits)))

----------------------------------------------------------------------------
(* Instructions.  Execute triggers are tested first, then the triggers of  *)
(* a data access; an action taken before the instruction ends it.          *)

\* U mode instructions executed under each ICOUNT trigger since it was written.
counted(s) ==
  [s EXCEPT !.ran = [i \in Triggers |->
     IF /\ s.mode = U /\ ~s.dm /\ s.trig[i].type = "ICOUNT" /\ U \in s.trig[i].modes
        /\ firstInChain(s, i) /\ @[i] < 2
     THEN @[i] + 1 ELSE @[i]]]

\* An instruction with effect op on the hart.
execute(f, op(_)) ==
  f.done /\ become(advance(IF f.x.ends THEN f.x.st ELSE op(counted(f.x.st))))

\* Load or store: access acc matches triggers data.
Access(f) ==
  \E acc \in config.ops \cap {"R", "W"}, data \in SUBSET Comparing :
    LET op(s) == doTriggerADMATCH(s, acc, data, FALSE).st IN execute(f, op)

Exception(f) ==
  LET op(s) == riscvTakeException(s, "EXCEPTION", f.hits)
  IN "exception" \in config.ops /\ execute(f, op)

riscvMRET(f) ==
  LET op(s) == IF s.dm THEN s
               ELSE riscvSetMode([s EXCEPT !.MIE = s.MPIE, !.MPIE = TRUE, !.MPP = U,
                                           !.mte = s.mpte, !.trapped = FALSE], s.MPP)
  IN hart.mode = M /\ execute(f, op)

riscvDRET(f) ==
  LET op(s) == leaveDM(s) IN hart.dm /\ execute(f, op)

Tdata1W(f) ==
  \E i \in Triggers, v \in config.values :
    LET op(s) == tdata1W(s, i, v) IN hart.mode = M /\ execute(f, op)

TcontrolW(f) ==
  \E mte, mpte \in BOOLEAN :
    LET op(s) == [s EXCEPT !.mte = mte, !.mpte = mpte, !.trapped = FALSE]
    IN "tcontrol" \in config.ops /\ config.tcontrol /\ hart.mode = M /\ execute(f, op)

\* A write of mstatus also refreshes the triggers (postStatusW).
MstatusW(f) ==
  \E MIE \in BOOLEAN :
    LET op(s) == riscvGetCurrentTriggers([s EXCEPT !.MIE = MIE, !.trapped = @ /\ config.tcontrol])
    IN "mstatus" \in config.ops /\ hart.mode = M /\ execute(f, op)

\* Net reset.  Actions due stay due, but no trigger has matched.
riscvReset ==
  LET s == IF begin.dm THEN leaveDM(begin) ELSE begin
  IN /\ "reset" \in config.ops
     /\ become([resetTriggers(riscvSetMode(s, M)) EXCEPT !.MIE = FALSE, !.MPIE = FALSE,
                                                          !.MPP = U, !.out = "write"])

InitHart ==
  [trig |-> [i \in Triggers |-> ResetTrigger], match |-> [i \in Triggers |-> 2],
   mode |-> M, dm |-> FALSE, prv |-> M, MPP |-> U, MIE |-> FALSE, MPIE |-> FALSE,
   mte |-> FALSE, mpte |-> FALSE, after |-> {}, out |-> "none",
   ran |-> [i \in Triggers |-> 0], trapped |-> FALSE]

Init == config \in Configs /\ hart = InitHart

Next ==
  \/ riscvReset
  \/ \E hits \in SUBSET Comparing : \E f \in {fetch(hits)} :
       \/ FetchHalt(f) \/ FetchAfterDebug(f) \/ FetchX0(f)
       \/ FetchAfterBreakpoint(f) \/ FetchNMI(f) \/ FetchInterrupt(f)
       \/ Access(f) \/ Exception(f) \/ riscvMRET(f) \/ riscvDRET(f)
       \/ Tdata1W(f) \/ TcontrolW(f) \/ MstatusW(f)

Spec == Init /\ [][Next]_vars
=============================================================================
