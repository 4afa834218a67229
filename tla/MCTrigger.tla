------------------------------ MODULE MCTrigger ------------------------------
(***************************************************************************)
(* Harts with two triggers.                                                *)
(***************************************************************************)
EXTENDS TriggerProperties, TLC

cfgOf(types, ops, values) ==
  [num |-> 2, types |-> types, tcontrol |-> TRUE, v0_14 |-> TRUE, v1_0 |-> TRUE,
   no_hit |-> FALSE, priority |-> "A_S_H_X", countsFetch |-> TRUE, debugger |-> FALSE,
   ops |-> ops, values |-> values]

\* A value for tdata1 of a trigger of software.
data1(type, modes) ==
  [type |-> type, dmode |-> FALSE, modes |-> modes, action |-> 0, timing |-> TRUE,
   chain |-> FALSE, priv |-> {"R"}, pending |-> FALSE, nmi |-> TRUE, hit |-> FALSE]

step == data1("ICOUNT", {U})

\* An instruction trigger, and a load trigger that may be the first of a chain.
onFetch == [data1("ADMATCH", {U}) EXCEPT !.priv = {"X"}, !.timing = FALSE]
onLoad(chain) == [data1("ADMATCH", {U, M}) EXCEPT !.chain = chain]

\* The same for the debugger.
debug(v) == [v EXCEPT !.dmode = TRUE, !.action = 1]

(***************************************************************************)
(* Stepping by software; breakpoints on accesses, interrupts and           *)
(* exceptions; stepping and watching by a debugger at each priority.       *)
(***************************************************************************)
MCConfigs ==
  { [cfgOf({"ICOUNT", "ADMATCH"}, {"interrupt", "exception"} \cup ops, {step, onFetch, onLoad(TRUE)})
       EXCEPT !.countsFetch = cf, !.priority = p, !.tcontrol = "tcontrol" \in ops]
    : cf \in BOOLEAN, p \in {"A_S_X_H", "A_S_H_X"}, ops \in {{"tcontrol"}, {"mstatus"}} }
  \cup
  { [cfgOf({"NONE", "INTERRUPT", "EXCEPTION"}, {"nmi", "interrupt", "exception", "mstatus"},
           {data1("INTERRUPT", {U}), data1("EXCEPTION", {U, M}), data1("NONE", {})})
       EXCEPT !.v1_0 = v, !.v0_14 = v, !.tcontrol = FALSE, !.countsFetch = FALSE] : v \in BOOLEAN }
  \cup
  { [cfgOf({"ADMATCH"}, {"R", "mstatus"}, {onLoad(TRUE), onLoad(FALSE)})
       EXCEPT !.tcontrol = FALSE] }
  \cup
  { [cfgOf({"ICOUNT", "ADMATCH"}, {"R", "interrupt", "nmi", "reset"},
           {debug(step), debug(onFetch), debug(onLoad(FALSE)), onLoad(TRUE)})
       EXCEPT !.debugger = TRUE, !.priority = p, !.no_hit = TRUE]
    : p \in {"A_S_X_H", "A_S_H_X", "A_H_S_X", "H_A_S_X"} }
=============================================================================
