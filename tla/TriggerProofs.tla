---------------------------- MODULE TriggerProofs ----------------------------
(***************************************************************************)
(* Proofs about the trigger module, for every number of triggers, every    *)
(* configuration and every sequence of matches, traps, writes and resets.  *)
(***************************************************************************)
EXTENDS TriggerProperties, WellFoundedInduction, TLAPS

Outs == {"none", "write", "silent", "debug", "bkptM", "bkptU"}

HartRec ==
  [trig : [Triggers -> TData1], match : [Triggers -> 0..2],
   mode : Modes, dm : BOOLEAN, prv : Modes, MPP : Modes, MIE : BOOLEAN, MPIE : BOOLEAN,
   mte : BOOLEAN, mpte : BOOLEAN, after : SUBSET {"debug", "bkpt"}, out : Outs,
   ran : [Triggers -> 0..2], trapped : BOOLEAN]

\* What writes of tdata1 let into a trigger, and firing keeps.
TrigOK(t) ==
  /\ t.type \in config.types
  /\ t.action = 1 => t.dmode
  /\ t.dmode => config.debugger
  /\ t.pending => t.type = "ICOUNT"
  /\ t.chain => t.type = "ADMATCH"
  /\ t.type = "ICOUNT" => t.timing

(***************************************************************************)
(* The hart is well formed: triggers are, Debug mode is entered on harts   *)
(* with a debugger and runs in M mode, and in a trap handler breakpoints   *)
(* are off unless software turned them on.                                 *)
(***************************************************************************)
Good(s) ==
  /\ s \in HartRec
  /\ \A i \in Triggers : TrigOK(s.trig[i])
  /\ s.dm => s.mode = M /\ config.debugger
  /\ s.trapped => IF config.tcontrol THEN ~s.mte ELSE ~s.MIE

\* What firing does not change of a trigger.
SameSetting(t, u) ==
  /\ u.type = t.type /\ u.dmode = t.dmode /\ u.action = t.action /\ u.timing = t.timing
  /\ u.chain = t.chain /\ u.priv = t.priv /\ u.nmi = t.nmi

\* The other parts of the hart.
SameRest(s, t) ==
  /\ t.mode = s.mode /\ t.dm = s.dm /\ t.prv = s.prv /\ t.MPP = s.MPP /\ t.MIE = s.MIE
  /\ t.MPIE = s.MPIE /\ t.mte = s.mte /\ t.mpte = s.mpte /\ t.out = s.out
  /\ t.ran = s.ran /\ t.trapped = s.trapped

\* Triggers of t are those of s, some of them hit.
SameTriggers(s, t) ==
  \A i \in Triggers : /\ SameSetting(s.trig[i], t.trig[i])
                      /\ t.trig[i].modes = s.trig[i].modes
                      /\ t.trig[i].pending = s.trig[i].pending

-----------------------------------------------------------------------------
\* Configurations are as assumed.
LEMMA ConfigIs ==
  ASSUME config \in Configs
  PROVE  /\ config.num \in Nat \ {0}
         /\ config.types \subseteq Types /\ config.types # {}
         /\ config.tcontrol \in BOOLEAN /\ config.v0_14 \in BOOLEAN /\ config.v1_0 \in BOOLEAN
         /\ config.no_hit \in BOOLEAN /\ config.debugger \in BOOLEAN
         /\ config.values \subseteq TData1
BY TriggerAssumption

\* u is trigger t with another hit bit, another pending bit, or disarmed.
Updated(t, u, modes, pending) ==
  u \in TData1 /\ SameSetting(t, u) /\ u.modes = modes /\ u.pending = pending

\* Updates of one trigger.
LEMMA TrigUpdates ==
  ASSUME NEW t \in TData1, NEW b \in BOOLEAN
  PROVE  /\ Updated(t, [t EXCEPT !.hit = b], t.modes, t.pending)
         /\ Updated(t, [t EXCEPT !.pending = b], t.modes, b)
         /\ Updated(t, [t EXCEPT !.modes = {}, !.pending = FALSE], {}, FALSE)
BY DEF TData1, SameSetting, Updated

\* A trigger with the settings of a well formed one is well formed.
LEMMA SameOK ==
  ASSUME NEW t, NEW u, TrigOK(t), SameSetting(t, u), u.pending => t.pending \/ t.type = "ICOUNT"
  PROVE  TrigOK(u)
BY DEF TrigOK, SameSetting

\* What software reads does not change either.
LEMMA SettingIs ==
  ASSUME NEW t \in TData1, NEW u \in TData1, SameSetting(t, u)
  PROVE  setting(u) = setting(t)
BY DEF TData1, SameSetting, setting

-----------------------------------------------------------------------------
\* Updates of the hart.
LEMMA HartUpdates ==
  ASSUME NEW s \in HartRec
  PROVE  /\ \A x \in [Triggers -> TData1] :
              LET t == [s EXCEPT !.trig = x]
              IN  t \in HartRec /\ SameRest(s, t) /\ t.trig = x /\ t.match = s.match /\ t.after = s.after
         /\ \A x \in [Triggers -> 0..2] :
              LET t == [s EXCEPT !.match = x]
              IN  t \in HartRec /\ SameRest(s, t) /\ t.trig = s.trig /\ t.match = x /\ t.after = s.after
         /\ \A x \in SUBSET {"debug", "bkpt"} :
              LET t == [s EXCEPT !.after = x]
              IN  t \in HartRec /\ SameRest(s, t) /\ t.trig = s.trig /\ t.match = s.match /\ t.after = x
<1>1. ASSUME NEW x \in [Triggers -> TData1]
      PROVE  LET t == [s EXCEPT !.trig = x]
             IN  t \in HartRec /\ SameRest(s, t) /\ t.trig = x /\ t.match = s.match /\ t.after = s.after
  BY DEF HartRec, SameRest
<1>2. ASSUME NEW x \in [Triggers -> 0..2]
      PROVE  LET t == [s EXCEPT !.match = x]
             IN  t \in HartRec /\ SameRest(s, t) /\ t.trig = s.trig /\ t.match = x /\ t.after = s.after
  BY DEF HartRec, SameRest
<1>3. ASSUME NEW x \in SUBSET {"debug", "bkpt"}
      PROVE  LET t == [s EXCEPT !.after = x]
             IN  t \in HartRec /\ SameRest(s, t) /\ t.trig = s.trig /\ t.match = s.match /\ t.after = x
  BY DEF HartRec, SameRest
<1> QED
  BY <1>1, <1>2, <1>3

\* Well-formedness from that of a hart with the same rest.
LEMMA GoodRest ==
  ASSUME NEW s, Good(s), NEW t \in HartRec, SameRest(s, t),
         \A i \in Triggers : TrigOK(t.trig[i])
  PROVE  Good(t)
BY DEF Good, SameRest

\* Recording hits.
LEMMA HitIs ==
  ASSUME NEW s, Good(s), NEW hits
  PROVE  LET t == setTriggerHit(s, hits)
         IN  Good(t) /\ SameRest(s, t) /\ SameTriggers(s, t) /\ t.match = s.match /\ t.after = s.after
<1> DEFINE x == [i \in Triggers |-> [s.trig[i] EXCEPT !.hit = @ \/ i \in hits]]
           t == [s EXCEPT !.trig = x]
<1>0. s \in HartRec /\ s.trig \in [Triggers -> TData1] /\ \A i \in Triggers : TrigOK(s.trig[i])
  BY DEF Good, HartRec
<1>1. \A i \in Triggers : /\ x[i] \in TData1 /\ SameSetting(s.trig[i], x[i])
                          /\ x[i].modes = s.trig[i].modes /\ x[i].pending = s.trig[i].pending
  <2> TAKE i \in Triggers
  <2> DEFINE b == s.trig[i].hit \/ i \in hits
  <2>1. b \in BOOLEAN
    OBVIOUS
  <2>2. x[i] = [s.trig[i] EXCEPT !.hit = b]
    BY Zenon
  <2>3. s.trig[i] \in TData1
    BY <1>0
  <2> HIDE DEF b, x
  <2>4. Updated(s.trig[i], x[i], s.trig[i].modes, s.trig[i].pending)
    <3>1. \A u \in TData1, c \in BOOLEAN : Updated(u, [u EXCEPT !.hit = c], u.modes, u.pending)
      BY TrigUpdates
    <3> QED
      BY <2>1, <2>2, <2>3, <3>1, Zenon
  <2> QED
    BY <2>4 DEF Updated
<1>2. x \in [Triggers -> TData1]
  BY <1>1
<1> HIDE DEF x
<1>3. t \in HartRec /\ SameRest(s, t) /\ t.trig = x /\ t.match = s.match /\ t.after = s.after
  BY <1>0, <1>2, HartUpdates
<1>4. \A i \in Triggers : TrigOK(x[i])
  BY <1>0, <1>1, SameOK
<1>5. Good(t)
  BY <1>3, <1>4, GoodRest
<1>6. CASE config.no_hit
  BY <1>6 DEF setTriggerHit, SameRest, SameTriggers, SameSetting
<1>7. CASE ~config.no_hit
  <2>1. setTriggerHit(s, hits) = t
    BY <1>7 DEF setTriggerHit, x
  <2> HIDE DEF t
  <2>2. SameTriggers(s, t)
    BY <1>1, <1>3 DEF SameTriggers
  <2> QED
    BY <1>3, <1>5, <2>1, <2>2
<1> QED
  BY <1>6, <1>7

\* Recording matches.
LEMMA MarkIs ==
  ASSUME NEW s, Good(s), NEW is
  PROVE  LET t == markTriggerMatched(s, is)
         IN  /\ Good(t) /\ SameRest(s, t) /\ t.trig = s.trig /\ t.after = s.after
             /\ t.match = [i \in Triggers |-> IF i \in is THEN 0 ELSE s.match[i]]
<1> DEFINE x == [i \in Triggers |-> IF i \in is THEN 0 ELSE s.match[i]]
           t == [s EXCEPT !.match = x]
<1>0. s \in HartRec /\ s.match \in [Triggers -> 0..2] /\ \A i \in Triggers : TrigOK(s.trig[i])
  BY DEF Good, HartRec
<1>1. x \in [Triggers -> 0..2]
  BY <1>0
<1>2. markTriggerMatched(s, is) = t
  BY DEF markTriggerMatched
<1> HIDE DEF x
<1>3. t \in HartRec /\ SameRest(s, t) /\ t.trig = s.trig /\ t.match = x /\ t.after = s.after
  BY <1>0, <1>1, HartUpdates
<1> HIDE DEF t
<1>4. Good(t)
  BY <1>0, <1>3, GoodRest
<1> QED
  BY <1>2, <1>3, <1>4 DEF x

\* Scheduling actions.
LEMMA ScheduleIs ==
  ASSUME NEW s, Good(s), NEW acts, \A a \in acts : a[1] \in {"debug", "bkpt"}
  PROVE  LET t == scheduleTriggerAfter(s, acts)
         IN  /\ Good(t) /\ SameRest(s, t) /\ t.trig = s.trig /\ t.match = s.match
             /\ s.after \subseteq t.after
             /\ \A a \in acts : a[2] = "after" => a[1] \in t.after
             /\ \A x \in t.after : x \in s.after \/ \E a \in acts : x = a[1]
<1> DEFINE x == s.after \cup {a[1] : a \in {y \in acts : y[2] = "after"}}
           t == [s EXCEPT !.after = x]
<1>0. s \in HartRec /\ s.after \in SUBSET {"debug", "bkpt"} /\ \A i \in Triggers : TrigOK(s.trig[i])
  BY DEF Good, HartRec
<1>1. x \in SUBSET {"debug", "bkpt"}
  BY <1>0
<1>2. scheduleTriggerAfter(s, acts) = t
  BY DEF scheduleTriggerAfter
<1>3. s.after \subseteq x /\ (\A a \in acts : a[2] = "after" => a[1] \in x)
        /\ \A z \in x : z \in s.after \/ \E a \in acts : z = a[1]
  OBVIOUS
<1> HIDE DEF x
<1>4. t \in HartRec /\ SameRest(s, t) /\ t.trig = s.trig /\ t.match = s.match /\ t.after = x
  BY <1>0, <1>1, HartUpdates
<1> HIDE DEF t
<1>5. Good(t)
  BY <1>0, <1>4, GoodRest
<1> QED
  BY <1>2, <1>3, <1>4, <1>5

\* Matching of pending triggers.
LEMMA CurrentIs ==
  ASSUME NEW s, Good(s)
  PROVE  LET t == riscvGetCurrentTriggers(s)
         IN  Good(t) /\ SameRest(s, t) /\ t.trig = s.trig /\ t.after = s.after
BY MarkIs DEF riscvGetCurrentTriggers

\* What a hart with another mode, or other interrupt and return state, keeps.
SameCore(s, t) == t.trig = s.trig /\ t.after = s.after /\ t.ran = s.ran /\ t.out = s.out

\* Changing the mode.
LEMMA SetModeIs ==
  ASSUME NEW s, Good(s), NEW m \in Modes, s.dm => m = M
  PROVE  LET t == riscvSetMode(s, m)
         IN  /\ Good(t) /\ SameCore(s, t) /\ t.mode = m /\ t.dm = s.dm /\ t.trapped = s.trapped
             /\ t.MIE = s.MIE /\ t.mte = s.mte /\ t.MPP = s.MPP /\ t.prv = s.prv
<1> DEFINE u == [s EXCEPT !.mode = m]
<1>0. s \in HartRec
  BY DEF Good
<1>1. /\ u \in HartRec /\ SameCore(s, u) /\ u.mode = m /\ u.dm = s.dm /\ u.trapped = s.trapped
      /\ u.MIE = s.MIE /\ u.mte = s.mte /\ u.match = s.match /\ u.MPP = s.MPP /\ u.prv = s.prv
  BY <1>0 DEF HartRec, SameCore
<1> HIDE DEF u
<1>2. Good(u)
  BY <1>1 DEF Good, SameCore
<1>3. riscvSetMode(s, m) = riscvGetCurrentTriggers(u)
  BY DEF riscvSetMode, u
<1> QED
  BY <1>1, <1>2, <1>3, CurrentIs DEF SameCore, SameRest

\* Entering Debug mode.
LEMMA EnterDMIs ==
  ASSUME NEW s, Good(s), config.debugger
  PROVE  LET t == enterDM(s)
         IN  Good(t) /\ SameCore(s, t) /\ t.dm /\ t.trapped = s.trapped
<1> DEFINE u == [s EXCEPT !.dm = TRUE, !.prv = s.mode, !.mode = M]
           v == [s EXCEPT !.dm = TRUE, !.prv = s.mode]
<1>0. s \in HartRec
  BY DEF Good
<1>1. CASE s.dm
  BY <1>1 DEF enterDM, SameCore
<1>2. CASE ~s.dm
  <2>1. /\ u \in HartRec /\ SameCore(s, u) /\ u.dm /\ u.trapped = s.trapped /\ u.mode = M
        /\ u.MIE = s.MIE /\ u.mte = s.mte
    BY <1>0 DEF HartRec, SameCore, Modes
  <2>2. Good(u)
    BY <2>1 DEF Good, SameCore
  <2>3. [v EXCEPT !.mode = M] = u
    BY <1>0 DEF HartRec
  <2>4. enterDM(s) = riscvGetCurrentTriggers(u)
    BY <1>2, <2>3 DEF enterDM, riscvSetMode
  <2> HIDE DEF u, v
  <2> QED
    BY <2>1, <2>2, <2>4, CurrentIs DEF SameCore, SameRest
<1> QED
  BY <1>1, <1>2

\* Leaving Debug mode.
LEMMA LeaveDMIs ==
  ASSUME NEW s, Good(s)
  PROVE  LET t == leaveDM(s)
         IN  Good(t) /\ SameCore(s, t) /\ ~t.dm /\ t.trapped = s.trapped
<1> DEFINE u == [s EXCEPT !.dm = FALSE]
<1>0. s \in HartRec
  BY DEF Good
<1>1. /\ u \in HartRec /\ SameCore(s, u) /\ ~u.dm /\ u.trapped = s.trapped /\ u.mode = s.mode
      /\ u.MIE = s.MIE /\ u.mte = s.mte
  BY <1>0 DEF HartRec, SameCore
<1> HIDE DEF u
<1>2. Good(u)
  BY <1>1 DEF Good, SameCore
<1>3. s.prv \in Modes
  BY <1>0 DEF HartRec
<1>4. leaveDM(s) = riscvSetMode(u, s.prv)
  BY DEF leaveDM, u
<1> QED
  BY <1>1, <1>2, <1>3, <1>4, SetModeIs DEF SameCore

-----------------------------------------------------------------------------
(* Chains and the actions due.                                             *)

\* Every non-empty set of natural numbers has a least element.
LEMMA LeastNat ==
  ASSUME NEW T, T \subseteq Nat, T # {}
  PROVE  \E x \in T : \A y \in T : x <= y
<1> DEFINE R == OpToRel(<, Nat)
<1>1. PICK x \in T : \A y \in T : ~(<<y, x>> \in R)
  BY NatLessThanWellFounded, WFMin, Zenon
<1>2. \A y \in T : <<y, x>> \in R <=> y < x
  BY DEF OpToRel
<1> HIDE DEF R
<1>3. \A y \in T : ~(y < x)
  BY <1>1, <1>2, Zenon
<1> QED
  BY <1>1, <1>3

EndsChain(s, i, j) ==
  j >= i /\ lastInChain(s, j) /\ \A k \in i..(j - 1) : ~lastInChain(s, k)

\* Every chain has an end.
LEMMA ChainEndIs ==
  ASSUME config \in Configs, NEW s, NEW i \in Triggers
  PROVE  chainEnd(s, i) \in Triggers /\ EndsChain(s, i, chainEnd(s, i))
<1> DEFINE T == {j \in Triggers : j >= i /\ lastInChain(s, j)}
<1>1. config.num \in Nat \ {0} /\ Triggers \subseteq Nat
  BY ConfigIs DEF Triggers
<1>2. config.num - 1 \in T
  BY <1>1 DEF Triggers, lastInChain
<1>3. PICK j \in T : \A k \in T : j <= k
  <2>1. T \subseteq Nat /\ T # {}
    BY <1>1, <1>2
  <2> HIDE DEF T
  <2> QED
    BY <2>1, LeastNat
<1>4. EndsChain(s, i, j)
  <2>1. ASSUME NEW k \in i..(j - 1)
        PROVE  ~lastInChain(s, k)
    <3>1. k \in Triggers /\ k >= i /\ k < j
      BY <1>1, <1>3, <2>1 DEF Triggers
    <3> QED
      BY <1>1, <1>3, <3>1
  <2> QED
    BY <1>3, <2>1 DEF EndsChain
<1>5. chainEnd(s, i) = CHOOSE x \in Triggers : EndsChain(s, i, x)
  BY DEF chainEnd, EndsChain
<1>6. \E x \in Triggers : EndsChain(s, i, x)
  BY <1>3, <1>4
<1> QED
  BY <1>5, <1>6, Zenon

\* A trigger that is not chained to the next is a chain's end.
LEMMA SingleChain ==
  ASSUME config \in Configs, NEW s, NEW i \in Triggers, ~s.trig[i].chain
  PROVE  chainEnd(s, i) = i
<1> DEFINE j == chainEnd(s, i)
<1>1. j \in Triggers /\ EndsChain(s, i, j)
  BY ChainEndIs
<1>2. i \in Nat /\ j \in Nat
  BY <1>1, ConfigIs DEF Triggers
<1>3. lastInChain(s, i)
  BY DEF lastInChain
<1> HIDE DEF j
<1>4. j >= i /\ \A k \in i..(j - 1) : ~lastInChain(s, k)
  BY <1>1 DEF EndsChain
<1>5. j > i => i \in i..(j - 1)
  BY <1>2
<1>6. j = i
  BY <1>2, <1>3, <1>4, <1>5
<1> QED
  BY <1>6 DEF j

Fires(s, i, age) ==
  /\ firstInChain(s, i)
  /\ matchChain(s, i, age)
  /\ s.trig[chainEnd(s, i)].action = 1 \/ breakpointEnabled(s)

\* The action of the chain from i.
actionOf(s, i) ==
  <<IF s.trig[chainEnd(s, i)].action = 1 THEN "debug" ELSE "bkpt",
    IF getTriggerAfter(s.trig[i]) THEN "after" ELSE "before">>

\* The actions due are those of the chains that fire.
LEMMA ActsAre ==
  ASSUME NEW s, NEW age
  PROVE  LET e == getActiveAction(s, age)
         IN  /\ \A i \in Triggers : Fires(s, i, age) => actionOf(s, i) \in e.acts
             /\ \A a \in e.acts : \E i \in Triggers : Fires(s, i, age) /\ a = actionOf(s, i)
             /\ \A i \in Triggers : Fires(s, i, age) /\ s.trig[chainEnd(s, i)].type = "ICOUNT"
                                      => chainEnd(s, i) \in e.icmatch
             /\ \A j \in e.icmatch : s.trig[j].type = "ICOUNT"
BY DEF getActiveAction, Fires, actionOf

\* Entry to Debug mode is an action of the debugger's triggers, a breakpoint one
\* that is enabled.
LEMMA ActsMean ==
  ASSUME config \in Configs, NEW s, Good(s), NEW age
  PROVE  LET e == getActiveAction(s, age)
         IN  \A a \in e.acts : /\ a[1] \in {"debug", "bkpt"}
                               /\ a[1] = "debug" => config.debugger
                               /\ a[1] = "bkpt" => breakpointEnabled(s)
<1> DEFINE e == getActiveAction(s, age)
<1> SUFFICES ASSUME NEW a \in e.acts
             PROVE  /\ a[1] \in {"debug", "bkpt"}
                    /\ a[1] = "debug" => config.debugger
                    /\ a[1] = "bkpt" => breakpointEnabled(s)
  OBVIOUS
<1>1. PICK i \in Triggers : Fires(s, i, age) /\ a = actionOf(s, i)
  BY ActsAre
<1>2. chainEnd(s, i) \in Triggers
  BY ChainEndIs
<1>3. TrigOK(s.trig[chainEnd(s, i)])
  BY <1>2 DEF Good
<1> QED
  BY <1>1, <1>3 DEF actionOf, TrigOK, Fires

-----------------------------------------------------------------------------
(* Traps.                                                                  *)

\* What firing and trapping keep of a trigger: its settings and its modes, unless
\* it is disarmed; a pending trigger stays pending until it is.
KeptTrig(t, u) ==
  /\ SameSetting(t, u)
  /\ u.modes \in {t.modes, {}}
  /\ t.pending => u.pending \/ u.modes = {}

Kept(s, t) == \A i \in Triggers : KeptTrig(s.trig[i], t.trig[i])

\* Triggers that a trap from a mode leaves pending, if they are not disarmed.
LeftPending(s, m, t) ==
  \A i \in Triggers :
    s.trig[i].type = "ICOUNT" /\ m \in s.trig[i].modes => t.trig[i].pending \/ t.trig[i].modes = {}

\* Triggers that are the same are kept.
LEMMA SameKept ==
  ASSUME NEW s, NEW t, SameTriggers(s, t) \/ t.trig = s.trig
  PROVE  Kept(s, t)
BY DEF SameTriggers, Kept, KeptTrig, SameSetting

\* Keeping is transitive, and so is what a trap leaves pending.
LEMMA KeptTwice ==
  ASSUME NEW s, NEW t, NEW u, Kept(s, t), Kept(t, u)
  PROVE  /\ Kept(s, u)
         /\ \A m : LeftPending(s, m, t) \/ LeftPending(t, m, u) => LeftPending(s, m, u)
<1>1. Kept(s, u)
  BY DEF Kept, KeptTrig, SameSetting
<1>2. ASSUME NEW m, LeftPending(s, m, t)
      PROVE  LeftPending(s, m, u)
  BY <1>2 DEF Kept, KeptTrig, LeftPending
<1>3. ASSUME NEW m, LeftPending(t, m, u)
      PROVE  LeftPending(s, m, u)
  BY <1>3 DEF Kept, KeptTrig, SameSetting, LeftPending
<1> QED
  BY <1>1, <1>2, <1>3

\* Evaluating the actions of a trap or an NMI schedules them.
LEMMA ScheduledIs ==
  ASSUME config \in Configs, NEW s, Good(s), NEW age
  PROVE  LET e == getActiveAction(s, age)
             t == scheduleTriggerAfter(setTriggerHit(s, e.hits), e.acts)
         IN  Good(t) /\ SameRest(s, t) /\ SameTriggers(s, t) /\ s.after \subseteq t.after
               /\ t.match = s.match
<1> DEFINE e == getActiveAction(s, age)
           u == setTriggerHit(s, e.hits)
           t == scheduleTriggerAfter(u, e.acts)
<1>1. Good(u) /\ SameRest(s, u) /\ SameTriggers(s, u) /\ u.match = s.match /\ u.after = s.after
  BY HitIs
<1>2. \A a \in e.acts : a[1] \in {"debug", "bkpt"}
  BY ActsMean
<1> HIDE DEF e, u
<1>3. /\ Good(t) /\ SameRest(u, t) /\ t.trig = u.trig /\ t.match = u.match
      /\ u.after \subseteq t.after
  BY <1>1, <1>2, ScheduleIs
<1> HIDE DEF t
<1>4. Good(t) /\ SameRest(s, t) /\ SameTriggers(s, t) /\ s.after \subseteq t.after /\ t.match = s.match
  BY <1>1, <1>3 DEF SameRest, SameTriggers
<1> QED
  BY <1>4 DEF t, u, e

\* A trap leaves the ICOUNT triggers that cover its mode pending.
LEMMA TrapIs ==
  ASSUME config \in Configs, NEW s, Good(s), NEW m, NEW type, NEW hits
  PROVE  LET t == triggerTrap(s, m, type, hits)
         IN  Good(t) /\ SameRest(s, t) /\ Kept(s, t) /\ LeftPending(s, m, t) /\ s.after \subseteq t.after
<1> DEFINE covers == {i \in Triggers : m \in s.trig[i].modes}
           matched == {i \in covers : s.trig[i].type = type /\ i \in hits}
           x == [i \in Triggers |->
                   [s.trig[i] EXCEPT !.pending = @ \/ (i \in covers /\ s.trig[i].type = "ICOUNT")]]
           u == [s EXCEPT !.trig = x]
           t == markTriggerMatched(u, matched)
           e == getActiveAction(t, 0)
           v == scheduleTriggerAfter(setTriggerHit(t, e.hits), e.acts)
<1>0. s \in HartRec /\ s.trig \in [Triggers -> TData1] /\ \A i \in Triggers : TrigOK(s.trig[i])
  BY DEF Good, HartRec
<1>1. \A i \in Triggers :
        Updated(s.trig[i], x[i], s.trig[i].modes,
                s.trig[i].pending \/ (i \in covers /\ s.trig[i].type = "ICOUNT"))
  <2> TAKE i \in Triggers
  <2> DEFINE b == s.trig[i].pending \/ (i \in covers /\ s.trig[i].type = "ICOUNT")
  <2>1. b \in BOOLEAN
    OBVIOUS
  <2>2. x[i] = [s.trig[i] EXCEPT !.pending = b]
    BY Zenon
  <2>3. s.trig[i] \in TData1
    BY <1>0
  <2> HIDE DEF x
  <2>4. ASSUME NEW c \in BOOLEAN, c = b
        PROVE  Updated(s.trig[i], x[i], s.trig[i].modes, c)
    <3> HIDE DEF b
    <3>1. \A z \in TData1, d \in BOOLEAN : Updated(z, [z EXCEPT !.pending = d], z.modes, d)
      BY TrigUpdates
    <3> QED
      BY <2>2, <2>3, <2>4, <3>1, Zenon
  <2> QED
    BY <2>1, <2>4, Zenon
<1>2. \A i \in Triggers :
        /\ x[i] \in TData1 /\ SameSetting(s.trig[i], x[i]) /\ x[i].modes = s.trig[i].modes
        /\ x[i].pending <=> s.trig[i].pending \/ (i \in covers /\ s.trig[i].type = "ICOUNT")
  BY <1>1 DEF Updated
<1>3. x \in [Triggers -> TData1]
  BY <1>2
<1>a. triggerTrap(s, m, type, hits) = IF matched = {} THEN t ELSE v
  BY Zenon DEF triggerTrap
<1>b. \A i \in Triggers : i \in covers <=> m \in s.trig[i].modes
  OBVIOUS
<1> HIDE DEF x, covers, matched
<1>4. u \in HartRec /\ SameRest(s, u) /\ u.trig = x /\ u.match = s.match /\ u.after = s.after
  BY <1>0, <1>3, HartUpdates
<1>5. \A i \in Triggers : TrigOK(x[i])
  BY <1>0, <1>2, SameOK
<1> HIDE DEF u
<1>6. Good(u)
  BY <1>4, <1>5, GoodRest
<1>7. Good(t) /\ SameRest(u, t) /\ t.trig = u.trig /\ t.after = u.after
  BY <1>6, MarkIs
<1>8. Kept(s, t) /\ LeftPending(s, m, t)
  BY <1>2, <1>4, <1>7, <1>b DEF Kept, KeptTrig, LeftPending
<1> HIDE DEF t
<1>9. Good(v) /\ SameRest(t, v) /\ SameTriggers(t, v) /\ t.after \subseteq v.after
  BY <1>7, ScheduledIs
<1> HIDE DEF v
<1>10. Kept(s, v) /\ LeftPending(s, m, v)
  BY <1>8, <1>9, SameKept, KeptTwice
<1> QED
  BY <1>4, <1>7, <1>8, <1>9, <1>10, <1>a DEF SameRest

\* Taking a trap: nothing in Debug mode, otherwise M mode.
LEMMA ExceptionIs ==
  ASSUME config \in Configs, NEW s, Good(s), NEW type, NEW hits
  PROVE  LET t == riscvTakeException(s, type, hits)
         IN  /\ Good(t) /\ Kept(s, t) /\ t.dm = s.dm /\ t.out = s.out /\ t.ran = s.ran
             /\ t.mode = M /\ s.after \subseteq t.after
             /\ ~s.dm => LeftPending(s, s.mode, t)
<1> DEFINE u == trapM(s)
           v == riscvSetMode(u, M)
           t == triggerTrap(v, s.mode, type, hits)
<1>0. s \in HartRec
  BY DEF Good
<1>1. CASE s.dm
  <2>1. riscvTakeException(s, type, hits) = s /\ s.mode = M
    BY <1>1 DEF riscvTakeException, Good
  <2>2. Kept(s, s)
    BY SameKept
  <2> QED
    BY <1>1, <2>1, <2>2
<1>2. CASE ~s.dm
  <2>1. /\ u \in HartRec /\ SameCore(s, u) /\ u.mode = s.mode /\ u.dm = s.dm
        /\ u.MIE = FALSE /\ u.mte = FALSE
    BY <1>0 DEF HartRec, SameCore, trapM
  <2> HIDE DEF u
  <2>2. Good(u)
    BY <2>1 DEF Good, SameCore
  <2>3. Good(v) /\ SameCore(u, v) /\ v.mode = M /\ v.dm = u.dm
    BY <2>2, SetModeIs DEF Modes
  <2> HIDE DEF v
  <2>4. Good(t) /\ SameRest(v, t) /\ Kept(v, t) /\ LeftPending(v, s.mode, t) /\ v.after \subseteq t.after
    BY <2>3, TrapIs
  <2> HIDE DEF t
  <2>5. v.trig = s.trig /\ v.after = s.after /\ v.ran = s.ran /\ v.out = s.out /\ v.dm = s.dm
    BY <2>1, <2>3 DEF SameCore
  <2>6. Kept(s, t) /\ LeftPending(s, s.mode, t)
    BY <2>4, <2>5 DEF Kept, LeftPending
  <2>7. t.dm = s.dm /\ t.out = s.out /\ t.ran = s.ran /\ t.mode = M
    BY <2>3, <2>4, <2>5 DEF SameRest
  <2>8. riscvTakeException(s, type, hits) = t
    BY <1>2 DEF riscvTakeException, t, v, u
  <2> QED
    BY <2>4, <2>5, <2>6, <2>7, <2>8
<1> QED
  BY <1>1, <1>2

\* Taking an NMI.
LEMMA NMIIs ==
  ASSUME config \in Configs, NEW s, Good(s)
  PROVE  LET t == doNMI(s)
         IN  Good(t) /\ Kept(s, t) /\ t.dm = s.dm /\ t.out = s.out /\ t.ran = s.ran /\ t.mode = M
<1> DEFINE u == riscvSetMode(s, M)
           matched == {i \in Triggers :
                         /\ u.trig[i].nmi
                         /\ config.v1_0 => u.mode \in u.trig[i].modes
                         /\ u.trig[i].type = IF config.v1_0 THEN "INTERRUPT" ELSE "EXCEPTION"}
           t == markTriggerMatched(u, matched)
           e == getActiveAction(t, 0)
           v == scheduleTriggerAfter(setTriggerHit(t, e.hits), e.acts)
<1>1. Good(u) /\ SameCore(s, u) /\ u.mode = M /\ u.dm = s.dm
  BY SetModeIs DEF Modes
<1>2. doNMI(s) = IF matched = {} THEN u ELSE v
  BY Zenon DEF doNMI, triggerNMI
<1> HIDE DEF u, matched
<1>3. Good(t) /\ SameRest(u, t) /\ t.trig = u.trig
  BY <1>1, MarkIs
<1> HIDE DEF t
<1>4. Good(v) /\ SameRest(t, v) /\ SameTriggers(t, v)
  BY <1>3, ScheduledIs
<1> HIDE DEF v
<1>5. Kept(s, u) /\ Kept(s, v)
  <2>1. Kept(s, u) /\ Kept(u, t) /\ Kept(t, v)
    BY <1>1, <1>3, <1>4, SameKept DEF SameCore
  <2> QED
    BY <2>1, KeptTwice
<1> QED
  BY <1>1, <1>2, <1>3, <1>4, <1>5 DEF SameRest, SameCore

-----------------------------------------------------------------------------
(* Actions.                                                                *)

\* t is s with triggers x and the outcome y.
ActedOn(s, t, x, y) ==
  /\ t \in HartRec /\ t.trig = x /\ t.out = y /\ t.mode = s.mode /\ t.dm = s.dm
  /\ t.MIE = s.MIE /\ t.mte = s.mte /\ t.trapped = s.trapped /\ t.ran = s.ran
  /\ t.after = s.after

\* Updates of the triggers and of what happened.
LEMMA ActionUpdate ==
  \A s \in HartRec, x \in [Triggers -> TData1], y \in Outs :
    ActedOn(s, [s EXCEPT !.trig = x, !.out = y], x, y)
<1> TAKE s \in HartRec, x \in [Triggers -> TData1], y \in Outs
<1> DEFINE t == [s EXCEPT !.trig = x, !.out = y]
<1>1. t \in HartRec
  BY DEF HartRec
<1>2. /\ t.trig = x /\ t.out = y /\ t.mode = s.mode /\ t.dm = s.dm
      /\ t.MIE = s.MIE /\ t.mte = s.mte /\ t.trapped = s.trapped /\ t.ran = s.ran
      /\ t.after = s.after
  BY DEF HartRec
<1> QED
  BY <1>1, <1>2, Zenon DEF ActedOn

\* Taking actions: Debug mode is entered, or M mode with the ICOUNT triggers that
\* covered the mode pending or disarmed; the ones that fired are disarmed.
LEMMA ActionIs ==
  ASSUME config \in Configs, NEW s, Good(s), NEW e, NEW acts, NEW hits,
         \A a \in acts : a[1] = "debug" => config.debugger,
         \A j \in e.icmatch : s.trig[j].type = "ICOUNT"
  PROVE  LET t == doTriggerAction(s, e, acts, hits)
         IN  /\ Good(t) /\ Kept(s, t) /\ t.ran = s.ran
             /\ \A j \in Triggers : j \in e.icmatch => t.trig[j].modes = {}
             /\ (\E a \in acts : a[1] = "debug") => t.dm
             /\ t.out = "bkptM" => s.mode = M /\ ~s.dm /\ ~(\E a \in acts : a[1] = "debug")
             /\ t.dm \/ (t.mode = M /\ LeftPending(s, s.mode, t))
<1> DEFINE debug == \E a \in acts : a[1] = "debug"
           x == [i \in Triggers |->
                   IF i \in e.icmatch THEN [s.trig[i] EXCEPT !.modes = {}, !.pending = FALSE]
                   ELSE s.trig[i]]
           o == IF s.dm THEN "silent" ELSE IF debug THEN "debug"
                ELSE IF s.mode = M THEN "bkptM" ELSE "bkptU"
           u == [s EXCEPT !.trig = x, !.out = o]
           v == enterDM(u)
           w == riscvTakeException(u, "EXCEPTION", hits)
<1>0. s \in HartRec /\ s.trig \in [Triggers -> TData1] /\ \A i \in Triggers : TrigOK(s.trig[i])
  BY DEF Good, HartRec
<1>1. \A i \in Triggers :
        /\ x[i] \in TData1 /\ KeptTrig(s.trig[i], x[i]) /\ TrigOK(x[i])
        /\ i \in e.icmatch => x[i].modes = {}
  <2> TAKE i \in Triggers
  <2>1. CASE i \in e.icmatch
    <3>1. Updated(s.trig[i], x[i], {}, FALSE)
      <4>1. \A z \in TData1 : Updated(z, [z EXCEPT !.modes = {}, !.pending = FALSE], {}, FALSE)
        BY TrigUpdates
      <4>2. x[i] = [s.trig[i] EXCEPT !.modes = {}, !.pending = FALSE] /\ s.trig[i] \in TData1
        BY <1>0, <2>1
      <4> HIDE DEF x
      <4> QED
        BY <4>1, <4>2, Zenon
    <3> HIDE DEF x
    <3>2. TrigOK(x[i])
      BY <1>0, <3>1, SameOK DEF Updated
    <3> QED
      BY <3>1, <3>2 DEF Updated, KeptTrig
  <2>2. CASE i \notin e.icmatch
    BY <1>0, <2>2 DEF KeptTrig, SameSetting
  <2> QED
    BY <2>1, <2>2
<1>2. x \in [Triggers -> TData1]
  BY <1>1
<1>3. o \in Outs
  BY DEF Outs
<1>4. doTriggerAction(s, e, acts, hits) = IF debug THEN v ELSE w
  BY Zenon DEF doTriggerAction
<1>5. o = "bkptM" => s.mode = M /\ ~s.dm /\ ~debug
  OBVIOUS
<1>6. debug => config.debugger
  OBVIOUS
<1> HIDE DEF x, o, debug
<1>a. ActedOn(s, u, x, o)
  BY <1>0, <1>2, <1>3, ActionUpdate, Zenon
<1> HIDE DEF u
<1>7. /\ u \in HartRec /\ u.trig = x /\ u.out = o /\ u.mode = s.mode /\ u.dm = s.dm
      /\ u.MIE = s.MIE /\ u.mte = s.mte /\ u.trapped = s.trapped /\ u.ran = s.ran
      /\ u.after = s.after
  BY <1>a DEF ActedOn
<1>8. Good(u) /\ Kept(s, u)
  BY <1>1, <1>7 DEF Good, Kept
<1>9. CASE debug
  <2>1. Good(v) /\ SameCore(u, v) /\ v.dm
    BY <1>6, <1>8, <1>9, EnterDMIs
  <2> HIDE DEF v
  <2>2. Kept(s, v)
    BY <1>8, <2>1, SameKept, KeptTwice DEF SameCore
  <2>3. doTriggerAction(s, e, acts, hits) = v
    BY <1>4, <1>9
  <2>4. v.trig = x /\ v.out = o /\ v.ran = s.ran
    BY <1>7, <2>1 DEF SameCore
  <2>5. o = "bkptM" => FALSE
    BY <1>5, <1>9
  <2> QED
    BY <1>1, <2>1, <2>2, <2>3, <2>4, <2>5
<1>10. CASE ~debug
  <2>1. /\ Good(w) /\ Kept(u, w) /\ w.dm = u.dm /\ w.out = u.out /\ w.ran = u.ran
        /\ w.mode = M /\ (~u.dm => LeftPending(u, u.mode, w))
    BY <1>8, ExceptionIs
  <2> HIDE DEF w
  <2>2. Kept(s, w) /\ (~u.dm => LeftPending(s, s.mode, w))
    BY <1>7, <1>8, <2>1, KeptTwice
  <2>3. \A j \in Triggers : j \in e.icmatch => w.trig[j].modes = {}
    BY <1>1, <1>7, <2>1 DEF Kept, KeptTrig
  <2>4. doTriggerAction(s, e, acts, hits) = w
    BY <1>4, <1>10
  <2>5. s.dm \in BOOLEAN /\ ((\E a \in acts : a[1] = "debug") <=> FALSE)
    BY <1>0, <1>10 DEF HartRec, debug
  <2> QED
    BY <1>5, <1>7, <1>10, <2>1, <2>2, <2>3, <2>4, <2>5
<1> QED
  BY <1>9, <1>10

-----------------------------------------------------------------------------
(* The tests of a fetch and of an access.                                  *)

\* No action is taken: hits are recorded, and matches and actions due.
Quiet(s, t) == Good(t) /\ SameRest(s, t) /\ SameTriggers(s, t)

\* An action is taken: the hart enters Debug mode or traps.
Acted(s, t) ==
  /\ Good(t) /\ Kept(s, t) /\ t.ran = s.ran
  /\ t.out = "bkptM" => ~s.trapped
  /\ t.dm \/ (t.mode = M /\ LeftPending(s, s.mode, t))

\* One test after another.
LEMMA QuietTwice ==
  ASSUME NEW s, NEW t, NEW u, Quiet(s, t)
  PROVE  /\ Quiet(t, u) => Quiet(s, u)
         /\ Acted(t, u) => Acted(s, u)
<1>1. Quiet(t, u) => Quiet(s, u)
  BY DEF Quiet, SameRest, SameTriggers, SameSetting
<1>2. ASSUME Acted(t, u)
      PROVE  Acted(s, u)
  <2>1. Kept(s, t) /\ Kept(t, u) /\ t.mode = s.mode /\ t.ran = s.ran /\ t.trapped = s.trapped
    BY <1>2, SameKept DEF Quiet, Acted, SameRest
  <2>2. Kept(s, u) /\ (LeftPending(t, t.mode, u) => LeftPending(s, s.mode, u))
    BY <2>1, KeptTwice
  <2> QED
    BY <1>2, <2>1, <2>2 DEF Acted
<1> QED
  BY <1>1, <1>2

\* Triggers that fire are triggers of the hart.
LEMMA FiredAre ==
  ASSUME config \in Configs, NEW s, NEW age
  PROVE  getActiveAction(s, age).icmatch \subseteq Triggers
<1>1. \A i \in Triggers : chainEnd(s, i) \in Triggers
  BY ChainEndIs
<1> QED
  BY <1>1 DEF getActiveAction

\* Taking some of the actions an evaluation found.
LEMMA ActsTaken ==
  ASSUME config \in Configs, NEW s, Good(s), NEW age, NEW u, Quiet(s, u), NEW hits,
         NEW acts \in SUBSET getActiveAction(s, age).acts, acts # {}
  PROVE  LET e == getActiveAction(s, age)
             t == doTriggerAction(u, e, acts, hits)
         IN  /\ Acted(s, t)
             /\ \A j \in e.icmatch : t.trig[j].modes = {}
             /\ (\E a \in acts : a[1] = "debug") => t.dm
<1> DEFINE e == getActiveAction(s, age)
           t == doTriggerAction(u, e, acts, hits)
           debug == \E a \in acts : a[1] = "debug"
<1>1. \A a \in acts : /\ a[1] \in {"debug", "bkpt"} /\ (a[1] = "debug" => config.debugger)
                      /\ a[1] = "bkpt" => breakpointEnabled(s)
  BY ActsMean
<1>2. e.icmatch \subseteq Triggers /\ \A j \in e.icmatch : s.trig[j].type = "ICOUNT"
  BY FiredAre, ActsAre
<1>3. \A j \in e.icmatch : u.trig[j].type = "ICOUNT"
  BY <1>2 DEF Quiet, SameTriggers, SameSetting
<1> HIDE DEF e
<1>4. /\ Good(t) /\ Kept(u, t) /\ t.ran = u.ran
      /\ \A j \in Triggers : j \in e.icmatch => t.trig[j].modes = {}
      /\ debug => t.dm
      /\ t.out = "bkptM" => u.mode = M /\ ~u.dm /\ ~debug
      /\ t.dm \/ (t.mode = M /\ LeftPending(u, u.mode, t))
  BY <1>1, <1>3, ActionIs DEF Quiet
<1>5. ~debug => breakpointEnabled(s)
  BY <1>1
<1> HIDE DEF t, debug
<1>6. t.out = "bkptM" => ~s.trapped
  BY <1>4, <1>5 DEF breakpointEnabled, Quiet, SameRest, Good
<1>7. Acted(u, t)
  BY <1>4, <1>6 DEF Acted, Quiet, SameRest
<1>8. Acted(s, t)
  BY <1>7, QuietTwice
<1> QED
  BY <1>2, <1>4, <1>8 DEF t, e, debug

\* Actions due after the preceding instruction.
LEMMA AfterIs ==
  ASSUME config \in Configs, NEW s, Good(s), NEW type, NEW hits
  PROVE  LET r == doTriggerAfter(s, type, hits)
             e == getActiveAction(s, 1)
         IN  /\ r.acts = {} => Quiet(s, r.st) /\ r.st.match = s.match /\ s.after \ {type} \subseteq r.st.after
             /\ r.acts # {} => /\ Acted(s, r.st) /\ \A j \in e.icmatch : r.st.trig[j].modes = {}
                               /\ type = "debug" => r.st.dm
             /\ type \in s.after /\ <<type, "after">> \in e.acts => r.acts # {}
<1> DEFINE r == doTriggerAfter(s, type, hits)
           e == getActiveAction(s, 1)
           acts == {<<type, "after">>} \cap e.acts
           h == setTriggerHit(s, e.hits)
           u == [h EXCEPT !.after = @ \ {type}]
           t == doTriggerAction(u, e, acts, hits)
<1>1. CASE type \notin s.after
  <2>1. r.acts = {} /\ r.st = s
    BY <1>1 DEF doTriggerAfter
  <2>2. Quiet(s, s)
    BY DEF Quiet, SameRest, SameTriggers, SameSetting
  <2> QED
    BY <1>1, <2>1, <2>2
<1>2. CASE type \in s.after
  <2>1. Good(h) /\ SameRest(s, h) /\ SameTriggers(s, h) /\ h.match = s.match /\ h.after = s.after
    BY HitIs
  <2>2. r.acts = acts /\ r.st = IF acts = {} THEN u ELSE t
    BY <1>2, Zenon DEF doTriggerAfter
  <2>3. acts \in SUBSET e.acts /\ (acts # {} => acts = {<<type, "after">>})
          /\ (<<type, "after">> \in e.acts => acts # {})
    OBVIOUS
  <2>4. h \in HartRec /\ h.after \ {type} \in SUBSET {"debug", "bkpt"}
    BY <2>1 DEF Good, HartRec
  <2> HIDE DEF h, e, acts, r
  <2>5. u \in HartRec /\ SameRest(h, u) /\ u.trig = h.trig /\ u.match = h.match /\ u.after = h.after \ {type}
    BY <2>4, HartUpdates, ZenonT(60)
  <2> HIDE DEF u
  <2>6. Good(u)
    BY <2>1, <2>5, GoodRest DEF Good
  <2>7. Quiet(s, u)
    BY <2>1, <2>5, <2>6 DEF Quiet, SameRest, SameTriggers
  <2>8. ASSUME acts # {}
        PROVE  /\ Acted(s, t) /\ \A j \in e.icmatch : t.trig[j].modes = {}
               /\ (\E a \in acts : a[1] = "debug") => t.dm
    BY <2>3, <2>7, <2>8, ActsTaken DEF e
  <2>9. type = "debug" /\ acts # {} => \E a \in acts : a[1] = "debug"
    BY <2>3
  <2> HIDE DEF t
  <2>10. CASE acts = {}
    BY <2>1, <2>2, <2>3, <2>5, <2>7, <2>10 DEF r, e
  <2>11. CASE acts # {}
    BY <2>2, <2>8, <2>9, <2>11 DEF r, e
  <2> QED
    BY <2>10, <2>11
<1> QED
  BY <1>1, <1>2

\* Actions of the current count: those before the instruction are taken, and with
\* none of them the others are scheduled.
LEMMA BeforeIs ==
  ASSUME config \in Configs, NEW s, Good(s), NEW hits
  PROVE  LET r == doTriggerBefore(s, hits)
             e == getActiveAction(s, 0)
         IN  /\ r.acts = e.acts
             /\ r.ends <=> \E a \in e.acts : a[2] = "before"
             /\ ~r.ends => /\ Quiet(s, r.st) /\ r.st.match = s.match /\ s.after \subseteq r.st.after
                           /\ \A a \in e.acts : a[1] \in r.st.after
             /\ r.ends => Acted(s, r.st) /\ \A j \in e.icmatch : r.st.trig[j].modes = {}
<1> DEFINE r == doTriggerBefore(s, hits)
           e == getActiveAction(s, 0)
           h == setTriggerHit(s, e.hits)
           u == scheduleTriggerAfter(h, e.acts)
           t == doTriggerAction(h, e, e.acts, hits)
           ends == \E a \in e.acts : a[2] = "before"
<1>1. r.acts = e.acts /\ (r.ends <=> ends) /\ r.st = IF ends THEN t ELSE u
  BY Zenon DEF doTriggerBefore
<1>2. Good(h) /\ SameRest(s, h) /\ SameTriggers(s, h) /\ h.match = s.match /\ h.after = s.after
  BY HitIs
<1>3. \A a \in e.acts : a[1] \in {"debug", "bkpt"} /\ a[2] \in {"after", "before"}
  <2>1. \A i : actionOf(s, i)[2] \in {"after", "before"}
    BY DEF actionOf
  <2> QED
    BY <2>1, ActsMean, ActsAre
<1>4. ends => e.acts # {}
  OBVIOUS
<1>5. ASSUME e.acts # {}
      PROVE  Acted(s, t) /\ \A j \in e.icmatch : t.trig[j].modes = {}
  <2>1. Quiet(s, h) /\ e.acts \in SUBSET e.acts
    BY <1>2 DEF Quiet
  <2> HIDE DEF h
  <2> QED
    BY <1>5, <2>1, ActsTaken
<1> HIDE DEF h, e, r
<1>6. /\ Good(u) /\ SameRest(h, u) /\ u.trig = h.trig /\ u.match = h.match
      /\ h.after \subseteq u.after /\ \A a \in e.acts : a[2] = "after" => a[1] \in u.after
  BY <1>2, <1>3, ScheduleIs
<1> HIDE DEF u, t
<1>7. Quiet(s, u)
  BY <1>2, <1>6 DEF Quiet, SameRest, SameTriggers
<1>8. CASE ends
  BY <1>1, <1>4, <1>5, <1>8 DEF r, e
<1>9. CASE ~ends
  <2>1. \A a \in e.acts : a[2] = "after"
    BY <1>3, <1>9
  <2> HIDE DEF ends
  <2> QED
    BY <1>1, <1>2, <1>6, <1>7, <1>9, <2>1 DEF r, e, ends
<1> QED
  BY <1>8, <1>9

\* The triggers an access matches.
Matched(s, priv, hits, onlyBefore) ==
  {i \in Triggers :
     LET t == s.trig[i] IN
     /\ ~(onlyBefore /\ getTriggerAfter(t))
     /\ s.mode \in t.modes
     /\ \/ t.type = "ICOUNT"
        \/ /\ t.type = "ADMATCH" /\ priv \in t.priv /\ i \in hits
           /\ onlyBefore => t.dmode}

\* Triggers on an access: an action ends it, or the hart is as before but for
\* matches, hits and actions due.
LEMMA AccessIs ==
  ASSUME config \in Configs, NEW s, Good(s), NEW priv, NEW hits, NEW onlyBefore
  PROVE  LET r == doTriggerADMATCH(s, priv, hits, onlyBefore)
         IN  /\ r.ends => Acted(s, r.st) /\ r.acts # {}
             /\ ~r.ends => Quiet(s, r.st) /\ s.after \subseteq r.st.after
<1> DEFINE r == doTriggerADMATCH(s, priv, hits, onlyBefore)
           matched == Matched(s, priv, hits, onlyBefore)
           t == markTriggerMatched(s, matched)
           b == doTriggerBefore(t, hits)
<1>1. CASE s.dm \/ matched = {}
  <2>1. r = [acts |-> {}, ends |-> FALSE, st |-> s]
    BY <1>1, Zenon DEF doTriggerADMATCH, Matched
  <2>2. Quiet(s, s)
    BY DEF Quiet, SameRest, SameTriggers, SameSetting
  <2> QED
    BY <2>1, <2>2
<1>2. CASE ~(s.dm \/ matched = {})
  <2>1. r = b
    BY <1>2, Zenon DEF doTriggerADMATCH, Matched
  <2> HIDE DEF matched
  <2>2. Good(t) /\ SameRest(s, t) /\ t.trig = s.trig /\ t.after = s.after
    BY MarkIs
  <2>3. Quiet(s, t)
    BY <2>2 DEF Quiet, SameTriggers, SameSetting
  <2> HIDE DEF t
  <2>4. /\ ~b.ends => Quiet(t, b.st) /\ t.after \subseteq b.st.after
        /\ b.ends => Acted(t, b.st) /\ b.acts # {}
    BY <2>2, BeforeIs
  <2> QED
    BY <2>1, <2>2, <2>3, <2>4, QuietTwice
<1> QED
  BY <1>1, <1>2

-----------------------------------------------------------------------------
(* Writes of tdata1, reset, and the counts.                                *)

\* A write makes a well formed trigger, one of the debugger's in Debug mode only.
LEMMA UnpackIs ==
  ASSUME config \in Configs, NEW s, Good(s), NEW v \in TData1, v.type \in config.types
  PROVE  unpackTData1(s, v) \in TData1 /\ TrigOK(unpackTData1(s, v))
<1> DEFINE n == unpackTData1(s, v)
<1>1. /\ v.type \in Types /\ v.modes \in SUBSET Modes /\ v.action \in {0, 1}
      /\ v.priv \in SUBSET {"X", "R", "W"} /\ v.dmode \in BOOLEAN /\ v.timing \in BOOLEAN
      /\ v.chain \in BOOLEAN /\ v.pending \in BOOLEAN /\ v.nmi \in BOOLEAN /\ v.hit \in BOOLEAN
  BY DEF TData1
<1>2. s.dm => config.debugger
  BY DEF Good
<1>3. n \in TData1
  BY <1>1, Zenon DEF unpackTData1, TData1, mayWriteDMode
<1>4. /\ n.type = v.type /\ n.action = (IF n.dmode THEN v.action ELSE 0)
      /\ n.dmode => s.dm
      /\ n.pending => v.type = "ICOUNT"
      /\ n.chain => v.type = "ADMATCH"
      /\ v.type = "ICOUNT" => n.timing
  <2>1. /\ n.type = v.type /\ (n.dmode <=> v.dmode /\ mayWriteDMode(s, v.dmode) /\ ~(v.type \in {"NONE"}))
        /\ n.pending <=> v.type \in {"ICOUNT"} /\ config.v0_14 /\ v.pending
        /\ n.chain <=> v.type \in {"ADMATCH"} /\ v.chain
    BY Zenon DEF unpackTData1
  <2>2. n.timing = IF v.type \in {"ADMATCH"} THEN v.timing ELSE ~(v.type \in {"NONE"})
    BY Zenon DEF unpackTData1
  <2>3. n.action = IF n.dmode THEN v.action ELSE 0
    BY Zenon DEF unpackTData1
  <2>4. v.type = "ICOUNT" => ~(v.type \in {"ADMATCH"}) /\ ~(v.type \in {"NONE"})
    OBVIOUS
  <2>5. v.type = "ICOUNT" => n.timing
    BY <2>2, <2>4, Zenon
  <2> HIDE DEF n
  <2> QED
    BY <2>1, <2>3, <2>5 DEF mayWriteDMode
<1> HIDE DEF n
<1>5. TrigOK(n)
  BY <1>2, <1>4 DEF TrigOK
<1> QED
  BY <1>3, <1>5 DEF n

\* A write of tdata1 changes one trigger, and in Debug mode only one of the
\* debugger's.
LEMMA WriteIs ==
  ASSUME config \in Configs, NEW s, Good(s), NEW i \in Triggers, NEW v \in config.values
  PROVE  LET t == tdata1W(s, i, v)
         IN  /\ Good(t) /\ t.mode = s.mode /\ t.dm = s.dm /\ t.out \in {s.out, "write"}
             /\ \A k \in Triggers : (t.trig[k] = s.trig[k] /\ t.ran[k] = s.ran[k]) \/ t.ran[k] = 0
             /\ \A k \in Triggers : s.trig[k].dmode /\ ~s.dm => t.trig[k] = s.trig[k]
<1> DEFINE n == unpackTData1(s, v)
           x == [s.trig EXCEPT ![i] = n]
           y == [s.ran EXCEPT ![i] = 0]
           u == [s EXCEPT !.trig[i] = n, !.ran[i] = 0, !.out = "write"]
           t == riscvGetCurrentTriggers(u)
<1>0. /\ s \in HartRec /\ s.trig \in [Triggers -> TData1] /\ s.ran \in [Triggers -> 0..2]
      /\ \A k \in Triggers : TrigOK(s.trig[k])
  BY DEF Good, HartRec
<1>1. v \in TData1
  BY ConfigIs
<1>2. CASE ~(mayWriteTrigger(s, i) /\ v.type \in config.types)
  <2>1. tdata1W(s, i, v) = s
    BY <1>2, Zenon DEF tdata1W
  <2> QED
    BY <2>1
<1>3. CASE mayWriteTrigger(s, i) /\ v.type \in config.types
  <2>1. n \in TData1 /\ TrigOK(n)
    BY <1>1, <1>3, UnpackIs
  <2>2. tdata1W(s, i, v) \in {s, t}
    BY Zenon DEF tdata1W
  <2> HIDE DEF n
  <2>3. x \in [Triggers -> TData1] /\ y \in [Triggers -> 0..2]
    BY <1>0, <2>1
  <2>4. u = [s EXCEPT !.trig = x, !.ran = y, !.out = "write"]
    BY <1>0 DEF HartRec
  <2>5. /\ x[i] = n /\ y[i] = 0
        /\ \A k \in Triggers : k # i => x[k] = s.trig[k] /\ y[k] = s.ran[k]
    BY <1>0
  <2> HIDE DEF x, y, u
  <2>6. /\ u \in HartRec /\ u.trig = x /\ u.ran = y /\ u.out = "write" /\ u.mode = s.mode
        /\ u.dm = s.dm /\ u.trapped = s.trapped /\ u.MIE = s.MIE /\ u.mte = s.mte
    BY <1>0, <2>3, <2>4 DEF HartRec, Outs
  <2>7. \A k \in Triggers : TrigOK(x[k])
    BY <1>0, <2>1, <2>5
  <2>8. Good(u)
    BY <2>6, <2>7 DEF Good
  <2>9. Good(t) /\ SameRest(u, t) /\ t.trig = u.trig
    BY <2>8, CurrentIs
  <2> HIDE DEF t
  <2>10. \A k \in Triggers : s.trig[k].dmode /\ ~s.dm => t.trig[k] = s.trig[k]
    BY <1>3, <2>5, <2>6, <2>9 DEF mayWriteTrigger
  <2> QED
    BY <2>2, <2>5, <2>6, <2>9, <2>10 DEF SameRest
<1> QED
  BY <1>2, <1>3

\* The trigger after reset is well formed.
LEMMA ResetTriggerIs ==
  ASSUME config \in Configs
  PROVE  ResetTrigger \in TData1 /\ TrigOK(ResetTrigger)
<1>1. getTriggerResetType \in config.types
  BY ConfigIs DEF getTriggerResetType
<1>2. getTriggerResetType \in Types
  BY <1>1, ConfigIs
<1>3. ResetTrigger \in TData1
  <2>1. /\ (getTriggerResetType \in {"ICOUNT", "INTERRUPT", "EXCEPTION"}) \in BOOLEAN
        /\ {} \in SUBSET Modes /\ {} \in SUBSET {"X", "R", "W"} /\ 0 \in {0, 1}
    OBVIOUS
  <2> QED
    BY <1>2, <2>1, Zenon DEF ResetTrigger, TData1
<1>4. TrigOK(ResetTrigger)
  <2> DEFINE r == ResetTrigger
  <2>1. /\ r.type = getTriggerResetType /\ r.action = 0 /\ r.dmode = FALSE
        /\ r.pending = FALSE /\ r.chain = FALSE
        /\ r.timing = (getTriggerResetType \in {"ICOUNT", "INTERRUPT", "EXCEPTION"})
    BY Zenon DEF ResetTrigger
  <2>2. getTriggerResetType = "ICOUNT" => r.timing
    BY <2>1
  <2> HIDE DEF r
  <2>3. TrigOK(r)
    BY <1>1, <2>1, <2>2 DEF TrigOK
  <2> QED
    BY <2>3 DEF r
<1> QED
  BY <1>3, <1>4

\* Resetting the triggers.
LEMMA ResetIs ==
  ASSUME config \in Configs, NEW s, Good(s)
  PROVE  LET t == [resetTriggers(s) EXCEPT !.MIE = FALSE, !.MPIE = FALSE, !.MPP = U, !.out = "write"]
         IN  Good(t) /\ \A i \in Triggers : t.ran[i] = 0
<1> DEFINE x == [i \in Triggers |-> IF packTData1(s.trig[i]) = ResetTrigger
                                    THEN s.trig[i] ELSE ResetTrigger]
           y == [i \in Triggers |-> 2]
           z == [i \in Triggers |-> 0]
           u == resetTriggers(s)
           t == [u EXCEPT !.MIE = FALSE, !.MPIE = FALSE, !.MPP = U, !.out = "write"]
<1>0. s \in HartRec /\ s.trig \in [Triggers -> TData1] /\ \A k \in Triggers : TrigOK(s.trig[k])
  BY DEF Good, HartRec
<1>1. \A i \in Triggers : x[i] \in TData1 /\ TrigOK(x[i])
  BY <1>0, ResetTriggerIs
<1>2. x \in [Triggers -> TData1] /\ y \in [Triggers -> 0..2] /\ z \in [Triggers -> 0..2]
        /\ \A i \in Triggers : z[i] = 0
  BY <1>1
<1>3. u = [s EXCEPT !.trig = x, !.match = y, !.ran = z]
  BY Zenon DEF resetTriggers
<1> HIDE DEF x, y, z, u
<1>4. /\ u \in HartRec /\ u.trig = x /\ u.mode = s.mode /\ u.dm = s.dm
      /\ u.mte = s.mte /\ u.trapped = s.trapped /\ u.ran = z
  BY <1>0, <1>2, <1>3 DEF HartRec
<1>5. /\ t \in HartRec /\ t.trig = x /\ t.mode = s.mode /\ t.dm = s.dm
      /\ t.mte = s.mte /\ t.trapped = s.trapped /\ t.ran = z /\ t.MIE = FALSE
  BY <1>4 DEF HartRec, Outs, Modes
<1> HIDE DEF t
<1>6. Good(t)
  BY <1>1, <1>5 DEF Good
<1> QED
  BY <1>2, <1>5, <1>6 DEF t, u

\* The count advances: no match is of the current count.
LEMMA AdvanceIs ==
  ASSUME NEW s, Good(s)
  PROVE  LET t == advance(s)
         IN  /\ Good(t) /\ SameRest(s, t) /\ t.trig = s.trig /\ t.after = s.after
             /\ \A i \in Triggers : t.match[i] # 0 /\ (s.match[i] = 0 => t.match[i] = 1)
<1> DEFINE x == [i \in Triggers |-> IF s.match[i] = 2 THEN 2 ELSE s.match[i] + 1]
           t == [s EXCEPT !.match = x]
<1>0. s \in HartRec /\ s.match \in [Triggers -> 0..2] /\ \A i \in Triggers : TrigOK(s.trig[i])
  BY DEF Good, HartRec
<1>1. x \in [Triggers -> 0..2] /\ \A i \in Triggers : x[i] # 0 /\ (s.match[i] = 0 => x[i] = 1)
  BY <1>0
<1>2. advance(s) = t
  BY DEF advance
<1> HIDE DEF x
<1>3. t \in HartRec /\ SameRest(s, t) /\ t.trig = s.trig /\ t.match = x /\ t.after = s.after
  BY <1>0, <1>1, HartUpdates
<1> HIDE DEF t
<1>4. Good(t)
  BY <1>0, <1>3, GoodRest
<1> QED
  BY <1>1, <1>2, <1>3, <1>4

\* What a fetch that ends in a trap does to the count.
LEMMA AfterFetchIs ==
  ASSUME NEW s, Good(s)
  PROVE  LET t == afterFetch(s) IN Good(t) /\ SameRest(s, t) /\ t.trig = s.trig /\ t.after = s.after
BY AdvanceIs DEF afterFetch, SameRest

\* Instructions are counted.
LEMMA CountedIs ==
  ASSUME NEW s, Good(s)
  PROVE  LET t == counted(s)
         IN  /\ Good(t) /\ SameTriggers(s, t) /\ t.trig = s.trig /\ t.match = s.match /\ t.after = s.after
             /\ t.mode = s.mode /\ t.dm = s.dm /\ t.out = s.out /\ t.trapped = s.trapped
             /\ t.MPP = s.MPP /\ t.prv = s.prv
             /\ \A i \in Triggers :
                  t.ran[i] = s.ran[i] \/ (t.ran[i] = s.ran[i] + 1 /\ s.mode = U /\ firstInChain(s, i))
<1> DEFINE c(i) == /\ s.mode = U /\ ~s.dm /\ s.trig[i].type = "ICOUNT" /\ U \in s.trig[i].modes
                   /\ firstInChain(s, i) /\ s.ran[i] < 2
           x == [i \in Triggers |-> IF c(i) THEN s.ran[i] + 1 ELSE s.ran[i]]
           t == [s EXCEPT !.ran = x]
<1>0. s \in HartRec /\ s.ran \in [Triggers -> 0..2] /\ \A i \in Triggers : TrigOK(s.trig[i])
  BY DEF Good, HartRec
<1>1. \A i \in Triggers : x[i] = s.ran[i] \/ (x[i] = s.ran[i] + 1 /\ s.mode = U /\ firstInChain(s, i))
  OBVIOUS
<1>2. x \in [Triggers -> 0..2]
  <2>1. \A i \in Triggers : c(i) => s.ran[i] < 2
    OBVIOUS
  <2> HIDE DEF c
  <2> QED
    BY <1>0, <2>1
<1>3. counted(s) = t
  BY Zenon DEF counted
<1> HIDE DEF x
<1>4. /\ t \in HartRec /\ t.trig = s.trig /\ t.match = s.match /\ t.after = s.after
      /\ t.mode = s.mode /\ t.dm = s.dm /\ t.out = s.out /\ t.trapped = s.trapped
      /\ t.MPP = s.MPP /\ t.prv = s.prv /\ t.MIE = s.MIE /\ t.mte = s.mte /\ t.ran = x
  BY <1>0, <1>2 DEF HartRec
<1> HIDE DEF t
<1>5. Good(t) /\ SameTriggers(s, t)
  BY <1>0, <1>4 DEF Good, SameTriggers, SameSetting
<1> QED
  BY <1>1, <1>3, <1>4, <1>5

-----------------------------------------------------------------------------
(* The fetch.                                                              *)

\* t is hart s before its tests have taken any action, at a fetch or an access.
Ready(s, t) ==
  /\ Good(t) /\ SameTriggers(s, t)
  /\ t.mode = s.mode /\ t.dm = s.dm /\ t.trapped = s.trapped
  /\ t.prv = s.prv /\ t.MPP = s.MPP /\ t.out = "none"

\* A fetch starts with the hart as it is.
LEMMA BeginIs ==
  ASSUME Good(hart)
  PROVE  /\ Good(begin) /\ Ready(hart, begin) /\ begin.trig = hart.trig /\ begin.match = hart.match
         /\ begin.after = hart.after /\ begin.ran = hart.ran
<1>0. hart \in HartRec
  BY DEF Good
<1>1. /\ begin \in HartRec /\ begin.trig = hart.trig /\ begin.match = hart.match
      /\ begin.after = hart.after /\ begin.mode = hart.mode /\ begin.dm = hart.dm
      /\ begin.trapped = hart.trapped /\ begin.prv = hart.prv /\ begin.MPP = hart.MPP
      /\ begin.MIE = hart.MIE /\ begin.mte = hart.mte /\ begin.out = "none" /\ begin.ran = hart.ran
  BY <1>0 DEF HartRec, begin, Outs
<1>2. Good(begin)
  BY <1>1 DEF Good
<1> QED
  BY <1>1, <1>2 DEF Ready, SameTriggers, SameSetting

\* Tests that take no action leave the hart ready.
LEMMA ReadyQuiet ==
  ASSUME NEW s, NEW t, Ready(s, t), NEW u, Quiet(t, u)
  PROVE  Ready(s, u)
BY DEF Ready, Quiet, SameRest, SameTriggers, SameSetting

\* What the tests of a fetch find, one after the other.
LEMMA FetchIs ==
  ASSUME config \in Configs, Good(hart), NEW hits, NEW f, f = fetch(hits)
  PROVE  /\ f.debug.acts # {} => Acted(begin, f.debug.st) /\ f.debug.st.dm
         /\ f.debug.acts = {} => Quiet(begin, f.debug.st)
         /\ f.debug.acts = {} /\ f.x0.acts # {} => Acted(begin, f.x0.st) \/ Quiet(begin, f.x0.st)
         /\ f.debug.acts = {} /\ f.x0.acts = {} => Quiet(begin, f.x0.st)
         /\ f.debug.acts = {} /\ f.x0.acts = {} /\ f.bkpt.acts # {} => Acted(begin, f.bkpt.st)
         /\ f.done => Quiet(begin, f.bkpt.st)
         /\ f.done /\ f.x.ends => Acted(begin, f.x.st)
         /\ f.done /\ ~f.x.ends => Quiet(begin, f.x.st)
<1> DEFINE d == doTriggerAfter(begin, "debug", hits)
           x0 == IF X_H THEN doTriggerADMATCH(d.st, "X", hits, TRUE)
                 ELSE [acts |-> {}, ends |-> FALSE, st |-> d.st]
           bk == doTriggerAfter(x0.st, "bkpt", hits)
           x == doTriggerADMATCH(bk.st, "X", hits, FALSE)
<1>1. /\ f.debug = d /\ f.x0 = x0 /\ f.bkpt = bk /\ f.x = x
      /\ f.done <=> d.acts = {} /\ x0.acts = {} /\ bk.acts = {}
  BY Zenon DEF fetch
<1>2. Good(begin)
  BY BeginIs
<1>3. /\ d.acts = {} => Quiet(begin, d.st)
      /\ d.acts # {} => Acted(begin, d.st) /\ d.st.dm
  BY <1>2, AfterIs
<1> HIDE DEF d
<1>4. ASSUME d.acts = {}
      PROVE  /\ x0.acts = {} => Quiet(begin, x0.st)
             /\ x0.acts # {} => Acted(begin, x0.st) \/ Quiet(begin, x0.st)
  <2>1. Good(d.st) /\ Quiet(begin, d.st)
    BY <1>3, <1>4 DEF Quiet
  <2>2. CASE X_H
    <3>1. x0 = doTriggerADMATCH(d.st, "X", hits, TRUE)
      BY <2>2
    <3> HIDE DEF x0
    <3>2. /\ x0.ends => Acted(d.st, x0.st) /\ x0.acts # {}
          /\ ~x0.ends => Quiet(d.st, x0.st)
      BY <2>1, <3>1, AccessIs
    <3> QED
      BY <2>1, <3>2, QuietTwice
  <2>3. CASE ~X_H
    <3>1. x0.st = d.st /\ x0.acts = {}
      BY <2>3
    <3> QED
      BY <2>1, <3>1
  <2> QED
    BY <2>2, <2>3
<1> HIDE DEF x0
<1>5. ASSUME d.acts = {}, x0.acts = {}
      PROVE  /\ bk.acts = {} => Quiet(begin, bk.st)
             /\ bk.acts # {} => Acted(begin, bk.st)
  <2>1. Good(x0.st) /\ Quiet(begin, x0.st)
    BY <1>4, <1>5 DEF Quiet
  <2>2. /\ bk.acts = {} => Quiet(x0.st, bk.st)
        /\ bk.acts # {} => Acted(x0.st, bk.st)
    BY <2>1, AfterIs
  <2> QED
    BY <2>1, <2>2, QuietTwice
<1> HIDE DEF bk
<1>6. ASSUME d.acts = {}, x0.acts = {}, bk.acts = {}
      PROVE  /\ x.ends => Acted(begin, x.st)
             /\ ~x.ends => Quiet(begin, x.st)
  <2>1. Good(bk.st) /\ Quiet(begin, bk.st)
    BY <1>5, <1>6 DEF Quiet
  <2>2. /\ x.ends => Acted(bk.st, x.st)
        /\ ~x.ends => Quiet(bk.st, x.st)
    BY <2>1, AccessIs
  <2> QED
    BY <2>1, <2>2, QuietTwice, ZenonT(60)
<1> HIDE DEF x
<1> QED
  BY <1>1, <1>3, <1>4, <1>5, <1>6

-----------------------------------------------------------------------------
(* Steps.                                                                  *)

(***************************************************************************)
(* What every step other than reset does: the hart stays well formed, a    *)
(* breakpoint is not taken in a handler, and the debugger's triggers are   *)
(* kept outside Debug mode.                                                *)
(***************************************************************************)
Step(s, t) ==
  /\ Good(t)
  /\ t.out = "bkptM" => ~s.trapped
  /\ ~s.dm => \A i \in Triggers : s.trig[i].dmode => KeptTrig(s.trig[i], t.trig[i])

\* Steps from a hart that is ready, with or without an action.
LEMMA ReadySteps ==
  ASSUME NEW s, NEW t, Ready(s, t), NEW u
  PROVE  /\ Quiet(t, u) => Step(s, u)
         /\ Acted(t, u) => Step(s, u)
         /\ Good(u) /\ Kept(t, u) /\ u.out = t.out => Step(s, u)
<1>1. Kept(s, t) /\ t.out = "none" /\ t.trapped = s.trapped
  BY SameKept DEF Ready
<1>2. Kept(t, u) => Kept(s, u)
  BY <1>1, KeptTwice
<1>3. Quiet(t, u) => Kept(t, u) /\ u.out = t.out /\ Good(u)
  BY SameKept DEF Quiet, SameRest
<1>4. ASSUME Good(u), Kept(t, u), u.out = t.out
      PROVE  Step(s, u)
  BY <1>1, <1>2, <1>4 DEF Step, Kept
<1>5. ASSUME Acted(t, u)
      PROVE  Step(s, u)
  BY <1>1, <1>2, <1>5 DEF Step, Kept, Acted
<1> QED
  BY <1>3, <1>4, <1>5

\* The count does not matter.
LEMMA StepCounts ==
  ASSUME NEW s, NEW t, Step(s, t)
  PROVE  Step(s, advance(t)) /\ Step(s, afterFetch(t))
<1>1. Good(t)
  BY DEF Step
<1>2. /\ Good(advance(t)) /\ SameRest(t, advance(t)) /\ advance(t).trig = t.trig
      /\ Good(afterFetch(t)) /\ SameRest(t, afterFetch(t)) /\ afterFetch(t).trig = t.trig
  BY <1>1, AdvanceIs, AfterFetchIs
<1> QED
  BY <1>2 DEF Step, SameRest

\* Steps that end at the fetch.
LEMMA FetchSteps ==
  ASSUME config \in Configs, Good(hart), NEW hits, NEW f, f = fetch(hits),
         \/ FetchHalt(f) \/ FetchAfterDebug(f) \/ FetchX0(f)
         \/ FetchAfterBreakpoint(f) \/ FetchNMI(f) \/ FetchInterrupt(f)
  PROVE  Step(hart, hart') /\ config' = config
<1>1. Good(begin) /\ Ready(hart, begin)
  BY BeginIs
<1>2. \A t : Quiet(begin, t) => Ready(hart, t) /\ Good(t)
  BY <1>1, ReadyQuiet DEF Quiet
<1>3. \A t : Quiet(begin, t) \/ Acted(begin, t) => Step(hart, t)
  BY <1>1, ReadySteps
<1>4. \A t : Step(hart, t) => Step(hart, afterFetch(t))
  BY StepCounts
<1>5. /\ f.debug.acts # {} => Acted(begin, f.debug.st) /\ f.debug.st.dm
      /\ f.debug.acts = {} => Quiet(begin, f.debug.st)
      /\ f.debug.acts = {} /\ f.x0.acts # {} => Acted(begin, f.x0.st) \/ Quiet(begin, f.x0.st)
      /\ f.debug.acts = {} /\ f.x0.acts = {} => Quiet(begin, f.x0.st)
      /\ f.debug.acts = {} /\ f.x0.acts = {} /\ f.bkpt.acts # {} => Acted(begin, f.bkpt.st)
      /\ f.done => Quiet(begin, f.bkpt.st)
  BY FetchIs
<1>6. CASE FetchHalt(f)
  <2>1. ASSUME NEW t, Ready(hart, t), config.debugger
        PROVE  Step(hart, enterDM(t))
    <3> DEFINE u == enterDM(t)
    <3>1. Good(u) /\ SameCore(t, u)
      BY <2>1, EnterDMIs DEF Ready
    <3> HIDE DEF u
    <3>2. Kept(t, u) /\ u.out = t.out
      BY <3>1, SameKept DEF SameCore
    <3>3. Step(hart, u)
      BY <2>1, <3>1, <3>2, ReadySteps
    <3> QED
      BY <3>3 DEF u
  <2>2. PICK t : Ready(hart, t) /\ become(afterFetch(enterDM(t))) /\ config.debugger
    BY <1>1, <1>2, <1>5, <1>6, Zenon DEF FetchHalt
  <2>3. Step(hart, enterDM(t))
    BY <2>1, <2>2
  <2> QED
    BY <1>4, <2>2, <2>3 DEF become
<1>7. CASE FetchAfterDebug(f)
  BY <1>3, <1>4, <1>5, <1>7, Zenon DEF FetchAfterDebug, become
<1>8. CASE FetchX0(f)
  BY <1>3, <1>4, <1>5, <1>8, Zenon DEF FetchX0, become
<1>9. CASE FetchAfterBreakpoint(f)
  BY <1>3, <1>4, <1>5, <1>9, Zenon DEF FetchAfterBreakpoint, become
<1>10. CASE FetchNMI(f)
  <2> DEFINE t == f.bkpt.st
             u == doNMI(t)
  <2>1. Ready(hart, t) /\ Good(t) /\ hart' = afterFetch(u) /\ config' = config
    BY <1>2, <1>5, <1>10 DEF FetchNMI, become
  <2> HIDE DEF t
  <2>2. Good(u) /\ Kept(t, u) /\ u.out = t.out
    BY <2>1, NMIIs
  <2> HIDE DEF u
  <2>3. Step(hart, u)
    BY <2>1, <2>2, ReadySteps
  <2> QED
    BY <1>4, <2>1, <2>3
<1>11. CASE FetchInterrupt(f)
  <2> DEFINE t == f.bkpt.st
             u == riscvTakeException(t, "INTERRUPT", f.hits)
  <2>1. Ready(hart, t) /\ Good(t) /\ hart' = afterFetch(u) /\ config' = config
    BY <1>2, <1>5, <1>11 DEF FetchInterrupt, become
  <2> HIDE DEF t
  <2>2. Good(u) /\ Kept(t, u) /\ u.out = t.out
    BY <2>1, ExceptionIs
  <2> HIDE DEF u
  <2>3. Step(hart, u)
    BY <2>1, <2>2, ReadySteps
  <2> QED
    BY <1>4, <2>1, <2>3
<1> QED
  BY <1>6, <1>7, <1>8, <1>9, <1>10, <1>11

-----------------------------------------------------------------------------
(* Instructions.                                                           *)

riscvMRETof(s) ==
  IF s.dm THEN s
  ELSE riscvSetMode([s EXCEPT !.MIE = s.MPIE, !.MPIE = TRUE, !.MPP = U,
                              !.mte = s.mpte, !.trapped = FALSE], s.MPP)

TcontrolWof(s, mte, mpte) == [s EXCEPT !.mte = mte, !.mpte = mpte, !.trapped = FALSE]

MstatusWof(s, MIE) ==
  riscvGetCurrentTriggers([s EXCEPT !.MIE = MIE, !.trapped = @ /\ config.tcontrol])

\* The effects of instructions that do not write triggers.
Plain(t, u) == Good(u) /\ u.trig = t.trig /\ u.out = t.out /\ u.ran = t.ran

\* Returns from traps, and writes of tcontrol and mstatus.
LEMMA PlainOps ==
  ASSUME config \in Configs, NEW t, Good(t), NEW mte \in BOOLEAN, NEW mpte \in BOOLEAN
  PROVE  /\ Plain(t, riscvMRETof(t)) /\ Plain(t, leaveDM(t))
         /\ Plain(t, TcontrolWof(t, mte, mpte))
         /\ Plain(t, MstatusWof(t, mte))
<1>0. t \in HartRec /\ t.MPP \in Modes
  BY DEF Good, HartRec
<1>1. Plain(t, riscvMRETof(t))
  <2> DEFINE u == [t EXCEPT !.MIE = t.MPIE, !.MPIE = TRUE, !.MPP = U,
                            !.mte = t.mpte, !.trapped = FALSE]
             v == riscvSetMode(u, t.MPP)
  <2>1. CASE t.dm
    BY <2>1 DEF riscvMRETof, Plain
  <2>2. CASE ~t.dm
    <3>1. /\ u \in HartRec /\ u.trig = t.trig /\ u.out = t.out /\ u.ran = t.ran
          /\ u.dm = t.dm /\ u.trapped = FALSE
      BY <1>0 DEF HartRec, Modes
    <3>a. riscvMRETof(t) = v
      BY <2>2, Zenon DEF riscvMRETof
    <3> HIDE DEF u
    <3>2. Good(u)
      BY <2>2, <3>1 DEF Good
    <3>3. Good(v) /\ SameCore(u, v)
      BY <1>0, <2>2, <3>1, <3>2, SetModeIs
    <3> QED
      BY <3>1, <3>3, <3>a DEF SameCore, Plain
  <2> QED
    BY <2>1, <2>2
<1>2. Plain(t, leaveDM(t))
  BY LeaveDMIs DEF Plain, SameCore
<1>3. Plain(t, TcontrolWof(t, mte, mpte))
  <2> DEFINE u == TcontrolWof(t, mte, mpte)
  <2>1. /\ u \in HartRec /\ u.trig = t.trig /\ u.out = t.out /\ u.ran = t.ran
        /\ u.dm = t.dm /\ u.mode = t.mode /\ u.trapped = FALSE
    BY <1>0 DEF HartRec, TcontrolWof
  <2> HIDE DEF u
  <2>2. Good(u)
    BY <2>1 DEF Good
  <2>3. Plain(t, u)
    BY <2>1, <2>2 DEF Plain
  <2> QED
    BY <2>3 DEF u
<1>4. Plain(t, MstatusWof(t, mte))
  <2> DEFINE b == t.trapped /\ config.tcontrol
             u == [t EXCEPT !.MIE = mte, !.trapped = b]
  <2>1. b \in BOOLEAN
    OBVIOUS
  <2>2. MstatusWof(t, mte) = riscvGetCurrentTriggers(u)
    BY Zenon DEF MstatusWof
  <2>3. b => t.trapped /\ config.tcontrol
    OBVIOUS
  <2> HIDE DEF b
  <2>4. /\ u \in HartRec /\ u.trig = t.trig /\ u.out = t.out /\ u.ran = t.ran
        /\ u.dm = t.dm /\ u.mode = t.mode /\ u.trapped = b /\ u.mte = t.mte
    BY <1>0, <2>1 DEF HartRec
  <2> HIDE DEF u
  <2>5. Good(u)
    BY <2>3, <2>4 DEF Good
  <2> QED
    BY <2>2, <2>4, <2>5, CurrentIs DEF Plain, SameRest
<1> QED
  BY <1>1, <1>2, <1>3, <1>4

\* u is an effect an instruction can have on a counted hart t.
Effect(f, t, u) ==
  \/ \E acc \in config.ops \cap {"R", "W"}, data \in SUBSET Comparing :
       u = doTriggerADMATCH(t, acc, data, FALSE).st
  \/ u = riscvTakeException(t, "EXCEPTION", f.hits)
  \/ hart.mode = M /\ u = riscvMRETof(t)
  \/ hart.dm /\ u = leaveDM(t)
  \/ hart.mode = M /\ \E i \in Triggers, v \in config.values : u = tdata1W(t, i, v)
  \/ hart.mode = M /\ \E mte, mpte \in BOOLEAN : u = TcontrolWof(t, mte, mpte)
  \/ hart.mode = M /\ \E MIE \in BOOLEAN : u = MstatusWof(t, MIE)

Instruction(f) ==
  \/ Access(f) \/ Exception(f) \/ riscvMRET(f) \/ riscvDRET(f)
  \/ Tdata1W(f) \/ TcontrolW(f) \/ MstatusW(f)

\* An instruction is ended by an action before it, or has its effect.
LEMMA InstructionIs ==
  ASSUME NEW f, Instruction(f)
  PROVE  /\ f.done /\ config' = config
         /\ \/ f.x.ends /\ hart' = advance(f.x.st)
            \/ ~f.x.ends /\ \E u : Effect(f, counted(f.x.st), u) /\ hart' = advance(u)
<1> DEFINE t == counted(f.x.st)
           Done(u) == f.done /\ become(advance(IF f.x.ends THEN f.x.st ELSE u))
<1>1. PICK u : Done(u) /\ Effect(f, t, u)
  <2>1. CASE Access(f)
    <3>1. PICK acc \in config.ops \cap {"R", "W"}, data \in SUBSET Comparing :
            Done(doTriggerADMATCH(t, acc, data, FALSE).st)
      BY <2>1, Zenon DEF Access, execute
    <3>2. Effect(f, t, doTriggerADMATCH(t, acc, data, FALSE).st)
      BY Zenon DEF Effect
    <3> QED
      BY <3>1, <3>2, Zenon
  <2>2. CASE Exception(f)
    <3>1. Done(riscvTakeException(t, "EXCEPTION", f.hits))
      BY <2>2, Zenon DEF Exception, execute
    <3> QED
      BY <3>1, Zenon DEF Effect
  <2>3. CASE riscvMRET(f)
    <3>1. Done(riscvMRETof(t)) /\ hart.mode = M
      BY <2>3, Zenon DEF riscvMRET, execute, riscvMRETof
    <3> QED
      BY <3>1, Zenon DEF Effect
  <2>4. CASE riscvDRET(f)
    <3>1. Done(leaveDM(t)) /\ hart.dm
      BY <2>4, Zenon DEF riscvDRET, execute
    <3> QED
      BY <3>1, Zenon DEF Effect
  <2>5. CASE Tdata1W(f)
    <3>1. PICK i \in Triggers, v \in config.values : Done(tdata1W(t, i, v)) /\ hart.mode = M
      BY <2>5, Zenon DEF Tdata1W, execute
    <3>2. Effect(f, t, tdata1W(t, i, v))
      BY <3>1, Zenon DEF Effect
    <3> QED
      BY <3>1, <3>2, Zenon
  <2>6. CASE TcontrolW(f)
    <3>1. PICK mte \in BOOLEAN, mpte \in BOOLEAN : Done(TcontrolWof(t, mte, mpte)) /\ hart.mode = M
      BY <2>6, Zenon DEF TcontrolW, execute, TcontrolWof
    <3>2. Effect(f, t, TcontrolWof(t, mte, mpte))
      BY <3>1, Zenon DEF Effect
    <3> QED
      BY <3>1, <3>2, Zenon
  <2>7. CASE MstatusW(f)
    <3>1. PICK MIE \in BOOLEAN : Done(MstatusWof(t, MIE)) /\ hart.mode = M
      BY <2>7, Zenon DEF MstatusW, execute, MstatusWof
    <3>2. Effect(f, t, MstatusWof(t, MIE))
      BY <3>1, Zenon DEF Effect
    <3> QED
      BY <3>1, <3>2, Zenon
  <2> QED
    BY <2>1, <2>2, <2>3, <2>4, <2>5, <2>6, <2>7 DEF Instruction
<1>2. CASE f.x.ends
  BY <1>1, <1>2, Zenon DEF become
<1>3. CASE ~f.x.ends
  BY <1>1, <1>3, Zenon DEF become
<1> QED
  BY <1>2, <1>3

\* Steps that execute an instruction.
LEMMA InstructionSteps ==
  ASSUME config \in Configs, Good(hart), NEW hits, NEW f, f = fetch(hits), Instruction(f)
  PROVE  Step(hart, hart') /\ config' = config
<1>1. Good(begin) /\ Ready(hart, begin)
  BY BeginIs
<1>2. /\ f.done /\ f.x.ends => Acted(begin, f.x.st)
      /\ f.done /\ ~f.x.ends => Quiet(begin, f.x.st)
  BY FetchIs
<1>3. PICK t : /\ hart' = advance(t) /\ config' = config /\ f.done
               /\ (f.x.ends /\ t = f.x.st) \/ (~f.x.ends /\ Effect(f, counted(f.x.st), t))
  <2>1. /\ f.done /\ config' = config
        /\ \/ f.x.ends /\ hart' = advance(f.x.st)
           \/ ~f.x.ends /\ \E u : Effect(f, counted(f.x.st), u) /\ hart' = advance(u)
    BY InstructionIs
  <2> QED
    BY <2>1, Zenon
<1>4. Step(hart, t)
  <2>1. CASE f.x.ends
    BY <1>1, <1>2, <1>3, <2>1, ReadySteps
  <2>2. CASE ~f.x.ends
    <3> DEFINE c == counted(f.x.st)
    <3>1. Ready(hart, f.x.st) /\ Good(f.x.st)
      BY <1>1, <1>2, <1>3, <2>2, ReadyQuiet DEF Quiet
    <3>2. Good(c) /\ Ready(hart, c)
      BY <3>1, CountedIs DEF Ready, SameTriggers
    <3>3. Effect(f, c, t)
      BY <1>3, <2>2
    <3> HIDE DEF c
    <3>4. \A u : Plain(c, u) => Step(hart, u)
      BY <3>2, ReadySteps, SameKept DEF Plain
    <3>5. ASSUME NEW acc \in config.ops \cap {"R", "W"}, NEW data \in SUBSET Comparing,
                 t = doTriggerADMATCH(c, acc, data, FALSE).st
          PROVE  Step(hart, t)
      <4>1. Quiet(c, t) \/ Acted(c, t)
        BY <3>2, <3>5, AccessIs
      <4> QED
        BY <3>2, <4>1, ReadySteps
    <3>6. ASSUME t = riscvTakeException(c, "EXCEPTION", f.hits)
          PROVE  Step(hart, t)
      <4>1. Good(t) /\ Kept(c, t) /\ t.out = c.out
        BY <3>2, <3>6, ExceptionIs
      <4> QED
        BY <3>2, <4>1, ReadySteps
    <3>7. ASSUME NEW i \in Triggers, NEW v \in config.values, t = tdata1W(c, i, v)
          PROVE  Step(hart, t)
      <4>1. /\ Good(t) /\ t.out \in {c.out, "write"}
            /\ \A k \in Triggers : c.trig[k].dmode /\ ~c.dm => t.trig[k] = c.trig[k]
        BY <3>2, <3>7, WriteIs
      <4>2. c.out = "none" /\ c.dm = hart.dm /\ SameTriggers(hart, c)
        BY <3>2 DEF Ready
      <4>3. ASSUME NEW k \in Triggers, hart.trig[k].dmode, ~hart.dm
            PROVE  KeptTrig(hart.trig[k], t.trig[k])
        BY <4>1, <4>2, <4>3 DEF SameTriggers, SameSetting, KeptTrig
      <4> QED
        BY <4>1, <4>2, <4>3 DEF Step
    <3>8. \A mte \in BOOLEAN, mpte \in BOOLEAN :
            /\ Plain(c, riscvMRETof(c)) /\ Plain(c, leaveDM(c))
            /\ Plain(c, TcontrolWof(c, mte, mpte)) /\ Plain(c, MstatusWof(c, mte))
      BY <3>2, PlainOps
    <3>9. TRUE \in BOOLEAN
      OBVIOUS
    <3> QED
      BY <3>3, <3>4, <3>5, <3>6, <3>7, <3>8, <3>9, Zenon DEF Effect
  <2> QED
    BY <2>1, <2>2
<1> QED
  BY <1>3, <1>4, StepCounts

-----------------------------------------------------------------------------
(* Reset, the initial state, and what every step does.                     *)

\* Reset makes a well formed hart under which nothing has run.
LEMMA ResetSteps ==
  ASSUME config \in Configs, Good(hart), riscvReset
  PROVE  /\ Good(hart') /\ config' = config /\ hart'.out = "write"
         /\ \A i \in Triggers : hart'.ran[i] = 0
<1> DEFINE s == IF begin.dm THEN leaveDM(begin) ELSE begin
           m == riscvSetMode(s, M)
           t == [resetTriggers(m) EXCEPT !.MIE = FALSE, !.MPIE = FALSE, !.MPP = U, !.out = "write"]
<1>1. Good(s)
  <2>1. Good(begin)
    BY BeginIs
  <2> QED
    BY <2>1, LeaveDMIs
<1>2. hart' = t /\ config' = config
  BY Zenon DEF riscvReset, become
<1> HIDE DEF s
<1>3. Good(m)
  BY <1>1, SetModeIs DEF Modes
<1> HIDE DEF m
<1>4. Good(t) /\ \A i \in Triggers : t.ran[i] = 0
  BY <1>3, ResetIs
<1>5. t.out = "write"
  <2>1. resetTriggers(m) \in HartRec
    <3>1. /\ m \in HartRec
          /\ \A i \in Triggers : m.trig[i] \in TData1
      BY <1>3 DEF Good, HartRec
    <3> DEFINE x == [i \in Triggers |-> IF packTData1(m.trig[i]) = ResetTrigger
                                        THEN m.trig[i] ELSE ResetTrigger]
               y == [i \in Triggers |-> 2]
               z == [i \in Triggers |-> 0]
    <3>2. x \in [Triggers -> TData1] /\ y \in [Triggers -> 0..2] /\ z \in [Triggers -> 0..2]
      BY <3>1, ResetTriggerIs
    <3>3. resetTriggers(m) = [m EXCEPT !.trig = x, !.match = y, !.ran = z]
      BY Zenon DEF resetTriggers
    <3> HIDE DEF x, y, z
    <3> QED
      BY <3>1, <3>2, <3>3 DEF HartRec
  <2> QED
    BY <2>1 DEF HartRec
<1> QED
  BY <1>2, <1>4, <1>5

\* A step is a reset, or a step as above, at the fetch or of an instruction.
LEMMA NextIs ==
  ASSUME config \in Configs, Good(hart), Next
  PROVE  riscvReset \/ (Step(hart, hart') /\ config' = config)
<1>1. CASE riscvReset
  BY <1>1
<1>2. CASE \E hits \in SUBSET Comparing : \E f \in {fetch(hits)} :
             \/ FetchHalt(f) \/ FetchAfterDebug(f) \/ FetchX0(f)
             \/ FetchAfterBreakpoint(f) \/ FetchNMI(f) \/ FetchInterrupt(f)
             \/ Instruction(f)
  <2>1. PICK hits, f : /\ f = fetch(hits)
                       /\ \/ \/ FetchHalt(f) \/ FetchAfterDebug(f) \/ FetchX0(f)
                             \/ FetchAfterBreakpoint(f) \/ FetchNMI(f) \/ FetchInterrupt(f)
                          \/ Instruction(f)
    BY <1>2, Zenon
  <2> QED
    BY <2>1, FetchSteps, InstructionSteps
<1> QED
  BY <1>1, <1>2, Zenon DEF Next, Instruction

\* Well-formedness does not depend on the step.
LEMMA GoodPrime ==
  ASSUME Good(hart'), config' = config
  PROVE  Good(hart)'
BY DEF Good, HartRec, TrigOK, Triggers

IInv == config \in Configs /\ Good(hart)

\* The hart is well formed at the start.
LEMMA InitGood ==
  ASSUME Init
  PROVE  IInv
<1> DEFINE x == [i \in Triggers |-> ResetTrigger]
           y == [i \in Triggers |-> 2]
           z == [i \in Triggers |-> 0]
<1>1. config \in Configs
  BY DEF Init
<1>2. ResetTrigger \in TData1 /\ TrigOK(ResetTrigger)
  BY <1>1, ResetTriggerIs
<1>3. /\ x \in [Triggers -> TData1] /\ y \in [Triggers -> 0..2] /\ z \in [Triggers -> 0..2]
      /\ \A i \in Triggers : TrigOK(x[i])
  BY <1>2
<1>4. hart = [trig |-> x, match |-> y, mode |-> M, dm |-> FALSE, prv |-> M, MPP |-> U,
              MIE |-> FALSE, MPIE |-> FALSE, mte |-> FALSE, mpte |-> FALSE, after |-> {},
              out |-> "none", ran |-> z, trapped |-> FALSE]
  BY Zenon DEF Init, InitHart
<1> HIDE DEF x, y, z
<1>5. hart \in HartRec
  BY <1>3, <1>4 DEF HartRec, Modes, Outs
<1>6. Good(hart)
  BY <1>3, <1>4, <1>5 DEF Good
<1> QED
  BY <1>1, <1>6 DEF IInv

\* Steps preserve it.
LEMMA NextGood ==
  ASSUME IInv, [Next]_vars
  PROVE  IInv'
<1>1. CASE Next
  <2>1. Good(hart') /\ config' = config
    BY <1>1, NextIs, ResetSteps DEF IInv, Step
  <2>2. Good(hart)'
    BY <2>1, GoodPrime
  <2> QED
    BY <2>1, <2>2 DEF IInv
<1>2. CASE UNCHANGED vars
  BY <1>2 DEF IInv, vars, Good, HartRec, TrigOK, Triggers
<1> QED
  BY <1>1, <1>2

\* The hart stays well formed.
LEMMA AlwaysGood == Spec => []IInv
<1>1. Init => IInv
  BY InitGood
<1>2. IInv /\ [Next]_vars => IInv'
  BY NextGood
<1> QED
  BY <1>1, <1>2, PTL DEF Spec

\* Types of the state: whatever writes, traps and resets come, entry to Debug mode
\* is an action of the debugger's triggers only (unpackTData1).
THEOREM TypeCorrect == Spec => []TypeOK
<1>1. IInv => TypeOK
  <2> SUFFICES ASSUME IInv
               PROVE  TypeOK
    OBVIOUS
  <2>1. config \in Configs /\ Good(hart)
    BY DEF IInv
  <2> QED
    BY <2>1 DEF Good, HartRec, TrigOK, TypeOK
<1> QED
  BY <1>1, AlwaysGood, PTL

\* No breakpoint is taken in M mode between a trap and the end of its handler, unless
\* software enabled breakpoints there (breakpointEnabled).
THEOREM NoBreakpointNests == Spec => NoNestedBreakpoint
<1>1. IInv /\ [Next]_vars => [hart'.out = "bkptM" => ~hart.trapped]_vars
  <2> SUFFICES ASSUME IInv, Next
               PROVE  hart'.out = "bkptM" => ~hart.trapped
    BY DEF vars
  <2>1. CASE riscvReset
    BY <2>1, ResetSteps DEF IInv
  <2>2. CASE Step(hart, hart')
    BY <2>2 DEF Step
  <2> QED
    BY <2>1, <2>2, NextIs DEF IInv
<1> QED
  BY <1>1, AlwaysGood, PTL DEF Spec, NoNestedBreakpoint

\* Outside Debug mode only reset changes the debugger's triggers (mayWriteTrigger).
THEOREM DebuggerIsKept == Spec => DebuggerKeeps
<1> DEFINE Keeps == \A i \in Triggers :
                      LET t == hart.trig[i]
                          n == hart'.trig[i]
                      IN (t.dmode /\ ~hart.dm /\ ~riscvReset) =>
                           setting(n) = setting(t) /\ n.modes \in {t.modes, {}}
<1>1. IInv /\ [Next]_vars => [Keeps]_vars
  <2> SUFFICES ASSUME IInv, Next, ~riscvReset, ~hart.dm, NEW i \in Triggers, hart.trig[i].dmode
               PROVE  setting(hart'.trig[i]) = setting(hart.trig[i])
                        /\ hart'.trig[i].modes \in {hart.trig[i].modes, {}}
    BY DEF vars
  <2>1. Step(hart, hart')
    BY NextIs DEF IInv
  <2>2. KeptTrig(hart.trig[i], hart'.trig[i])
    BY <2>1 DEF Step
  <2>3. hart.trig[i] \in TData1 /\ hart'.trig[i] \in TData1
    BY <2>1 DEF IInv, Step, Good, HartRec
  <2> QED
    BY <2>2, <2>3, SettingIs DEF KeptTrig
<1> QED
  BY <1>1, AlwaysGood, PTL DEF Spec, DebuggerKeeps

-----------------------------------------------------------------------------
(* Delivery of an entry to Debug mode.                                     *)

\* A trigger that is its own chain, fires after the instruction and recorded the
\* count of that age has its action due.
LEMMA AloneFires ==
  ASSUME config \in Configs, NEW s, NEW i \in Triggers, NEW age,
         firstInChain(s, i), ~s.trig[i].chain, s.match[i] = age,
         s.trig[i].action = 1 \/ breakpointEnabled(s)
  PROVE  /\ Fires(s, i, age) /\ chainEnd(s, i) = i
         /\ actionOf(s, i) = <<IF s.trig[i].action = 1 THEN "debug" ELSE "bkpt",
                               IF getTriggerAfter(s.trig[i]) THEN "after" ELSE "before">>
<1>1. chainEnd(s, i) = i
  BY SingleChain
<1>2. i \in Nat
  BY ConfigIs DEF Triggers
<1>3. \A k \in i..i : k = i
  BY <1>2
<1>4. matchChain(s, i, age)
  BY <1>1, <1>3 DEF matchChain
<1> QED
  BY <1>1, <1>4 DEF Fires, actionOf

\* Entry to Debug mode that a trigger asked for after an instruction comes at the
\* very next fetch: the fetch tests it first, but for haltreq, which enters it too.
THEOREM DebugIsDelivered == Spec => DebugDelivered
<1> DEFINE Due == /\ "debug" \in hart.after /\ ~hart.dm /\ ~riscvReset
                  /\ \E i \in Triggers :
                       LET t == hart.trig[i]
                       IN /\ t.type = "ADMATCH" /\ t.action = 1 /\ t.timing /\ hart.match[i] = 1
                          /\ ~t.chain /\ firstInChain(hart, i)
<1>1. ASSUME IInv, Next, Due
      PROVE  hart'.dm
  <2>1. config \in Configs /\ Good(hart)
    BY <1>1 DEF IInv
  <2>2. /\ Good(begin) /\ begin.trig = hart.trig /\ begin.match = hart.match
        /\ begin.after = hart.after
    BY <2>1, BeginIs
  <2>3. PICK i \in Triggers :
          /\ hart.trig[i].type = "ADMATCH" /\ hart.trig[i].action = 1 /\ hart.trig[i].timing
          /\ hart.match[i] = 1 /\ ~hart.trig[i].chain /\ firstInChain(hart, i)
    BY <1>1, Zenon
  <2>4. getTriggerAfter(begin.trig[i])
    BY <2>1, <2>2, <2>3 DEF Good, TrigOK, getTriggerAfter
  <2>5. Fires(begin, i, 1) /\ actionOf(begin, i) = <<"debug", "after">>
    <3>1. firstInChain(begin, i)
      BY <2>2, <2>3 DEF firstInChain
    <3> QED
      BY <2>1, <2>2, <2>3, <2>4, <3>1, AloneFires
  <2>6. <<"debug", "after">> \in getActiveAction(begin, 1).acts
    BY <2>5, ActsAre
  <2>7. "debug" \in begin.after
    BY <1>1, <2>2
  <2>8. PICK hits, f : /\ f = fetch(hits)
                       /\ \/ FetchHalt(f) \/ FetchAfterDebug(f) \/ FetchX0(f)
                          \/ FetchAfterBreakpoint(f) \/ FetchNMI(f) \/ FetchInterrupt(f)
                          \/ Instruction(f)
    <3>1. \E hits \in SUBSET Comparing : \E f \in {fetch(hits)} :
            \/ FetchHalt(f) \/ FetchAfterDebug(f) \/ FetchX0(f)
            \/ FetchAfterBreakpoint(f) \/ FetchNMI(f) \/ FetchInterrupt(f)
            \/ Instruction(f)
      BY <1>1, Zenon DEF Next, Instruction
    <3> QED
      BY <3>1, Zenon
  <2>9. f.debug = doTriggerAfter(begin, "debug", hits) /\ (f.done => f.debug.acts = {})
    BY <2>8, Zenon DEF fetch
  <2>10. f.debug.acts # {} /\ Acted(begin, f.debug.st) /\ f.debug.st.dm
    <3>1. doTriggerAfter(begin, "debug", hits).acts # {}
      BY <2>1, <2>2, <2>6, <2>7, AfterIs
    <3>2. f.debug.acts # {}
      BY <2>9, <3>1
    <3> QED
      BY <2>1, <2>8, <3>2, FetchIs
  <2>12. ASSUME NEW t, Good(t), t.dm
         PROVE  afterFetch(t).dm
    BY <2>12, AfterFetchIs DEF SameRest
  <2>13. CASE FetchHalt(f)
    <3>1. config.debugger /\ hart' = afterFetch(enterDM(begin))
      BY <2>10, <2>13, Zenon DEF FetchHalt, become
    <3>2. Good(enterDM(begin)) /\ enterDM(begin).dm
      BY <2>2, <3>1, EnterDMIs
    <3> QED
      BY <2>12, <3>1, <3>2
  <2>14. CASE FetchAfterDebug(f)
    <3>1. hart' = afterFetch(f.debug.st)
      BY <2>14, Zenon DEF FetchAfterDebug, become
    <3>2. Good(f.debug.st)
      BY <2>10 DEF Acted
    <3> QED
      BY <2>10, <2>12, <3>1, <3>2
  <2>15. CASE FetchX0(f)
    BY <2>10, <2>15 DEF FetchX0
  <2>16. CASE FetchAfterBreakpoint(f)
    BY <2>10, <2>16 DEF FetchAfterBreakpoint
  <2>17. CASE FetchNMI(f) \/ FetchInterrupt(f)
    BY <2>9, <2>10, <2>17 DEF FetchNMI, FetchInterrupt
  <2>18. CASE Instruction(f)
    BY <2>9, <2>10, <2>18, InstructionIs, Zenon
  <2> QED
    BY <2>8, <2>13, <2>14, <2>15, <2>16, <2>17, <2>18
<1>2. IInv /\ [Next]_vars => [Due => hart'.dm]_vars
  BY <1>1 DEF vars
<1> QED
  BY <1>2, AlwaysGood, PTL DEF Spec, DebugDelivered

-----------------------------------------------------------------------------
(* One instruction under an ICOUNT trigger.                                *)

\* What an access that no action ends does to the matches; execute triggers tested
\* at the fetch act before the instruction only.
LEMMA AccessMatches ==
  ASSUME config \in Configs, NEW s, Good(s), NEW priv, NEW hits, NEW onlyBefore \in BOOLEAN
  PROVE  LET r == doTriggerADMATCH(s, priv, hits, onlyBefore)
         IN  /\ ~r.ends => \A k \in Triggers :
                  /\ s.match[k] = 0 => r.st.match[k] = 0
                  /\ onlyBefore /\ getTriggerAfter(s.trig[k]) => r.st.match[k] = s.match[k]
             /\ onlyBefore /\ (\A k \in Triggers : s.match[k] # 0) /\ r.acts # {} => r.ends
<1> DEFINE r == doTriggerADMATCH(s, priv, hits, onlyBefore)
           matched == Matched(s, priv, hits, onlyBefore)
           t == markTriggerMatched(s, matched)
           b == doTriggerBefore(t, hits)
<1>1. CASE s.dm \/ matched = {}
  <2>1. r = [acts |-> {}, ends |-> FALSE, st |-> s]
    BY <1>1, Zenon DEF doTriggerADMATCH, Matched
  <2> HIDE DEF r
  <2>2. r.acts = {} /\ r.st = s
    BY <2>1
  <2> QED
    BY <2>2 DEF r
<1>2. CASE ~(s.dm \/ matched = {})
  <2>1. r = b
    BY <1>2, Zenon DEF doTriggerADMATCH, Matched
  <2>2. \A k \in matched : onlyBefore => ~getTriggerAfter(s.trig[k])
    BY DEF Matched
  <2> HIDE DEF matched, r
  <2>3. /\ Good(t) /\ t.trig = s.trig
        /\ t.match = [k \in Triggers |-> IF k \in matched THEN 0 ELSE s.match[k]]
    BY MarkIs
  <2> HIDE DEF t
  <2>4. /\ b.acts = getActiveAction(t, 0).acts
        /\ b.ends <=> \E a \in getActiveAction(t, 0).acts : a[2] = "before"
        /\ ~b.ends => b.st.match = t.match
    BY <2>3, BeforeIs
  <2> HIDE DEF b
  <2>5. ASSUME ~b.ends, NEW k \in Triggers
        PROVE  /\ s.match[k] = 0 => b.st.match[k] = 0
               /\ onlyBefore /\ getTriggerAfter(s.trig[k]) => b.st.match[k] = s.match[k]
    BY <2>2, <2>3, <2>4, <2>5
  <2>6. ASSUME onlyBefore, \A k \in Triggers : s.match[k] # 0, b.acts # {}
        PROVE  b.ends
    <3>1. PICK a \in getActiveAction(t, 0).acts : TRUE
      BY <2>4, <2>6
    <3>2. PICK i \in Triggers : Fires(t, i, 0) /\ a = actionOf(t, i)
      BY <3>1, ActsAre
    <3>3. chainEnd(t, i) \in Nat /\ i \in Nat /\ chainEnd(t, i) >= i
      BY ChainEndIs, ConfigIs DEF EndsChain, Triggers
    <3>4. t.match[i] = 0
      <4>1. i \in i..chainEnd(t, i)
        BY <3>3
      <4> QED
        BY <3>2, <4>1, Zenon DEF Fires, matchChain
    <3>5. i \in matched
      BY <2>3, <2>6, <3>4
    <3>6. ~getTriggerAfter(t.trig[i])
      BY <2>2, <2>3, <2>6, <3>5
    <3>7. a[2] = "before"
      BY <3>2, <3>6 DEF actionOf
    <3> QED
      BY <2>4, <3>1, <3>7
  <2> QED
    BY <2>1, <2>5, <2>6 DEF r
<1> QED
  BY <1>1, <1>2

\* The conditions under which an ICOUNT trigger watches an instruction of U mode.
Watches(s, i) ==
  s.mode = U /\ s.trig[i].type = "ICOUNT" /\ U \in s.trig[i].modes /\ firstInChain(s, i)

\* A trigger that watches has a breakpoint to take.
LEMMA WatchFires ==
  ASSUME config \in Configs, ~config.debugger, NEW s, Good(s), NEW i \in Triggers, Watches(s, i),
         NEW age, s.match[i] = age
  PROVE  <<"bkpt", IF s.trig[i].pending THEN "before" ELSE "after">> \in getActiveAction(s, age).acts
<1>1. TrigOK(s.trig[i]) /\ s.trig[i].type = "ICOUNT"
  BY DEF Good, Watches
<1>2. ~s.trig[i].chain /\ s.trig[i].action # 1 /\ s.trig[i].timing
  BY <1>1 DEF TrigOK
<1>3. breakpointEnabled(s) /\ firstInChain(s, i)
  BY DEF breakpointEnabled, Watches, U, M
<1>4. Fires(s, i, age)
      /\ actionOf(s, i) = <<IF s.trig[i].action = 1 THEN "debug" ELSE "bkpt",
                            IF getTriggerAfter(s.trig[i]) THEN "after" ELSE "before">>
  BY <1>2, <1>3, AloneFires
<1>5. actionOf(s, i) = <<"bkpt", IF s.trig[i].pending THEN "before" ELSE "after">>
  BY <1>2, <1>4, Zenon DEF getTriggerAfter
<1> QED
  BY <1>4, <1>5, ActsAre

\* The execute triggers of an instruction: a pending trigger that watches it ends it,
\* another one is due after it.
LEMMA AccessWatched ==
  ASSUME config \in Configs, ~config.debugger, NEW s, Good(s), NEW i \in Triggers, Watches(s, i),
         NEW priv, NEW hits
  PROVE  LET r == doTriggerADMATCH(s, priv, hits, FALSE)
         IN  /\ s.trig[i].pending => r.ends
             /\ ~r.ends => "bkpt" \in r.st.after /\ r.st.match[i] = 0
<1> DEFINE r == doTriggerADMATCH(s, priv, hits, FALSE)
           matched == Matched(s, priv, hits, FALSE)
           t == markTriggerMatched(s, matched)
           b == doTriggerBefore(t, hits)
<1>1. i \in matched
  BY DEF Matched, Watches
<1>2. ~s.dm
  BY DEF Good
<1>3. r = b
  BY <1>1, <1>2, Zenon DEF doTriggerADMATCH, Matched
<1> HIDE DEF matched, r
<1>4. /\ Good(t) /\ SameRest(s, t) /\ t.trig = s.trig
      /\ t.match = [k \in Triggers |-> IF k \in matched THEN 0 ELSE s.match[k]]
  BY MarkIs
<1> HIDE DEF t
<1>5. Watches(t, i) /\ t.match[i] = 0
  BY <1>1, <1>4 DEF Watches, SameRest, firstInChain
<1>6. <<"bkpt", IF t.trig[i].pending THEN "before" ELSE "after">> \in getActiveAction(t, 0).acts
  BY <1>4, <1>5, WatchFires
<1>7. /\ b.ends <=> \E a \in getActiveAction(t, 0).acts : a[2] = "before"
      /\ ~b.ends => /\ b.st.match = t.match
                    /\ \A a \in getActiveAction(t, 0).acts : a[1] \in b.st.after
  BY <1>4, BeforeIs
<1> HIDE DEF b
<1>8. PICK a \in getActiveAction(t, 0).acts :
        a[1] = "bkpt" /\ (t.trig[i].pending => a[2] = "before")
  BY <1>6
<1> QED
  BY <1>3, <1>4, <1>5, <1>7, <1>8 DEF r

\* The breakpoint of ICOUNT trigger i is due at the next fetch, at which no trigger
\* has matched yet.
Waiting(s, i) ==
  /\ firstInChain(s, i) /\ s.mode = U /\ "bkpt" \in s.after /\ s.match[i] = 1
  /\ \A k \in Triggers : s.match[k] # 0

\* It becomes due when the count advances.
Matching(s, i) ==
  firstInChain(s, i) /\ s.mode = U /\ "bkpt" \in s.after /\ s.match[i] = 0

\* Instructions have run under an armed ICOUNT trigger.
Ran(s, i) == s.trig[i].type = "ICOUNT" /\ U \in s.trig[i].modes /\ s.ran[i] # 0

\* One instruction has run, and the trigger is pending.
Safe(s, i) == Ran(s, i) => s.ran[i] = 1 /\ s.trig[i].pending

\* One instruction has run, and the trigger is pending or its breakpoint due.
Stepped(s, i) == Ran(s, i) => s.ran[i] = 1 /\ (s.trig[i].pending \/ Waiting(s, i))

\* The same while the instruction runs.
Stepping(s, i) == Ran(s, i) => s.ran[i] = 1 /\ (s.trig[i].pending \/ Matching(s, i))

\* Tests and traps keep a pending trigger pending.
LEMMA SafeKept ==
  ASSUME NEW s, NEW t, Kept(s, t), t.ran = s.ran, NEW i \in Triggers, Safe(s, i)
  PROVE  Safe(t, i)
BY DEF Kept, KeptTrig, SameSetting, Safe, Ran

\* An action leaves a trigger whose breakpoint is due pending, or disarmed.
LEMMA SafeActed ==
  ASSUME ~config.debugger, NEW s, NEW t, Acted(s, t), NEW i \in Triggers,
         Stepped(s, i) \/ Stepping(s, i)
  PROVE  Safe(t, i)
<1>1. Kept(s, t) /\ t.ran = s.ran /\ LeftPending(s, s.mode, t)
  BY DEF Acted, Good
<1>2. CASE Ran(s, i) /\ ~s.trig[i].pending
  <2>1. s.mode = U /\ s.ran[i] = 1
    BY <1>2 DEF Stepped, Stepping, Waiting, Matching
  <2> QED
    BY <1>1, <1>2, <2>1 DEF LeftPending, Ran, Safe, Kept, KeptTrig, SameSetting
<1>3. CASE ~Ran(s, i) \/ s.trig[i].pending
  <2>1. Safe(s, i)
    BY <1>3 DEF Stepped, Stepping, Safe
  <2> QED
    BY <1>1, <2>1, SafeKept
<1> QED
  BY <1>2, <1>3

\* The count advances.
LEMMA SteppedCounts ==
  ASSUME NEW t, Good(t), NEW i \in Triggers
  PROVE  /\ Safe(t, i) => Stepped(advance(t), i) /\ Stepped(afterFetch(t), i)
         /\ Stepping(t, i) => Stepped(advance(t), i)
<1> DEFINE a == advance(t)
           b == afterFetch(t)
<1>1. /\ SameRest(t, a) /\ a.trig = t.trig /\ a.after = t.after
      /\ \A k \in Triggers : a.match[k] # 0 /\ (t.match[k] = 0 => a.match[k] = 1)
      /\ SameRest(t, b) /\ b.trig = t.trig
  BY AdvanceIs, AfterFetchIs
<1> HIDE DEF a, b
<1>2. Safe(t, i) => Stepped(a, i) /\ Stepped(b, i)
  BY <1>1 DEF Safe, Stepped, Ran, SameRest
<1>3. Stepping(t, i) => Stepped(a, i)
  BY <1>1 DEF Stepping, Stepped, Ran, SameRest, Matching, Waiting, firstInChain
<1> QED
  BY <1>2, <1>3 DEF a, b

(***************************************************************************)
(* A fetch whose tests take no action finds no breakpoint due: a trigger   *)
(* under which an instruction has run is pending.  An execute trigger      *)
(* tested at the fetch takes its action there when a breakpoint is due.    *)
(***************************************************************************)
LEMMA DueTaken ==
  ASSUME config \in Configs, ~config.debugger, Good(hart), NEW hits, NEW f, f = fetch(hits),
         NEW i \in Triggers, Stepped(begin, i)
  PROVE  /\ f.done => Safe(begin, i)
         /\ f.debug.acts = {}
         /\ f.x0.acts # {} => Acted(begin, f.x0.st) \/ Safe(begin, i)
<1> DEFINE d == doTriggerAfter(begin, "debug", hits)
           x0 == IF X_H THEN doTriggerADMATCH(d.st, "X", hits, TRUE)
                 ELSE [acts |-> {}, ends |-> FALSE, st |-> d.st]
           bk == doTriggerAfter(x0.st, "bkpt", hits)
<1>1. /\ f.debug = d /\ f.x0 = x0 /\ f.bkpt = bk
      /\ f.done <=> d.acts = {} /\ x0.acts = {} /\ bk.acts = {}
  BY Zenon DEF fetch
<1>2. Good(begin)
  BY BeginIs
<1>3. /\ d.acts = {} => /\ Quiet(begin, d.st) /\ d.st.match = begin.match
                        /\ begin.after \ {"debug"} \subseteq d.st.after
      /\ d.acts # {} => Acted(begin, d.st) /\ d.st.dm
  BY <1>2, AfterIs
<1> HIDE DEF d
<1>4. d.acts = {}
  BY <1>3 DEF Acted, Good
<1>5. CASE Safe(begin, i)
  BY <1>1, <1>4, <1>5
<1>6. CASE ~Safe(begin, i)
  <2>1. Ran(begin, i) /\ Waiting(begin, i) /\ ~begin.trig[i].pending
    BY <1>6 DEF Safe, Stepped
  <2>2. Watches(begin, i) /\ TrigOK(begin.trig[i])
    BY <1>2, <2>1 DEF Watches, Ran, Waiting, Good
  <2>3. /\ Quiet(begin, d.st) /\ d.st.match = begin.match /\ "bkpt" \in d.st.after
    BY <1>3, <1>4, <2>1 DEF Waiting
  <2>4. /\ Good(d.st) /\ Watches(d.st, i) /\ ~d.st.trig[i].pending /\ d.st.match[i] = 1
        /\ \A k \in Triggers : d.st.match[k] # 0
        /\ getTriggerAfter(d.st.trig[i])
    <3>1. Good(d.st) /\ SameRest(begin, d.st) /\ SameTriggers(begin, d.st)
      BY <2>3 DEF Quiet
    <3>2. ~d.st.trig[i].pending /\ d.st.trig[i].timing
      BY <2>1, <2>2, <3>1 DEF SameTriggers, SameSetting, TrigOK, Watches
    <3>3. firstInChain(d.st, i)
      <4>1. i - 1 \in Triggers \/ i = 0
        BY ConfigIs DEF Triggers
      <4> QED
        BY <2>2, <3>1, <4>1 DEF Watches, firstInChain, SameTriggers, SameSetting
    <3>4. Watches(d.st, i)
      BY <2>2, <3>1, <3>3 DEF Watches, SameRest, SameTriggers, SameSetting
    <3> QED
      BY <2>1, <2>3, <3>1, <3>2, <3>4 DEF Waiting, getTriggerAfter
  <2>5. /\ x0.acts # {} => Acted(begin, x0.st)
        /\ x0.acts = {} => /\ Good(x0.st) /\ Quiet(d.st, x0.st)
                           /\ x0.st.match[i] = 1 /\ "bkpt" \in x0.st.after
    <3>1. CASE X_H
      <4>1. x0 = doTriggerADMATCH(d.st, "X", hits, TRUE)
        BY <3>1
      <4> HIDE DEF x0
      <4>2. /\ x0.ends => Acted(d.st, x0.st) /\ x0.acts # {}
            /\ ~x0.ends => Quiet(d.st, x0.st) /\ d.st.after \subseteq x0.st.after
        BY <2>4, <4>1, AccessIs
      <4>3. /\ ~x0.ends => x0.st.match[i] = d.st.match[i]
            /\ x0.acts # {} => x0.ends
        BY <2>4, <4>1, AccessMatches
      <4> QED
        BY <2>3, <2>4, <4>2, <4>3, QuietTwice DEF Quiet
    <3>2. CASE ~X_H
      <4>1. x0.st = d.st /\ x0.acts = {}
        BY <3>2
      <4> HIDE DEF x0
      <4>2. Quiet(d.st, d.st)
        BY <2>4 DEF Quiet, SameRest, SameTriggers, SameSetting
      <4> QED
        BY <2>3, <2>4, <4>1, <4>2
    <3> QED
      BY <3>1, <3>2
  <2> HIDE DEF x0
  <2>6. ASSUME x0.acts = {}
        PROVE  bk.acts # {}
    <3>1. SameRest(d.st, x0.st) /\ SameTriggers(d.st, x0.st)
      BY <2>5, <2>6 DEF Quiet
    <3>2. ~x0.st.trig[i].pending
      BY <2>4, <3>1 DEF SameTriggers
    <3>3. firstInChain(x0.st, i)
      <4>1. i - 1 \in Triggers \/ i = 0
        BY ConfigIs DEF Triggers
      <4> QED
        BY <2>4, <3>1, <4>1 DEF Watches, firstInChain, SameTriggers, SameSetting
    <3>4. Watches(x0.st, i)
      BY <2>4, <3>1, <3>3 DEF Watches, SameRest, SameTriggers, SameSetting
    <3>5. <<"bkpt", IF x0.st.trig[i].pending THEN "before" ELSE "after">>
            \in getActiveAction(x0.st, 1).acts
      BY <2>5, <2>6, <3>4, WatchFires
    <3> QED
      BY <2>5, <2>6, <3>2, <3>5, AfterIs
  <2> QED
    BY <1>1, <1>4, <2>5, <2>6
<1> QED
  BY <1>5, <1>6

\* Steps that end at the fetch keep the count of one instruction.
LEMMA FetchStepped ==
  ASSUME config \in Configs, ~config.debugger, Good(hart), NEW hits, NEW f, f = fetch(hits),
         \/ FetchHalt(f) \/ FetchAfterDebug(f) \/ FetchX0(f)
         \/ FetchAfterBreakpoint(f) \/ FetchNMI(f) \/ FetchInterrupt(f),
         NEW i \in Triggers, Stepped(begin, i)
  PROVE  Stepped(hart', i)
<1>1. /\ f.debug.acts = {} /\ (f.done => Safe(begin, i))
      /\ f.x0.acts # {} => Acted(begin, f.x0.st) \/ Safe(begin, i)
  BY DueTaken
<1>2. /\ f.debug.acts = {} /\ f.x0.acts # {} => Acted(begin, f.x0.st) \/ Quiet(begin, f.x0.st)
      /\ f.debug.acts = {} /\ f.x0.acts = {} /\ f.bkpt.acts # {} => Acted(begin, f.bkpt.st)
      /\ f.done => Quiet(begin, f.bkpt.st)
  BY FetchIs
<1>3. ASSUME NEW t, Acted(begin, t)
      PROVE  Good(t) /\ Safe(t, i)
  BY <1>3, SafeActed DEF Acted
<1>4. ASSUME NEW t, Quiet(begin, t), Safe(begin, i)
      PROVE  Good(t) /\ Safe(t, i)
  <2>1. Good(t) /\ Kept(begin, t) /\ t.ran = begin.ran
    BY <1>4, SameKept DEF Quiet, SameRest
  <2> QED
    BY <1>4, <2>1, SafeKept
<1>5. ASSUME NEW t, Good(t), Safe(t, i), hart' = afterFetch(t)
      PROVE  Stepped(hart', i)
  BY <1>5, SteppedCounts
<1>6. CASE FetchHalt(f)
  BY <1>6 DEF FetchHalt
<1>7. CASE FetchAfterDebug(f)
  BY <1>1, <1>7 DEF FetchAfterDebug
<1>8. CASE FetchX0(f)
  <2>1. f.x0.acts # {} /\ hart' = afterFetch(f.x0.st)
    BY <1>8 DEF FetchX0, become
  <2>2. Good(f.x0.st) /\ Safe(f.x0.st, i)
    BY <1>1, <1>2, <1>3, <1>4, <2>1
  <2> QED
    BY <1>5, <2>1, <2>2
<1>9. CASE FetchAfterBreakpoint(f)
  <2>1. f.x0.acts = {} /\ f.bkpt.acts # {} /\ hart' = afterFetch(f.bkpt.st)
    BY <1>9 DEF FetchAfterBreakpoint, become
  <2> QED
    BY <1>1, <1>2, <1>3, <1>5, <2>1
<1>10. CASE FetchNMI(f)
  <2> DEFINE t == f.bkpt.st
             u == doNMI(t)
  <2>1. Good(t) /\ Safe(t, i) /\ hart' = afterFetch(u)
    BY <1>1, <1>2, <1>4, <1>10 DEF FetchNMI, become
  <2> HIDE DEF t
  <2>2. Good(u) /\ Kept(t, u) /\ u.ran = t.ran
    BY <2>1, NMIIs
  <2> HIDE DEF u
  <2>3. Safe(u, i)
    BY <2>1, <2>2, SafeKept
  <2> QED
    BY <1>5, <2>1, <2>2, <2>3
<1>11. CASE FetchInterrupt(f)
  <2> DEFINE t == f.bkpt.st
             u == riscvTakeException(t, "INTERRUPT", f.hits)
  <2>1. Good(t) /\ Safe(t, i) /\ hart' = afterFetch(u)
    BY <1>1, <1>2, <1>4, <1>11 DEF FetchInterrupt, become
  <2> HIDE DEF t
  <2>2. Good(u) /\ Kept(t, u) /\ u.ran = t.ran
    BY <2>1, ExceptionIs
  <2> HIDE DEF u
  <2>3. Safe(u, i)
    BY <2>1, <2>2, SafeKept
  <2> QED
    BY <1>5, <2>1, <2>2, <2>3
<1> QED
  BY <1>6, <1>7, <1>8, <1>9, <1>10, <1>11

\* An instruction that nothing ends is the first under a trigger, and leaves the
\* trigger's breakpoint due.
LEMMA CountedStepping ==
  ASSUME config \in Configs, ~config.debugger, NEW s, Good(s), NEW hits, NEW i \in Triggers,
         Safe(s, i), NEW x, x = doTriggerADMATCH(s, "X", hits, FALSE), ~x.ends
  PROVE  Stepping(counted(x.st), i)
<1> DEFINE t == x.st
           c == counted(t)
<1>1. Quiet(s, t) /\ Good(t) /\ SameRest(s, t) /\ SameTriggers(s, t)
  BY AccessIs DEF Quiet
<1>2. Watches(s, i) => ~s.trig[i].pending /\ "bkpt" \in t.after /\ t.match[i] = 0
  BY AccessWatched
<1>3. i - 1 \in Triggers \/ i = 0
  BY ConfigIs DEF Triggers
<1> HIDE DEF t
<1>4. /\ c.trig = t.trig /\ c.match = t.match /\ c.after = t.after /\ c.mode = t.mode
      /\ c.ran[i] = t.ran[i] \/ (c.ran[i] = t.ran[i] + 1 /\ t.mode = U /\ firstInChain(t, i))
  BY <1>1, CountedIs
<1> HIDE DEF c
<1>5. /\ firstInChain(c, i) <=> firstInChain(s, i)
      /\ firstInChain(t, i) <=> firstInChain(s, i)
  BY <1>1, <1>3, <1>4 DEF firstInChain, SameTriggers, SameSetting
<1>6. /\ c.trig[i].type = s.trig[i].type /\ c.trig[i].modes = s.trig[i].modes
      /\ c.trig[i].pending = s.trig[i].pending /\ t.mode = s.mode /\ t.ran = s.ran
  BY <1>1, <1>4 DEF SameRest, SameTriggers, SameSetting
<1>7. s.ran[i] \in 0..2
  BY DEF Good, HartRec
<1>8. ASSUME Ran(c, i)
      PROVE  c.ran[i] = 1 /\ (c.trig[i].pending \/ Matching(c, i))
  <2>1. c.trig[i].type = "ICOUNT" /\ U \in c.trig[i].modes /\ c.ran[i] # 0
    BY <1>8 DEF Ran
  <2>2. CASE c.ran[i] = s.ran[i]
    BY <1>6, <2>1, <2>2 DEF Safe, Ran
  <2>3. CASE c.ran[i] # s.ran[i]
    <3>1. c.ran[i] = s.ran[i] + 1 /\ s.mode = U /\ firstInChain(s, i)
      BY <1>4, <1>5, <1>6, <2>3
    <3>2. Watches(s, i)
      BY <1>6, <2>1, <3>1 DEF Watches
    <3>3. s.ran[i] = 0
      BY <1>2, <1>6, <2>1, <3>2 DEF Safe, Ran
    <3> QED
      BY <1>2, <1>4, <1>5, <1>6, <3>1, <3>2, <3>3 DEF Matching
  <2> QED
    BY <2>2, <2>3
<1> QED
  BY <1>8 DEF Stepping, c, t

\* Instructions keep the count of one instruction.
LEMMA InstructionStepped ==
  ASSUME config \in Configs, ~config.debugger, Good(hart), NEW hits, NEW f, f = fetch(hits),
         Instruction(f), NEW i \in Triggers, Stepped(begin, i)
  PROVE  Stepped(hart', i)
<1>1. f.done => Safe(begin, i)
  BY DueTaken
<1>2. /\ f.done => Quiet(begin, f.bkpt.st)
      /\ f.done /\ f.x.ends => Acted(begin, f.x.st)
      /\ f.done /\ ~f.x.ends => Quiet(begin, f.x.st)
  BY FetchIs
<1>3. /\ f.done
      /\ \/ f.x.ends /\ hart' = advance(f.x.st)
         \/ ~f.x.ends /\ \E u : Effect(f, counted(f.x.st), u) /\ hart' = advance(u)
  BY InstructionIs, Zenon
<1>4. CASE f.x.ends
  <2>1. Acted(begin, f.x.st) /\ hart' = advance(f.x.st)
    BY <1>2, <1>3, <1>4
  <2>2. Good(f.x.st) /\ Safe(f.x.st, i)
    BY <2>1, SafeActed DEF Acted
  <2> QED
    BY <2>1, <2>2, SteppedCounts
<1>5. CASE ~f.x.ends
  <2> DEFINE s == f.bkpt.st
             c == counted(f.x.st)
  <2>1. Good(s) /\ Kept(begin, s) /\ s.ran = begin.ran
    BY <1>2, <1>3, SameKept DEF Quiet, SameRest
  <2>2. Safe(s, i)
    BY <1>1, <1>3, <2>1, SafeKept
  <2>3. f.x = doTriggerADMATCH(s, "X", hits, FALSE) /\ f.hits = hits
    BY Zenon DEF fetch
  <2>4. Stepping(c, i)
    BY <1>5, <2>1, <2>2, <2>3, CountedStepping
  <2>5. Good(f.x.st) /\ f.x.st.mode = hart.mode
    <3>1. Ready(hart, begin)
      BY BeginIs
    <3> QED
      BY <1>2, <1>3, <1>5, <3>1 DEF Quiet, SameRest, Ready
  <2>6. Good(c) /\ c.mode = hart.mode
    BY <2>5, CountedIs
  <2>7. PICK u : Effect(f, c, u) /\ hart' = advance(u)
    BY <1>3, <1>5, Zenon
  <2> HIDE DEF c
  <2>8. hart.mode = M => Safe(c, i)
    BY <2>4, <2>6 DEF Stepping, Safe, Matching, U, M
  <2>9. ~hart.dm
    BY DEF Good
  <2>10. \A v : Plain(c, v) /\ Safe(c, i) => Good(v) /\ Safe(v, i)
    BY DEF Plain, Safe, Ran
  <2>11. ASSUME NEW acc \in config.ops \cap {"R", "W"}, NEW data \in SUBSET Comparing,
                u = doTriggerADMATCH(c, acc, data, FALSE).st
         PROVE  Good(u) /\ (Safe(u, i) \/ Stepping(u, i))
    <3> DEFINE r == doTriggerADMATCH(c, acc, data, FALSE)
    <3>1. /\ r.ends => Acted(c, u)
          /\ ~r.ends => Quiet(c, u) /\ c.after \subseteq u.after
      BY <2>6, <2>11, AccessIs
    <3>2. ~r.ends /\ c.match[i] = 0 => u.match[i] = 0
      <4>1. FALSE \in BOOLEAN
        OBVIOUS
      <4>a. \A b \in BOOLEAN :
              LET q == doTriggerADMATCH(c, acc, data, b)
              IN  ~q.ends => \A k \in Triggers : c.match[k] = 0 => q.st.match[k] = 0
        BY <2>6, AccessMatches
      <4>2. ~r.ends => \A k \in Triggers : c.match[k] = 0 => r.st.match[k] = 0
        BY <4>1, <4>a, Zenon
      <4> HIDE DEF r
      <4> QED
        BY <2>11, <4>2 DEF r
    <3> HIDE DEF r
    <3>3. CASE r.ends
      BY <2>4, <3>1, <3>3, SafeActed DEF Acted
    <3>4. CASE ~r.ends
      <4>1. Good(u) /\ SameRest(c, u) /\ SameTriggers(c, u)
        BY <3>1, <3>4 DEF Quiet
      <4>2. firstInChain(u, i) <=> firstInChain(c, i)
        <5>1. i - 1 \in Triggers \/ i = 0
          BY ConfigIs DEF Triggers
        <5> QED
          BY <4>1, <5>1 DEF firstInChain, SameTriggers, SameSetting
      <4>3. Stepping(u, i)
        BY <2>4, <3>1, <3>2, <3>4, <4>1, <4>2
           DEF Stepping, Matching, Ran, SameRest, SameTriggers, SameSetting
      <4> QED
        BY <4>1, <4>3
    <3> QED
      BY <3>3, <3>4
  <2>12. ASSUME u = riscvTakeException(c, "EXCEPTION", f.hits)
         PROVE  Good(u) /\ Safe(u, i)
    <3>1. Good(u) /\ Kept(c, u) /\ u.ran = c.ran /\ LeftPending(c, c.mode, u)
      BY <2>6, <2>12, ExceptionIs DEF Good
    <3>2. CASE Ran(c, i) /\ ~c.trig[i].pending
      <4>1. c.mode = U /\ c.ran[i] = 1
        BY <2>4, <3>2 DEF Stepping, Matching
      <4> QED
        BY <3>1, <3>2, <4>1 DEF LeftPending, Ran, Safe, Kept, KeptTrig, SameSetting
    <3>3. CASE ~Ran(c, i) \/ c.trig[i].pending
      <4>1. Safe(c, i)
        BY <2>4, <3>3 DEF Stepping, Safe
      <4> QED
        BY <3>1, <4>1, SafeKept
    <3> QED
      BY <3>2, <3>3
  <2>13. ASSUME hart.mode = M, NEW k \in Triggers, NEW v \in config.values, u = tdata1W(c, k, v)
         PROVE  Good(u) /\ Safe(u, i)
    <3>1. /\ Good(u)
          /\ (u.trig[i] = c.trig[i] /\ u.ran[i] = c.ran[i]) \/ u.ran[i] = 0
      BY <2>6, <2>13, WriteIs
    <3> QED
      BY <2>8, <2>13, <3>1 DEF Safe, Ran
  <2>14. \A mte \in BOOLEAN, mpte \in BOOLEAN :
           /\ Plain(c, riscvMRETof(c))
           /\ Plain(c, TcontrolWof(c, mte, mpte)) /\ Plain(c, MstatusWof(c, mte))
    BY <2>6, PlainOps
  <2>15. TRUE \in BOOLEAN
    OBVIOUS
  <2>16. Good(u) /\ (Safe(u, i) \/ Stepping(u, i))
    BY <2>7, <2>8, <2>9, <2>10, <2>11, <2>12, <2>13, <2>14, <2>15, Zenon DEF Effect
  <2> QED
    BY <2>7, <2>16, SteppedCounts
<1> QED
  BY <1>4, <1>5

StepInv == ~config.debugger => \A i \in Triggers : Stepped(hart, i)

\* On a hart no debugger stops, at most one instruction of U mode runs under an ICOUNT
\* trigger since it was written (triggerTrap and doTriggerAction keep it or disarm it).
THEOREM StepIsBounded == Spec => []StepBounded
<1>1. Init => StepInv
  <2>1. Init => hart.ran = [i \in Triggers |-> 0]
    <3>1. InitHart.ran = [i \in Triggers |-> 0]
      BY Zenon DEF InitHart
    <3> QED
      BY <3>1 DEF Init
  <2> QED
    BY <2>1 DEF StepInv, Stepped, Ran
<1>2. IInv /\ StepInv /\ [Next]_vars => StepInv'
  <2> SUFFICES ASSUME IInv, StepInv, [Next]_vars
               PROVE  StepInv'
    OBVIOUS
  <2>1. config \in Configs /\ Good(hart)
    BY DEF IInv
  <2>2. ASSUME Next, ~config.debugger, NEW i \in Triggers
        PROVE  Stepped(hart', i)
    <3>1. CASE riscvReset
      BY <2>1, <2>2, <3>1, ResetSteps DEF Stepped, Ran
    <3>2. CASE \E hits \in SUBSET Comparing : \E f \in {fetch(hits)} :
                 \/ FetchHalt(f) \/ FetchAfterDebug(f) \/ FetchX0(f)
                 \/ FetchAfterBreakpoint(f) \/ FetchNMI(f) \/ FetchInterrupt(f)
                 \/ Instruction(f)
      <4>1. PICK hits, f : /\ f = fetch(hits)
                           /\ \/ \/ FetchHalt(f) \/ FetchAfterDebug(f) \/ FetchX0(f)
                                 \/ FetchAfterBreakpoint(f) \/ FetchNMI(f) \/ FetchInterrupt(f)
                              \/ Instruction(f)
        BY <3>2, Zenon
      <4>2. Stepped(begin, i)
        <5>1. /\ begin.trig = hart.trig /\ begin.ran = hart.ran /\ begin.match = hart.match
              /\ begin.after = hart.after /\ begin.mode = hart.mode
          BY <2>1, BeginIs DEF Ready
        <5>2. Stepped(hart, i)
          BY <2>2 DEF StepInv
        <5> QED
          BY <5>1, <5>2 DEF Stepped, Ran, Waiting, firstInChain
      <4> QED
        BY <2>1, <2>2, <4>1, <4>2, FetchStepped, InstructionStepped
    <3> QED
      BY <2>2, <3>1, <3>2, Zenon DEF Next, Instruction
  <2>3. CASE Next
    <3>1. config' = config
      BY <2>1, <2>3, NextIs, ResetSteps
    <3> QED
      BY <2>2, <2>3, <3>1 DEF StepInv, Stepped, Ran, Waiting, Triggers, firstInChain
  <2>4. CASE UNCHANGED vars
    BY <2>4 DEF vars, StepInv, Stepped, Ran, Waiting, Triggers, firstInChain
  <2> QED
    BY <2>3, <2>4
<1>3. IInv /\ StepInv => StepBounded
  <2> SUFFICES ASSUME IInv, StepInv, ~config.debugger, NEW i \in Triggers,
                      hart.trig[i].type = "ICOUNT", U \in hart.trig[i].modes
               PROVE  hart.ran[i] <= 1
    BY DEF StepBounded
  <2> QED
    BY DEF StepInv, Stepped, Ran
<1> QED
  BY <1>1, <1>2, <1>3, AlwaysGood, PTL DEF Spec
=============================================================================
