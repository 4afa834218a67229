------------------------------ MODULE ClicProofs ------------------------------
(***************************************************************************)
(* Proofs about the CLIC, for any clusters, interrupts and configurations. *)
(***************************************************************************)
EXTENDS ClicProperties, FiniteSetTheorems, TLAPS

(***************************************************************************)
(* What holds of a hart s at every moment: its types; the selection is the *)
(* one its registers give; the pending+enabled bits of fixed edges are     *)
(* exact; and the registered interrupt is the one presented, unless it was *)
(* left by a reset, which also disabled all interrupts.                    *)
(***************************************************************************)
EdgeExact(s) ==
  \A i \in config.posedge : s.attr[i].edge /\ (i \in s.ipe <=> i \in s.ie /\ i \in s.ip)

Selected(s, cfg) == s.sel = riscvRefreshPendingAndEnabledInternalCLIC(s, cfg)

Registered(s) == s.pendEnab = presented(s, s.sel) \/ (does("reset") /\ s.IE = {})

HartInv(s, cfg) == s \in HartRec /\ EdgeExact(s) /\ Selected(s, cfg) /\ Registered(s)

IInv ==
  /\ config \in Configs
  /\ cliccfg \in CfgRec
  /\ hart = [h \in Harts |-> hart[h]]
  /\ \A h \in Harts : HartInv(hart[h], cliccfg)

-----------------------------------------------------------------------------
(* Registers.                                                              *)

\* What ClicAssumption gives of the configuration in use.
LEMMA ConfigType ==
  ASSUME config \in Configs
  PROVE  /\ Ints \subseteq Nat /\ IsFiniteSet(Ints)
         /\ config.MBITS \in 0..2 /\ config.LBITS \in 0..8 /\ config.CTLBITS \in 0..8
         /\ config.SHV \in BOOLEAN /\ config.N \in BOOLEAN
         /\ config.posedge \subseteq Ints
         /\ config.attrs \subseteq [edge : BOOLEAN, low : BOOLEAN, shv : BOOLEAN, mode : 0..3]
         /\ config.ctls \subseteq Levels /\ config.ths \subseteq Levels
         /\ config.pils \subseteq Levels
         /\ \E k \in 0..8 : config.threshOnes = 2^k - 1
BY ClicAssumption DEF Ints

\* The powers of two of a byte.
LEMMA Powers ==
  ASSUME NEW k \in 0..8
  PROVE  2^k \in {1, 2, 4, 8, 16, 32, 64, 128, 256}
<1>1. (k = 0 => 2^k = 1) /\ (k = 1 => 2^k = 2) /\ (k = 2 => 2^k = 4)
  <2>1. 2^0 = 1 /\ 2^1 = 2 /\ 2^2 = 4
    OBVIOUS
  <2> QED
    BY <2>1, Zenon
<1>2. (k = 3 => 2^k = 8) /\ (k = 4 => 2^k = 16) /\ (k = 5 => 2^k = 32)
  <2>1. 2^3 = 8 /\ 2^4 = 16 /\ 2^5 = 32
    OBVIOUS
  <2> QED
    BY <2>1, Zenon
<1>3. (k = 6 => 2^k = 64) /\ (k = 7 => 2^k = 128) /\ (k = 8 => 2^k = 256)
  <2>1. k = 6 => 2^k = 64
    <3>1. 2^6 = 64
      OBVIOUS
    <3> QED
      BY <3>1, Zenon
  <2>2. k = 7 => 2^k = 128
    <3>1. 2^7 = 128
      OBVIOUS
    <3> QED
      BY <3>1, Zenon
  <2>3. k = 8 => 2^k = 256
    <3>1. 2^8 = 256
      OBVIOUS
    <3> QED
      BY <3>1, Zenon
  <2> QED
    BY <2>1, <2>2, <2>3, Zenon
<1>4. k = 0 \/ k = 1 \/ k = 2 \/ k = 3 \/ k = 4 \/ k = 5 \/ k = 6 \/ k = 7 \/ k = 8
  OBVIOUS
<1> QED
  BY <1>1, <1>2, <1>3, <1>4, Zenon

\* Setting the low bits of a byte gives a byte.
LEMMA LowOnes ==
  ASSUME NEW v \in Levels, NEW k \in 0..8
  PROVE  (v - (v % 2^k)) + (2^k - 1) \in Levels /\ 2^k - 1 \in Levels
<1> DEFINE p == 2^k
<1>1. p \in {1, 2, 4, 8, 16, 32, 64, 128, 256}
  BY Powers, Zenon
<1> HIDE DEF p
<1>2. (v - (v % p)) + (p - 1) \in Levels /\ p - 1 \in Levels
  BY <1>1, SMT DEF Levels
<1> QED
  BY <1>2 DEF p

\* The level that nlbits takes from a clicintctl is an 8-bit value.
LEMMA LevelType ==
  ASSUME NEW v \in Levels, NEW n \in 0..8
  PROVE  levelOf(v, n) \in Levels
<1>1. 8 - n \in 0..8
  OBVIOUS
<1> QED
  BY <1>1, LowOnes DEF levelOf

\* A clicintctl as written back, with its unimplemented bits, is an 8-bit value.
LEMMA CtlType ==
  ASSUME config \in Configs, NEW v \in Levels
  PROVE  legalCtl(v) \in Levels /\ getCLICIntCtl1Bits \in Levels
<1> DEFINE k == 8 - config.CTLBITS
<1>1. k \in 0..8
  BY ConfigType
<1> DEFINE p == 2^k
<1>2. getCLICIntCtl1Bits = p - 1
  BY Zenon DEF getCLICIntCtl1Bits
<1>3. p \in {1, 2, 4, 8, 16, 32, 64, 128, 256}
  BY <1>1, Powers, Zenon
<1>4. (v - (v % p)) + (p - 1) \in Levels /\ p - 1 \in Levels
  BY <1>1, LowOnes, Zenon
<1> HIDE DEF p
<1>5. getCLICIntCtl1Bits + 1 = p
  BY <1>2, <1>3
<1> QED
  BY <1>2, <1>4, <1>5, Zenon DEF legalCtl

\* A threshold as written back, with its unimplemented bits, is an 8-bit value.
LEMMA ThreshType ==
  ASSUME config \in Configs, NEW v \in Levels
  PROVE  legalThresh(v) \in Levels /\ config.threshOnes \in Levels
<1>1. PICK k \in 0..8 : config.threshOnes = 2^k - 1
  BY ConfigType
<1> DEFINE p == 2^k
<1>2. config.threshOnes = p - 1
  BY <1>1, Zenon
<1>3. p \in {1, 2, 4, 8, 16, 32, 64, 128, 256}
  BY Powers, Zenon
<1>4. (v - (v % p)) + (p - 1) \in Levels /\ p - 1 \in Levels
  BY LowOnes, Zenon
<1> HIDE DEF p
<1>5. config.threshOnes + 1 = p
  BY <1>2, <1>3
<1> QED
  BY <1>2, <1>4, <1>5, Zenon DEF legalThresh

\* The mode of an interrupt under any cliccfg is one the hart has.
LEMMA IntMode ==
  ASSUME config \in Configs, NEW s \in HartRec, NEW i \in Ints, NEW cfg \in CfgRec
  PROVE  getCLICInterruptMode(s, i, cfg) \in Modes
<1>1. s.attr[i].mode \in Modes
  BY DEF HartRec, Attr
<1> QED
  BY <1>1 DEF getCLICInterruptMode, Modes, U, S, M

\* A finite set of interrupts that is not empty has a highest one.
LEMMA Highest ==
  ASSUME config \in Configs, NEW s \in HartRec, NEW cfg \in CfgRec, s.ipe # {}
  PROVE  \E i \in s.ipe : \A j \in s.ipe :
           \/ rank(s, i, cfg) > rank(s, j, cfg)
           \/ rank(s, i, cfg) = rank(s, j, cfg) /\ i >= j
<1> DEFINE P == s.ipe
<1> DEFINE r == [i \in P |-> rank(s, i, cfg)]
<1> DEFINE above(i) == {j \in P : r[j] > r[i] \/ (r[j] = r[i] /\ j >= i)}
<1>1. P \subseteq Ints
  BY DEF HartRec
<1>2. IsFiniteSet(P)
  BY <1>1, ConfigType, FS_Subset
<1>3. P \subseteq Nat
  BY <1>1, ConfigType
<1>4. \A i \in P : r[i] \in Nat
  <2> SUFFICES ASSUME NEW i \in P PROVE rank(s, i, cfg) \in Nat
    OBVIOUS
  <2>1. getCLICInterruptMode(s, i, cfg) \in {0, 1, 3}
    BY <1>1, IntMode DEF Modes, U, S, M
  <2>2. s.ctl[i] \in 0..255
    BY <1>1 DEF HartRec, Levels
  <2> QED
    BY <2>1, <2>2, SMTT(30) DEF rank
<1> DEFINE T == {above(i) : i \in P}
<1>5. IsWellFoundedOn(StrictSubsetOrdering(P), SUBSET P)
  BY <1>2, FS_StrictSubsetOrderingWellFounded, FS_FiniteSubsetsOfFinite
<1>6. T \subseteq SUBSET P /\ T # {}
  <2>1. PICK i \in P : TRUE
    OBVIOUS
  <2>2. above(i) \in T
    OBVIOUS
  <2>3. \A x \in P : above(x) \subseteq P
    OBVIOUS
  <2> HIDE DEF above
  <2> QED
    BY <2>2, <2>3
<1>7. PICK A \in T : \A B \in T : ~(<<B, A>> \in StrictSubsetOrdering(P))
  BY <1>5, <1>6, WFMin
<1>8. PICK i \in P : A = above(i)
  BY <1>7
<1> HIDE DEF r, P
<1>9. ASSUME NEW j \in P
      PROVE  r[i] > r[j] \/ (r[i] = r[j] /\ i >= j)
  <2> SUFFICES ASSUME ~(r[i] > r[j] \/ (r[i] = r[j] /\ i >= j))
               PROVE  FALSE
    OBVIOUS
  <2>1. i \in Nat /\ j \in Nat /\ r[i] \in Nat /\ r[j] \in Nat
    BY <1>3, <1>4
  <2>2. j \in above(i) /\ i \notin above(j) /\ i \in above(i)
    BY <2>1
  <2>3. above(j) \subseteq above(i)
    <3> SUFFICES ASSUME NEW k \in P, r[k] > r[j] \/ (r[k] = r[j] /\ k >= j)
                 PROVE  r[k] > r[i] \/ (r[k] = r[i] /\ k >= i)
      OBVIOUS
    <3>1. k \in Nat /\ r[k] \in Nat
      BY <1>3, <1>4
    <3> QED
      BY <2>1, <3>1
  <2>4. <<above(j), above(i)>> \in StrictSubsetOrdering(P)
    BY <2>2, <2>3 DEF StrictSubsetOrdering
  <2> QED
    BY <1>7, <1>8, <2>4
<1> QED
  BY <1>9 DEF r, P

-----------------------------------------------------------------------------
(* Selection and presentation.                                             *)

\* The selection is well formed, and is one of the pending interrupts.
LEMMA SelectionType ==
  ASSUME config \in Configs, NEW s \in HartRec, NEW cfg \in CfgRec,
         NEW sel, sel = riscvRefreshPendingAndEnabledInternalCLIC(s, cfg)
  PROVE  /\ sel \in SelRec
         /\ s.ipe = {} => sel = NoSel
         /\ s.ipe # {} => sel.id \in s.ipe
<1>1. CASE s.ipe = {}
  <2>1. sel = NoSel
    BY <1>1 DEF riscvRefreshPendingAndEnabledInternalCLIC
  <2>2. NoSel \in SelRec
    BY DEF NoSel, SelRec, NoInt, Modes, Levels, U
  <2> QED
    BY <1>1, <2>1, <2>2
<1>2. CASE s.ipe # {}
  <2> DEFINE id == CHOOSE i \in s.ipe : \A j \in s.ipe :
                     \/ rank(s, i, cfg) > rank(s, j, cfg)
                     \/ rank(s, i, cfg) = rank(s, j, cfg) /\ i >= j
             priv == getCLICInterruptMode(s, id, cfg)
  <2>1. id \in s.ipe
    BY <1>2, Highest
  <2>2. sel = [id |-> id, priv |-> priv, level |-> levelOf(s.ctl[id], cfg.nlbits[priv]),
               shv |-> s.attr[id].shv]
    BY <1>2 DEF riscvRefreshPendingAndEnabledInternalCLIC
  <2> HIDE DEF id
  <2>3. id \in Ints
    BY <2>1 DEF HartRec
  <2>4. priv \in Modes
    BY <2>3, IntMode
  <2> HIDE DEF priv
  <2>5. s.ctl[id] \in Levels /\ s.attr[id].shv \in BOOLEAN
    BY <2>3 DEF HartRec, Attr
  <2>6. cfg.nlbits[priv] \in 0..8
    BY <2>4, ConfigType DEF CfgRec
  <2>7. levelOf(s.ctl[id], cfg.nlbits[priv]) \in Levels
    BY <2>5, <2>6, LevelType
  <2>8. sel \in SelRec
    BY <2>2, <2>3, <2>4, <2>5, <2>7 DEF SelRec
  <2> QED
    BY <1>2, <2>1, <2>2, <2>8
<1> QED
  BY <1>1, <1>2

\* The selection depends on the pending interrupts and their registers only.
LEMMA SelectionFrame ==
  ASSUME NEW s, NEW t, NEW cfg, t.ipe = s.ipe, t.attr = s.attr, t.ctl = s.ctl
  PROVE  riscvRefreshPendingAndEnabledInternalCLIC(t, cfg)
           = riscvRefreshPendingAndEnabledInternalCLIC(s, cfg)
<1> DEFINE
     mode(attr, i) ==
       IF cfg.nmbits = 0 THEN M
       ELSE IF config.MBITS = 1 THEN IF attr[i].mode >= 2 THEN M ELSE U
       ELSE IF cfg.nmbits = 1 /\ attr[i].mode = U THEN S ELSE attr[i].mode
     order(attr, ctl, i) == mode(attr, i) * 256 + ctl[i]
     choice(ipe, attr, ctl) ==
       CHOOSE i \in ipe : \A j \in ipe :
         \/ order(attr, ctl, i) > order(attr, ctl, j)
         \/ order(attr, ctl, i) = order(attr, ctl, j) /\ i >= j
     selection(ipe, attr, ctl) ==
       IF ipe = {} THEN NoSel
       ELSE [id |-> choice(ipe, attr, ctl), priv |-> mode(attr, choice(ipe, attr, ctl)),
             level |-> levelOf(ctl[choice(ipe, attr, ctl)],
                               cfg.nlbits[mode(attr, choice(ipe, attr, ctl))]),
             shv |-> attr[choice(ipe, attr, ctl)].shv]
<1>1. riscvRefreshPendingAndEnabledInternalCLIC(s, cfg) = selection(s.ipe, s.attr, s.ctl)
  BY DEF riscvRefreshPendingAndEnabledInternalCLIC, rank, getCLICInterruptMode
<1>2. riscvRefreshPendingAndEnabledInternalCLIC(t, cfg) = selection(t.ipe, t.attr, t.ctl)
  BY DEF riscvRefreshPendingAndEnabledInternalCLIC, rank, getCLICInterruptMode
<1> HIDE DEF selection
<1> QED
  BY <1>1, <1>2

\* What a selection presents can be registered.
LEMMA PresentedType ==
  ASSUME NEW s \in HartRec, NEW sel \in SelRec
  PROVE  presented(s, sel) \in PendRec
<1>1. NoPend \in PendRec
  BY DEF NoPend, PendRec, NoInt, Modes, Levels, U
<1>2. [id |-> sel.id, priv |-> sel.priv, level |-> sel.level] \in PendRec
  BY DEF SelRec, PendRec
<1> QED
  BY <1>1, <1>2 DEF presented

\* Everything but the selection and the registered interrupt.
SameRegisters(s, t) ==
  /\ t.line = s.line /\ t.ip = s.ip /\ t.ie = s.ie /\ t.ipe = s.ipe
  /\ t.attr = s.attr /\ t.ctl = s.ctl
  /\ t.mode = s.mode /\ t.IE = s.IE /\ t.PIE = s.PIE /\ t.PP = s.PP
  /\ t.il = s.il /\ t.pil = s.pil /\ t.th = s.th /\ t.cause = s.cause

\* A test of interrupts makes selection and registered interrupt current.
LEMMA TestInterrupt ==
  ASSUME config \in Configs, NEW cfg \in CfgRec, NEW s \in HartRec, EdgeExact(s),
         NEW t, t = riscvTestInterrupt(s, cfg)
  PROVE  HartInv(t, cfg) /\ SameRegisters(s, t)
<1> DEFINE sel == riscvRefreshPendingAndEnabledInternalCLIC(s, cfg)
<1>1. t = [s EXCEPT !.sel = sel, !.pendEnab = presented(s, sel)]
  BY DEF riscvTestInterrupt, riscvRefreshPendingAndEnabled
<1>2. sel \in SelRec
  BY SelectionType
<1> HIDE DEF sel
<1>3. presented(s, sel) \in PendRec
  BY <1>2, PresentedType
<1>4. t \in HartRec /\ SameRegisters(s, t) /\ t.sel = sel /\ t.pendEnab = presented(s, sel)
  BY <1>1, <1>2, <1>3 DEF HartRec, SameRegisters
<1>5. EdgeExact(t)
  BY <1>4 DEF EdgeExact, SameRegisters
<1>6. Selected(t, cfg)
  BY <1>4, SelectionFrame DEF Selected, SameRegisters, sel
<1>7. Registered(t)
  BY <1>4 DEF Registered, presented, SameRegisters
<1> QED
  BY <1>4, <1>5, <1>6, <1>7 DEF HartInv

-----------------------------------------------------------------------------
(* Operations on a hart.                                                   *)

\* What all operations keep but those that end in a test of interrupts.
Core(s, cfg) == s \in HartRec /\ EdgeExact(s) /\ Selected(s, cfg)

\* Registers that the routines of riscvCLIC.c do not write.
SameHart(s, t) ==
  /\ t.mode = s.mode /\ t.IE = s.IE /\ t.PIE = s.PIE /\ t.PP = s.PP
  /\ t.il = s.il /\ t.pil = s.pil /\ t.th = s.th /\ t.cause = s.cause

\* A change that concerns neither the selection nor what it is made from.
LEMMA CoreKept ==
  ASSUME NEW cfg, NEW s, Core(s, cfg), NEW t \in HartRec,
         t.ip = s.ip, t.ie = s.ie, t.ipe = s.ipe, t.attr = s.attr, t.ctl = s.ctl, t.sel = s.sel
  PROVE  Core(t, cfg)
<1>1. EdgeExact(t)
  BY DEF Core, EdgeExact
<1>2. Selected(t, cfg)
  BY SelectionFrame DEF Core, Selected
<1> QED
  BY <1>1, <1>2 DEF Core

\* put changes one member of a set of interrupts or modes.
LEMMA PutType ==
  ASSUME NEW A, NEW set \in SUBSET A, NEW i \in A, NEW v \in BOOLEAN
  PROVE  /\ put(set, i, v) \in SUBSET A
         /\ \A j : j \in put(set, i, v) <=> IF j = i THEN v ELSE j \in set
BY DEF put

\* Pending+enabled bit i is set to n.  s is the hart before the write of ip or
\* ie that goes with it, t the one after that write.
LEMMA UpdatePendingEnable ==
  ASSUME config \in Configs, NEW cfg \in CfgRec, NEW s, Core(s, cfg),
         NEW i \in Ints, NEW n \in BOOLEAN, NEW t \in HartRec,
         t.ipe = s.ipe, t.attr = s.attr, t.ctl = s.ctl, t.sel = s.sel,
         \A j \in Ints \ {i} : (j \in t.ip <=> j \in s.ip) /\ (j \in t.ie <=> j \in s.ie),
         i \in config.posedge => (n <=> i \in t.ie /\ i \in t.ip),
         Registered(t) \/ n # (i \in t.ipe),
         NEW u, u = updateCLICPendingEnable(t, i, n, cfg)
  PROVE  /\ HartInv(u, cfg) /\ SameHart(t, u)
         /\ u.ip = t.ip /\ u.ie = t.ie /\ u.line = t.line /\ u.attr = t.attr
<1>0. config.posedge \subseteq Ints
  BY ConfigType
<1>1. CASE (i \in t.ipe) = n
  <2>1. u = t
    BY <1>1 DEF updateCLICPendingEnable
  <2>2. EdgeExact(t)
    BY <1>0, <1>1 DEF Core, EdgeExact
  <2>3. Selected(t, cfg)
    BY SelectionFrame DEF Core, Selected
  <2>4. Registered(t)
    BY <1>1
  <2> QED
    BY <2>1, <2>2, <2>3, <2>4 DEF HartInv, SameHart
<1>2. CASE (i \in t.ipe) # n
  <2> DEFINE x == [t EXCEPT !.ipe = IF n THEN @ \cup {i} ELSE @ \ {i}]
  <2>1. u = riscvTestInterrupt(x, cfg)
    BY <1>2 DEF updateCLICPendingEnable
  <2>2. x \in HartRec
    BY DEF HartRec
  <2>3. /\ SameHart(t, x) /\ x.ip = t.ip /\ x.ie = t.ie /\ x.line = t.line /\ x.attr = t.attr
        /\ x.ipe = IF n THEN t.ipe \cup {i} ELSE t.ipe \ {i}
    BY DEF HartRec, SameHart
  <2>4. EdgeExact(x)
    BY <1>0, <2>3 DEF Core, EdgeExact
  <2> HIDE DEF x
  <2>5. HartInv(u, cfg) /\ SameRegisters(x, u)
    BY <2>1, <2>2, <2>4, TestInterrupt
  <2> QED
    BY <2>3, <2>5 DEF SameRegisters, SameHart
<1> QED
  BY <1>1, <1>2

\* A write of clicintip, or an edge or a level of the line.
LEMMA WritePending ==
  ASSUME config \in Configs, NEW cfg \in CfgRec, NEW s, Core(s, cfg),
         NEW i \in Ints, NEW v \in BOOLEAN, NEW any \in BOOLEAN,
         Registered(s) \/ (i \in s.ipe /\ ~v),
         NEW u, u = writeCLICInterruptPending(s, i, v, any, cfg)
  PROVE  /\ HartInv(u, cfg) /\ SameHart(s, u) /\ u.attr = s.attr
         /\ \A j : j \in s.ip /\ j \notin u.ip => j = i /\ ~v
<1> DEFINE t == setCLICInterruptPending(s, i, v, any)
           n == i \in s.ie /\ v
<1>0. s \in HartRec /\ s.attr[i].edge \in BOOLEAN
  BY DEF Core, HartRec, Attr
<1>1. u = updateCLICPendingEnable(t, i, n, cfg)
  BY DEF writeCLICInterruptPending
<1>2. /\ put(s.ip, i, v) \in SUBSET Ints
      /\ \A j : j \in put(s.ip, i, v) <=> IF j = i THEN v ELSE j \in s.ip
  BY <1>0, PutType DEF HartRec
<1>3. /\ t \in HartRec /\ SameHart(s, t) /\ t.ie = s.ie /\ t.ipe = s.ipe /\ t.attr = s.attr
      /\ t.ctl = s.ctl /\ t.sel = s.sel /\ t.pendEnab = s.pendEnab
      /\ t.ip = IF any \/ s.attr[i].edge THEN put(s.ip, i, v) ELSE s.ip
  <2>1. CASE any \/ s.attr[i].edge
    <3>1. t = [s EXCEPT !.ip = put(s.ip, i, v)]
      BY <2>1 DEF setCLICInterruptPending
    <3> QED
      BY <1>0, <1>2, <2>1, <3>1 DEF HartRec, SameHart
  <2>2. CASE ~(any \/ s.attr[i].edge)
    BY <1>0, <2>2 DEF SameHart, setCLICInterruptPending
  <2> QED
    BY <2>1, <2>2
<1>4. Registered(s) => Registered(t)
  BY <1>3 DEF Registered, presented, SameHart
<1>5. i \in config.posedge => (n <=> i \in t.ie /\ i \in t.ip)
  BY <1>2, <1>3 DEF Core, EdgeExact
<1>6. \A j \in Ints \ {i} : (j \in t.ip <=> j \in s.ip) /\ (j \in t.ie <=> j \in s.ie)
  BY <1>2, <1>3
<1>7. n \in BOOLEAN
  BY Zenon
<1>8. Registered(t) \/ n # (i \in t.ipe)
  BY <1>3, <1>4
<1> HIDE DEF t, n
<1>9. /\ HartInv(u, cfg) /\ SameHart(t, u)
      /\ u.ip = t.ip /\ u.ie = t.ie /\ u.line = t.line /\ u.attr = t.attr
  BY <1>1, <1>3, <1>5, <1>6, <1>7, <1>8, UpdatePendingEnable
<1> QED
  BY <1>2, <1>3, <1>9 DEF SameHart

\* A write of clicintie keeps the invariant of a hart.
LEMMA WriteEnable ==
  ASSUME config \in Configs, NEW cfg \in CfgRec, NEW s, HartInv(s, cfg),
         NEW i \in Ints, NEW v \in BOOLEAN,
         NEW u, u = writeCLICInterruptEnable(s, i, v, cfg)
  PROVE  HartInv(u, cfg) /\ u.ip = s.ip
<1> DEFINE t == [s EXCEPT !.ie = put(@, i, v)]
           n == getCLICInterruptPending(s, i) /\ v
<1>0. s \in HartRec /\ Core(s, cfg) /\ Registered(s)
  BY DEF Core, HartInv
<1>1. u = updateCLICPendingEnable(t, i, n, cfg)
  BY DEF writeCLICInterruptEnable
<1>2. /\ put(s.ie, i, v) \in SUBSET Ints
      /\ \A j : j \in put(s.ie, i, v) <=> IF j = i THEN v ELSE j \in s.ie
  BY <1>0, PutType DEF HartRec
<1>3. /\ t \in HartRec /\ SameHart(s, t) /\ t.ip = s.ip /\ t.ipe = s.ipe /\ t.attr = s.attr
      /\ t.ctl = s.ctl /\ t.sel = s.sel /\ t.pendEnab = s.pendEnab /\ t.ie = put(s.ie, i, v)
  BY <1>0, <1>2 DEF HartRec, SameHart
<1>4. Registered(t)
  BY <1>0, <1>3 DEF Registered, presented, SameHart
<1>5. i \in config.posedge => (n <=> i \in t.ie /\ i \in t.ip)
  BY <1>0, <1>2, <1>3 DEF Core, EdgeExact, getCLICInterruptPending
<1>6. \A j \in Ints \ {i} : (j \in t.ip <=> j \in s.ip) /\ (j \in t.ie <=> j \in s.ie)
  BY <1>2, <1>3
<1>7. n \in BOOLEAN
  BY Zenon
<1> HIDE DEF t, n
<1>8. HartInv(u, cfg) /\ u.ip = t.ip
  BY <1>0, <1>1, <1>3, <1>4, <1>5, <1>6, <1>7, UpdatePendingEnable
<1> QED
  BY <1>3, <1>8

\* A write of clicintattr, legalised, keeps the invariant of a hart.
LEMMA WriteAttr ==
  ASSUME config \in Configs, NEW cfg \in CfgRec, NEW s, HartInv(s, cfg),
         NEW i \in Ints, NEW a \in config.attrs, NEW page \in Modes,
         NEW u, u = writeCLICInterruptAttr(s, i, a, page, cfg)
  PROVE  HartInv(u, cfg) /\ u.ip = s.ip
<1> DEFINE new == [edge |-> IF i \in trigFixed THEN s.attr[i].edge ELSE a.edge,
                   low  |-> IF i \in trigFixed THEN s.attr[i].low ELSE a.low,
                   shv  |-> a.shv /\ config.SHV,
                   mode |-> legalIntMode(a.mode, page)]
           t == [s EXCEPT !.attr[i] = new]
<1>0. s \in HartRec /\ EdgeExact(s)
  BY DEF HartInv
<1>1. s.attr[i] \in Attr /\ s.attr[i].edge \in BOOLEAN /\ s.attr[i].low \in BOOLEAN
  BY <1>0 DEF HartRec, Attr
<1>2. a \in [edge : BOOLEAN, low : BOOLEAN, shv : BOOLEAN, mode : 0..3]
  BY ConfigType
<1>3. legalIntMode(a.mode, page) \in Modes
  <2>1. a.mode \in {0, 1, 2, 3}
    BY <1>2
  <2> QED
    BY <2>1 DEF legalIntMode, Modes, U, S, M
<1>4. new \in Attr
  <2>1. (a.shv /\ config.SHV) \in BOOLEAN
    BY Zenon
  <2> QED
    BY <1>1, <1>2, <1>3, <2>1 DEF Attr
<1>5. i \in config.posedge => new.edge
  BY <1>0 DEF EdgeExact, trigFixed
<1>6. u = IF s.attr[i] = new THEN s ELSE riscvTestInterrupt(t, cfg)
  BY DEF writeCLICInterruptAttr, updateCLICInterruptField
<1> HIDE DEF new
<1>7. /\ t \in HartRec /\ t.ip = s.ip /\ t.ie = s.ie /\ t.ipe = s.ipe
      /\ t.attr = [s.attr EXCEPT ![i] = new]
  BY <1>0, <1>4 DEF HartRec
<1>8. EdgeExact(t)
  <2>1. s.attr \in [Ints -> Attr] /\ config.posedge \subseteq Ints
    BY <1>0, ConfigType DEF HartRec
  <2> QED
    BY <1>0, <1>5, <1>7, <2>1 DEF EdgeExact
<1> HIDE DEF t
<1> QED
  BY <1>6, <1>7, <1>8, TestInterrupt DEF SameRegisters

\* A write of clicintctl, legalised, keeps the invariant of a hart.
LEMMA WriteCtl ==
  ASSUME config \in Configs, NEW cfg \in CfgRec, NEW s, HartInv(s, cfg),
         NEW i \in Ints, NEW v \in Levels,
         NEW u, u = writeCLICInterruptCtl(s, i, v, cfg)
  PROVE  HartInv(u, cfg) /\ u.ip = s.ip
<1> DEFINE t == [s EXCEPT !.ctl[i] = legalCtl(v)]
<1>0. s \in HartRec /\ EdgeExact(s)
  BY DEF HartInv
<1>1. legalCtl(v) \in Levels
  BY CtlType
<1>2. /\ t \in HartRec /\ t.ip = s.ip /\ t.ie = s.ie /\ t.ipe = s.ipe /\ t.attr = s.attr
  BY <1>0, <1>1 DEF HartRec
<1>3. EdgeExact(t)
  BY <1>0, <1>2 DEF EdgeExact
<1>4. u = IF s.ctl[i] = legalCtl(v) THEN s ELSE riscvTestInterrupt(t, cfg)
  BY DEF writeCLICInterruptCtl
<1> HIDE DEF t
<1> QED
  BY <1>2, <1>3, <1>4, TestInterrupt DEF SameRegisters

\* An acknowledgement removes no other interrupt, and leaves the registered one
\* current if it was, or if the interrupt acknowledged was pending and enabled.
LEMMA Acknowledge ==
  ASSUME config \in Configs, NEW cfg \in CfgRec, NEW s, Core(s, cfg), NEW i \in Ints,
         Registered(s) \/ i \in s.ipe,
         NEW u, u = riscvAcknowledgeCLICInt(s, i, cfg)
  PROVE  /\ HartInv(u, cfg) /\ SameHart(s, u)
         /\ \A j : j \in s.ip /\ j \notin u.ip => j = i
<1>1. CASE s.attr[i].edge
  <2>1. u = writeCLICInterruptPending(s, i, FALSE, FALSE, cfg)
    BY <1>1 DEF riscvAcknowledgeCLICInt
  <2>2. ASSUME NEW v \in BOOLEAN, NEW any \in BOOLEAN, ~v,
               u = writeCLICInterruptPending(s, i, v, any, cfg)
        PROVE  HartInv(u, cfg) /\ SameHart(s, u) /\ \A j : j \in s.ip /\ j \notin u.ip => j = i
    BY <2>2, WritePending
  <2> QED
    BY <2>1, <2>2, Zenon
<1>2. CASE ~s.attr[i].edge
  <2>1. u = riscvTestInterrupt(s, cfg)
    BY <1>2 DEF riscvAcknowledgeCLICInt, riscvTestInterrupt
  <2>2. HartInv(u, cfg) /\ SameRegisters(s, u)
    BY <2>1, TestInterrupt DEF Core
  <2> QED
    BY <2>2 DEF SameRegisters, SameHart
<1> QED
  BY <1>1, <1>2

\* A line that changes removes no edge.
LEMMA UpdateInput ==
  ASSUME config \in Configs, NEW cfg \in CfgRec, NEW s, HartInv(s, cfg),
         NEW i \in Ints, NEW v \in BOOLEAN,
         NEW u, u = riscvUpdateInterrupt(s, i, v, cfg)
  PROVE  /\ HartInv(u, cfg)
         /\ \A j : j \in s.ip /\ j \notin u.ip => ~s.attr[j].edge
<1> DEFINE t == [s EXCEPT !.line = put(@, i, v)]
           active == v # t.attr[i].low
<1>0. s \in HartRec /\ Core(s, cfg) /\ Registered(s)
  BY DEF HartInv, Core
<1>1. put(s.line, i, v) \in SUBSET Ints
  BY <1>0, PutType DEF HartRec
<1>2. /\ t \in HartRec /\ SameHart(s, t) /\ t.ip = s.ip /\ t.ie = s.ie /\ t.ipe = s.ipe
      /\ t.attr = s.attr /\ t.ctl = s.ctl /\ t.sel = s.sel /\ t.pendEnab = s.pendEnab
  BY <1>0, <1>1 DEF HartRec, SameHart
<1>3. Core(t, cfg)
  BY <1>0, <1>2, CoreKept
<1>4. Registered(t)
  BY <1>0, <1>2 DEF Registered, presented, SameHart
<1>5. u = IF ~t.attr[i].edge \/ active
          THEN writeCLICInterruptPending(t, i, active, FALSE, cfg) ELSE t
  BY DEF riscvUpdateInterrupt, riscvUpdateCLICInput
<1>6. active \in BOOLEAN
  BY Zenon
<1> HIDE DEF t, active
<1>7. CASE ~t.attr[i].edge \/ active
  <2>1. u = writeCLICInterruptPending(t, i, active, FALSE, cfg)
    BY <1>5, <1>7
  <2>2. HartInv(u, cfg) /\ \A j : j \in t.ip /\ j \notin u.ip => j = i /\ ~active
    <3>1. ASSUME NEW any \in BOOLEAN, u = writeCLICInterruptPending(t, i, active, any, cfg)
          PROVE  HartInv(u, cfg) /\ \A j : j \in t.ip /\ j \notin u.ip => j = i /\ ~active
      BY <1>3, <1>4, <1>6, <3>1, WritePending
    <3> QED
      BY <2>1, <3>1, Zenon
  <2> QED
    BY <1>2, <1>7, <2>2
<1>8. CASE ~(~t.attr[i].edge \/ active)
  BY <1>2, <1>3, <1>4, <1>5, <1>8 DEF HartInv, Core
<1> QED
  BY <1>7, <1>8

\* What a trap changes.
LEMMA Trap ==
  ASSUME NEW s \in HartRec, NEW X \in Modes, NEW level \in Levels \cup {-1},
         NEW id \in Ints \cup {NoInt}, NEW t, t = trap(s, X, level, id)
  PROVE  /\ t \in HartRec
         /\ t.ip = s.ip /\ t.ie = s.ie /\ t.ipe = s.ipe /\ t.attr = s.attr /\ t.ctl = s.ctl
         /\ t.sel = s.sel /\ t.pendEnab = s.pendEnab /\ t.th = s.th
         /\ t.mode = X /\ t.IE = s.IE \ {X}
         /\ \A m \in Modes \ {X} : t.il[m] = s.il[m]
         /\ level # -1 => t.il[X] = level
         /\ t.pil[X] = s.il[X] /\ t.cause[X] = id
<1>1. put(s.PIE, X, X \in s.IE) \in SUBSET Modes
  BY DEF put, HartRec
<1>2. (IF level >= 0 THEN level ELSE s.il[X]) \in Levels
  BY DEF HartRec, Levels
<1> DEFINE PIE == put(s.PIE, X, X \in s.IE)
           pil == [s.pil EXCEPT ![X] = s.il[X]]
           il == [s.il EXCEPT ![X] = IF level >= 0 THEN level ELSE s.il[X]]
           cause == [s.cause EXCEPT ![X] = id]
           PP == [s.PP EXCEPT ![X] = s.mode]
<1>3. t = [s EXCEPT !.PIE = PIE, !.IE = s.IE \ {X}, !.pil = pil, !.il = il,
                    !.cause = cause, !.PP = PP, !.mode = X]
  BY DEF trap, HartRec
<1>4. /\ pil \in [Modes -> Levels] /\ il \in [Modes -> Levels]
      /\ cause \in [Modes -> Ints \cup {NoInt}] /\ PP \in [Modes -> Modes]
  BY <1>2 DEF HartRec
<1> HIDE DEF PIE, pil, il, cause, PP
<1>5. t \in HartRec
  <2>1. PIE \in SUBSET Modes /\ s.IE \ {X} \in SUBSET Modes
    BY <1>1 DEF HartRec, PIE
  <2> QED
    BY <1>3, <1>4, <2>1, ZenonT(60) DEF HartRec
<1>6. /\ t.ip = s.ip /\ t.ie = s.ie /\ t.ipe = s.ipe /\ t.attr = s.attr /\ t.ctl = s.ctl
      /\ t.sel = s.sel /\ t.pendEnab = s.pendEnab /\ t.th = s.th
      /\ t.mode = X /\ t.IE = s.IE \ {X}
  BY <1>3 DEF HartRec
<1>7. t.il = il /\ t.pil = pil /\ t.cause = cause
  BY <1>3 DEF HartRec
<1>8. level # -1 => level >= 0
  BY DEF Levels
<1> QED
  BY <1>5, <1>6, <1>7, <1>8 DEF HartRec, il, pil, cause

\* An interrupt that is taken becomes the cause, in its mode and at its level.
LEMMA TakeInt ==
  ASSUME config \in Configs, NEW cfg \in CfgRec, NEW s, HartInv(s, cfg),
         s.pendEnab.id # NoInt, NEW u, u = doInterrupt(s, cfg)
  PROVE  LET p == s.pendEnab IN
         /\ HartInv(u, cfg)
         /\ u.cause[p.priv] = p.id /\ u.il[p.priv] = p.level /\ u.pil[p.priv] = s.il[p.priv]
         /\ \A j : j \in s.ip /\ j \notin u.ip => j = p.id
<1> DEFINE p == s.pendEnab
           x == [s EXCEPT !.pendEnab = NoPend]
           t == trap(x, p.priv, p.level, p.id)
<1>0. s \in HartRec /\ Core(s, cfg) /\ Registered(s)
  BY DEF HartInv, Core
<1>1. p.id \in Ints /\ p.priv \in Modes /\ p.level \in Levels
  BY <1>0 DEF HartRec, PendRec
<1>2. NoPend \in PendRec
  BY DEF NoPend, PendRec, NoInt, Modes, Levels, U
<1>3. /\ x \in HartRec /\ SameRegisters(s, x) /\ x.sel = s.sel /\ x.pendEnab = NoPend
  BY <1>0, <1>2 DEF HartRec, SameRegisters
<1>4. u = IF s.sel.shv THEN riscvAcknowledgeCLICInt(t, p.id, cfg) ELSE t
  BY DEF doInterrupt
<1> HIDE DEF x
<1>5. /\ t \in HartRec
      /\ t.ip = x.ip /\ t.ie = x.ie /\ t.ipe = x.ipe /\ t.attr = x.attr /\ t.ctl = x.ctl
      /\ t.sel = x.sel /\ t.pendEnab = x.pendEnab
      /\ t.mode = p.priv /\ t.IE = x.IE \ {p.priv}
      /\ t.il[p.priv] = p.level /\ t.pil[p.priv] = x.il[p.priv] /\ t.cause[p.priv] = p.id
  <2>1. p.level \in Levels \cup {-1} /\ p.id \in Ints \cup {NoInt} /\ p.level # -1
    BY <1>1 DEF Levels
  <2> HIDE DEF p
  <2> QED
    BY <1>1, <1>3, <2>1, Trap
<1> HIDE DEF t
<1>6. Core(t, cfg)
  BY <1>0, <1>3, <1>5, CoreKept DEF SameRegisters
<1>7. Registered(t)
  <2>1. CASE p = presented(s, s.sel)
    <3>1. p.priv = s.sel.priv
      BY <2>1, <1>0 DEF presented, NoPend
    <3>2. t.sel.priv \notin t.IE
      BY <1>3, <1>5, <3>1
    <3>3. presented(t, t.sel) = NoPend
      BY <3>2 DEF presented
    <3> QED
      BY <1>3, <1>5, <3>3 DEF Registered
  <2>2. CASE does("reset") /\ s.IE = {}
    BY <1>3, <1>5, <2>2 DEF Registered, SameRegisters
  <2> QED
    BY <1>0, <2>1, <2>2 DEF Registered
<1>8. CASE s.sel.shv
  <2>1. /\ HartInv(u, cfg) /\ SameHart(t, u)
        /\ \A j : j \in t.ip /\ j \notin u.ip => j = p.id
    BY <1>1, <1>4, <1>6, <1>7, <1>8, Acknowledge
  <2> QED
    BY <1>3, <1>5, <2>1 DEF SameHart, SameRegisters
<1>9. CASE ~s.sel.shv
  BY <1>3, <1>4, <1>5, <1>6, <1>7, <1>9 DEF HartInv, Core, SameRegisters
<1> QED
  BY <1>8, <1>9

\* A hart that executes an instruction presents nothing.
LEMMA NonePresented ==
  ASSUME NEW s \in HartRec, Registered(s), s.pendEnab.id = NoInt
  PROVE  presented(s, s.sel) = NoPend
<1>1. CASE s.pendEnab = presented(s, s.sel)
  BY <1>1 DEF presented
<1>2. CASE s.IE = {}
  BY <1>2 DEF presented
<1> QED
  BY <1>1, <1>2 DEF Registered

\* The order of levels.
LEMMA LevelOrder ==
  ASSUME NEW a \in Levels, NEW b \in Levels
  PROVE  /\ ~(b < a) => a <= b
         /\ \A c \in Levels : a <= b /\ c > b => c > a
BY DEF Levels

\* It still presents nothing after a change that enables nothing.
LEMMA StillNone ==
  ASSUME config \in Configs, NEW cfg \in CfgRec, NEW s, HartInv(s, cfg),
         s.pendEnab.id = NoInt, NEW t \in HartRec,
         t.ip = s.ip, t.ie = s.ie, t.ipe = s.ipe, t.attr = s.attr, t.ctl = s.ctl, t.sel = s.sel,
         t.pendEnab = s.pendEnab,
         t.IE \subseteq s.IE, s.mode <= t.mode,
         \A m \in t.IE : (s.mode < m /\ t.mode <= m) \/ (s.il[m] <= t.il[m] /\ s.th[m] <= t.th[m])
  PROVE  HartInv(t, cfg)
<1>0. s \in HartRec /\ Core(s, cfg) /\ Registered(s)
  BY DEF HartInv, Core
<1>1. Core(t, cfg)
  BY <1>0, CoreKept
<1>2. presented(s, s.sel) = NoPend
  BY <1>0, NonePresented
<1>3. s.sel \in SelRec
  BY <1>0 DEF HartRec
<1>4. presented(t, t.sel) = NoPend
  <2> SUFFICES ASSUME presented(t, t.sel) # NoPend
               PROVE  FALSE
    OBVIOUS
  <2>0. PICK X : X = s.sel.priv
    OBVIOUS
  <2>1. /\ s.sel.id # NoInt /\ t.mode <= X /\ X \in t.IE
        /\ t.mode < X \/ (s.sel.level > t.il[X] /\ s.sel.level > t.th[X])
    BY <2>0 DEF presented
  <2>2. /\ X \in Modes /\ s.sel.level \in Levels /\ s.mode \in Modes /\ t.mode \in Modes
        /\ s.il[X] \in Levels /\ t.il[X] \in Levels /\ s.th[X] \in Levels /\ t.th[X] \in Levels
    BY <1>0, <1>3, <2>0 DEF HartRec, SelRec
  <2>3. X \in s.IE
    BY <2>1
  <2>4. s.mode <= X
    BY <2>1, <2>2 DEF Modes, U, S, M
  <2>5. s.mode < X \/ (s.sel.level > s.il[X] /\ s.sel.level > s.th[X])
    <3>1. (s.mode < X /\ t.mode <= X) \/ (s.il[X] <= t.il[X] /\ s.th[X] <= t.th[X])
      BY <2>1
    <3>2. CASE t.mode < X
      BY <2>2, <3>2 DEF Modes, U, S, M
    <3>3. CASE s.sel.level > t.il[X] /\ s.sel.level > t.th[X]
      BY <2>2, <3>1, <3>3, LevelOrder
    <3> QED
      BY <2>1, <3>2, <3>3
  <2>6. presented(s, s.sel) = [id |-> s.sel.id, priv |-> s.sel.priv, level |-> s.sel.level]
    BY <2>0, <2>1, <2>3, <2>4, <2>5 DEF presented
  <2> QED
    BY <1>2, <2>1, <2>6 DEF NoPend
<1>5. Registered(t)
  <2>1. CASE s.pendEnab = presented(s, s.sel)
    BY <1>2, <1>4, <2>1 DEF Registered
  <2>2. CASE does("reset") /\ s.IE = {}
    BY <2>2 DEF Registered
  <2> QED
    BY <1>0, <2>1, <2>2 DEF Registered
<1> QED
  BY <1>1, <1>5 DEF HartInv, Core

\* An exception, taken when no interrupt is registered, keeps the invariant.
LEMMA TakeExc ==
  ASSUME config \in Configs, NEW cfg \in CfgRec, NEW s, HartInv(s, cfg),
         s.pendEnab.id = NoInt, NEW X \in Modes, s.mode <= X,
         NEW t, t = takeException(s, X)
  PROVE  HartInv(t, cfg) /\ t.ip = s.ip
<1> DEFINE level == IF X = s.mode THEN -1 ELSE 0
<1>0. s \in HartRec
  BY DEF HartInv
<1>1. t = trap(s, X, level, NoInt)
  BY DEF takeException
<1>2. level \in Levels \cup {-1} /\ NoInt \in Ints \cup {NoInt}
  BY DEF Levels
<1> HIDE DEF level
<1>3. /\ t \in HartRec
      /\ t.ip = s.ip /\ t.ie = s.ie /\ t.ipe = s.ipe /\ t.attr = s.attr /\ t.ctl = s.ctl
      /\ t.sel = s.sel /\ t.pendEnab = s.pendEnab /\ t.th = s.th
      /\ t.mode = X /\ t.IE = s.IE \ {X}
      /\ \A m \in Modes \ {X} : t.il[m] = s.il[m]
  <2> DEFINE none == NoInt
  <2>1. none \in Ints \cup {NoInt} /\ t = trap(s, X, level, none)
    BY <1>1, <1>2
  <2> HIDE DEF none
  <2> QED
    BY <1>0, <1>2, <2>1, Trap
<1>4. ASSUME NEW Y \in t.IE
      PROVE  s.il[Y] <= t.il[Y] /\ s.th[Y] <= t.th[Y]
  <2>1. Y \in Modes \ {X}
    BY <1>0, <1>3 DEF HartRec
  <2>2. s.il[Y] \in Levels /\ s.th[Y] \in Levels
    BY <1>0, <2>1 DEF HartRec
  <2> QED
    BY <1>3, <2>1, <2>2, SMTT(30) DEF Levels
<1> QED
  BY <1>3, <1>4, StillNone

\* A write of xstatus, which tests interrupts only if it enables a mode.
LEMMA StatusWrite ==
  ASSUME config \in Configs, NEW cfg \in CfgRec, NEW s, HartInv(s, cfg),
         s.pendEnab.id = NoInt, NEW ies \in SUBSET Modes,
         NEW t, t = statusW(s, ies, cfg)
  PROVE  /\ HartInv(t, cfg)
         /\ t.ip = s.ip /\ t.ipe = s.ipe /\ t.attr = s.attr /\ t.mode = s.mode
         /\ t.pil = s.pil /\ t.cause = s.cause
<1> DEFINE x == [s EXCEPT !.IE = ies]
<1>0. s \in HartRec /\ EdgeExact(s)
  BY DEF HartInv
<1>1. /\ x \in HartRec /\ x.ip = s.ip /\ x.ie = s.ie /\ x.ipe = s.ipe /\ x.attr = s.attr
      /\ x.ctl = s.ctl /\ x.sel = s.sel /\ x.pendEnab = s.pendEnab /\ x.th = s.th
      /\ x.mode = s.mode /\ x.il = s.il /\ x.pil = s.pil /\ x.cause = s.cause /\ x.IE = ies
  BY <1>0 DEF HartRec
<1>2. t = IF ies \subseteq s.IE THEN x ELSE riscvTestInterrupt(x, cfg)
  BY DEF statusW
<1> HIDE DEF x
<1>3. CASE ies \subseteq s.IE
  <2>1. ASSUME NEW Y \in x.IE
        PROVE  s.il[Y] <= x.il[Y] /\ s.th[Y] <= x.th[Y]
    <3>1. s.il[Y] \in Levels /\ s.th[Y] \in Levels
      BY <1>0, <1>1 DEF HartRec
    <3> QED
      BY <1>1, <3>1 DEF Levels
  <2>2. s.mode <= x.mode
    BY <1>0, <1>1 DEF HartRec, Modes, U, S, M
  <2>3. HartInv(x, cfg)
    BY <1>1, <1>3, <2>1, <2>2, StillNone
  <2> QED
    BY <1>1, <1>2, <1>3, <2>3
<1>4. CASE ~(ies \subseteq s.IE)
  <2>1. EdgeExact(x)
    BY <1>0, <1>1 DEF EdgeExact
  <2>2. HartInv(t, cfg) /\ SameRegisters(x, t)
    BY <1>1, <1>2, <1>4, <2>1, TestInterrupt
  <2> QED
    BY <1>1, <2>2 DEF SameRegisters
<1> QED
  BY <1>3, <1>4

\* MRET, SRET and URET keep the invariant of a hart.
LEMMA Return ==
  ASSUME config \in Configs, NEW cfg \in CfgRec, NEW s, HartInv(s, cfg), NEW X \in Modes,
         NEW u, u = xret(s, X, cfg)
  PROVE  HartInv(u, cfg) /\ u.ip = s.ip
<1> DEFINE new == IF X = U THEN U ELSE s.PP[X]
           il == [s.il EXCEPT ![X] = s.pil[X]]
           IE == put(s.IE, X, X \in s.PIE)
           PP == [s.PP EXCEPT ![X] = U]
           t == [s EXCEPT !.il[X] = s.pil[X], !.IE = put(@, X, X \in s.PIE),
                          !.PIE = @ \cup {X}, !.PP[X] = U, !.mode = new]
           Y == IF s.mode = M THEN M ELSE S
           v == IF config.xretClears /\ new # s.mode
                THEN [t EXCEPT !.th[Y] = config.threshOnes] ELSE t
<1>0. s \in HartRec /\ EdgeExact(s)
  BY DEF HartInv
<1>1. new \in Modes /\ Y \in Modes /\ config.threshOnes \in Levels
  <2>1. 0 \in Levels
    BY DEF Levels
  <2>2. config.threshOnes \in Levels
    BY <2>1, ThreshType
  <2> QED
    BY <1>0, <2>2 DEF HartRec, Modes
<1>2. u = riscvTestInterrupt(v, cfg)
  BY DEF xret
<1>3. t = [s EXCEPT !.il = il, !.IE = IE, !.PIE = s.PIE \cup {X}, !.PP = PP, !.mode = new]
  BY <1>0 DEF HartRec
<1>4. il \in [Modes -> Levels] /\ IE \in SUBSET Modes /\ PP \in [Modes -> Modes]
      /\ s.PIE \cup {X} \in SUBSET Modes
  BY <1>0 DEF HartRec, put, Modes
<1> HIDE DEF new, il, IE, PP, Y, t
<1>5. t \in HartRec /\ t.ip = s.ip /\ t.ie = s.ie /\ t.ipe = s.ipe /\ t.attr = s.attr
  BY <1>0, <1>1, <1>3, <1>4 DEF HartRec
<1>6. v \in HartRec /\ v.ip = s.ip /\ v.ie = s.ie /\ v.ipe = s.ipe /\ v.attr = s.attr
  <2> DEFINE th == [t.th EXCEPT ![Y] = config.threshOnes]
  <2>1. th \in [Modes -> Levels]
    BY <1>1, <1>5 DEF HartRec
  <2>2. [t EXCEPT !.th[Y] = config.threshOnes] = [t EXCEPT !.th = th]
    BY <1>5 DEF HartRec
  <2> HIDE DEF th
  <2>3. v = t \/ v = [t EXCEPT !.th = th]
    BY <2>2
  <2> HIDE DEF v
  <2> QED
    BY <1>5, <2>1, <2>3 DEF HartRec
<1> HIDE DEF v
<1>7. EdgeExact(v)
  BY <1>0, <1>6 DEF EdgeExact
<1> QED
  BY <1>2, <1>6, <1>7, TestInterrupt DEF SameRegisters

\* A write of a threshold, which tests interrupts only if it falls.
LEMMA ThreshWrite ==
  ASSUME config \in Configs, NEW cfg \in CfgRec, NEW s, HartInv(s, cfg),
         s.pendEnab.id = NoInt, NEW X \in Modes, NEW th \in config.ths,
         NEW u, u = intthreshW(s, X, th, cfg)
  PROVE  HartInv(u, cfg) /\ u.ip = s.ip
<1> DEFINE t == [s EXCEPT !.th[X] = legalThresh(th)]
<1>0. s \in HartRec /\ EdgeExact(s)
  BY DEF HartInv
<1>1. legalThresh(th) \in Levels
  BY ConfigType, ThreshType
<1>2. /\ t \in HartRec /\ t.ip = s.ip /\ t.ie = s.ie /\ t.ipe = s.ipe /\ t.attr = s.attr
      /\ t.ctl = s.ctl /\ t.sel = s.sel /\ t.pendEnab = s.pendEnab
      /\ t.mode = s.mode /\ t.IE = s.IE /\ t.il = s.il
      /\ t.th = [s.th EXCEPT ![X] = legalThresh(th)]
  BY <1>0, <1>1 DEF HartRec
<1>3. u = IF t.th[X] < s.th[X] THEN riscvTestInterrupt(t, cfg) ELSE t
  BY DEF intthreshW
<1> HIDE DEF t
<1>4. CASE t.th[X] < s.th[X]
  <2>1. EdgeExact(t)
    BY <1>0, <1>2 DEF EdgeExact
  <2> QED
    BY <1>2, <1>3, <1>4, <2>1, TestInterrupt DEF SameRegisters
<1>5. CASE ~(t.th[X] < s.th[X])
  <2>1. ASSUME NEW m \in t.IE
        PROVE  s.il[m] <= t.il[m] /\ s.th[m] <= t.th[m]
    <3>1. /\ m \in Modes /\ s.il[m] \in Levels /\ t.il[m] = s.il[m]
          /\ s.th[m] \in Levels /\ t.th[m] \in Levels
      BY <1>0, <1>2 DEF HartRec
    <3>2. s.il[m] <= t.il[m]
      BY <3>1 DEF Levels
    <3>3. s.th[m] <= t.th[m]
      <4>1. CASE m = X
        BY <1>5, <3>1, <4>1, LevelOrder
      <4>2. CASE m # X
        <5>1. t.th[m] = s.th[m]
          BY <1>0, <1>2, <3>1, <4>2 DEF HartRec
        <5> QED
          BY <3>1, <5>1 DEF Levels
      <4> QED
        BY <4>1, <4>2
    <3> QED
      BY <3>2, <3>3
  <2>2. s.mode <= t.mode
    BY <1>0, <1>2 DEF HartRec, Modes, U, S, M
  <2> QED
    BY <1>2, <1>3, <1>5, <2>1, <2>2, StillNone
<1> QED
  BY <1>4, <1>5

\* An interrupt claimed by xnxti becomes the cause.
LEMMA NextInterrupt ==
  ASSUME config \in Configs, NEW cfg \in CfgRec, NEW s, HartInv(s, cfg),
         s.pendEnab.id = NoInt, NEW X \in {S, M}, NEW ies \in SUBSET Modes,
         NEW u, u = nxtiW(s, X, ies, cfg)
  PROVE  /\ HartInv(u, cfg)
         /\ \A j : j \in s.ip /\ j \notin u.ip => u.cause[X] = j
<1> DEFINE t == statusW(s, ies, cfg)
           x == [t EXCEPT !.il[X] = t.sel.level, !.cause[X] = t.sel.id]
<1>0. s \in HartRec /\ X \in Modes
  BY DEF HartInv, Modes
<1>1. HartInv(t, cfg) /\ t.ip = s.ip
  BY StatusWrite
<1>2. u = IF ~nxtiReady(t, X) THEN t ELSE riscvAcknowledgeCLICInt(x, t.sel.id, cfg)
  BY DEF nxtiW
<1> HIDE DEF t
<1>3. CASE ~nxtiReady(t, X)
  BY <1>1, <1>2, <1>3
<1>4. CASE nxtiReady(t, X)
  <2>1. t \in HartRec /\ t.sel \in SelRec /\ t.sel.priv = X
    BY <1>1, <1>4 DEF HartInv, nxtiReady, HartRec
  <2>2. t.ipe # {} /\ t.sel.id \in t.ipe
    <3>1. t.sel # NoSel
      BY <2>1 DEF NoSel, U, S, M
    <3>2. t.sel = riscvRefreshPendingAndEnabledInternalCLIC(t, cfg)
      BY <1>1 DEF HartInv, Selected
    <3> QED
      BY <2>1, <3>1, <3>2, SelectionType
  <2>3. t.sel.id \in Ints /\ t.sel.level \in Levels
    BY <2>1, <2>2 DEF HartRec, SelRec
  <2>4. /\ x \in HartRec /\ x.ip = t.ip /\ x.ie = t.ie /\ x.ipe = t.ipe /\ x.attr = t.attr
        /\ x.ctl = t.ctl /\ x.sel = t.sel /\ x.cause[X] = t.sel.id
    BY <1>0, <2>1, <2>3 DEF HartRec
  <2> HIDE DEF x
  <2>5. Core(t, cfg)
    BY <1>1 DEF HartInv, Core
  <2>6. Core(x, cfg)
    BY <2>4, <2>5, CoreKept
  <2>7. u = riscvAcknowledgeCLICInt(x, t.sel.id, cfg)
    BY <1>2, <1>4
  <2>8. t.sel.id \in x.ipe
    BY <2>2, <2>4
  <2>9. /\ HartInv(u, cfg) /\ SameHart(x, u)
        /\ \A j : j \in x.ip /\ j \notin u.ip => j = t.sel.id
    BY <2>3, <2>6, <2>7, <2>8, Acknowledge
  <2> QED
    BY <1>1, <2>4, <2>9 DEF SameHart
<1> QED
  BY <1>3, <1>4

\* Software writes xcause.pil, which presentation does not read.
LEMMA CauseWrite ==
  ASSUME config \in Configs, NEW cfg \in CfgRec, NEW s, HartInv(s, cfg),
         NEW X \in Modes, NEW pil \in config.pils, NEW t, t = [s EXCEPT !.pil[X] = pil]
  PROVE  HartInv(t, cfg) /\ t.ip = s.ip
<1>0. s \in HartRec /\ Core(s, cfg) /\ Registered(s)
  BY DEF HartInv, Core
<1>1. pil \in Levels
  BY ConfigType
<1>2. /\ t \in HartRec /\ t.ip = s.ip /\ t.ie = s.ie /\ t.ipe = s.ipe /\ t.attr = s.attr
      /\ t.ctl = s.ctl /\ t.sel = s.sel /\ t.pendEnab = s.pendEnab
      /\ t.mode = s.mode /\ t.IE = s.IE /\ t.il = s.il /\ t.th = s.th
  BY <1>0, <1>1 DEF HartRec
<1>3. Core(t, cfg)
  BY <1>0, <1>2, CoreKept
<1>4. Registered(t)
  BY <1>0, <1>2 DEF Registered, presented
<1> QED
  BY <1>2, <1>3, <1>4 DEF HartInv, Core

\* Reset, which tests no interrupt, keeps the invariant: it disables every mode.
LEMMA ResetHart ==
  ASSUME config \in Configs, does("reset"), NEW cfg \in CfgRec, NEW s, HartInv(s, cfg),
         NEW t, t = riscvReset(s)
  PROVE  HartInv(t, cfg) /\ t.ip = s.ip
<1> DEFINE PP == [m \in Modes |-> U]
           il == [m \in Modes |-> 0]
           pil == [s.pil EXCEPT ![M] = 0]
           cause == [s.cause EXCEPT ![M] = NoInt]
<1>0. s \in HartRec /\ Core(s, cfg)
  BY DEF HartInv, Core
<1>1. t = [s EXCEPT !.mode = M, !.IE = {}, !.PIE = {}, !.PP = PP, !.il = il, !.pil = pil,
                    !.cause = cause]
  BY <1>0 DEF riscvReset, HartRec
<1>2. /\ PP \in [Modes -> Modes] /\ il \in [Modes -> Levels] /\ pil \in [Modes -> Levels]
      /\ cause \in [Modes -> Ints \cup {NoInt}] /\ M \in Modes
  <2>1. 0 \in Levels /\ M \in Modes /\ U \in Modes
    BY DEF Levels, Modes
  <2> QED
    BY <1>0, <2>1 DEF HartRec
<1> HIDE DEF PP, il, pil, cause
<1>3. /\ t \in HartRec /\ t.ip = s.ip /\ t.ie = s.ie /\ t.ipe = s.ipe /\ t.attr = s.attr
      /\ t.ctl = s.ctl /\ t.sel = s.sel /\ t.IE = {}
  BY <1>0, <1>1, <1>2, ZenonT(60) DEF HartRec
<1>4. Core(t, cfg)
  BY <1>0, <1>3, CoreKept
<1> QED
  BY <1>3, <1>4 DEF HartInv, Core, Registered

-----------------------------------------------------------------------------
(* Configuration registers.                                                *)

\* A write of nlbits leaves a value that CLICCFGLBITS allows.
LEMMA NlbitsWrite ==
  ASSUME config \in Configs, NEW cfg \in CfgRec, NEW m \in Modes, NEW n \in Nat
  PROVE  nlbitsW(cfg, m, n) \in CfgRec
<1>1. config.LBITS \in 0..8
  BY ConfigType
<1>2. cfg.nlbits[m] \in 0..config.LBITS
  BY DEF CfgRec
<1> DEFINE v == IF n > config.LBITS THEN config.LBITS
                ELSE IF n \in config.valid THEN n ELSE cfg.nlbits[m]
<1>3. v \in 0..config.LBITS
  BY <1>1, <1>2
<1>4. nlbitsW(cfg, m, n) = [cfg EXCEPT !.nlbits[m] = v]
  BY DEF nlbitsW, CfgRec
<1> HIDE DEF v
<1> QED
  BY <1>3, <1>4 DEF CfgRec

\* A write of nmbits leaves a value that CLICCFGMBITS allows.
LEMMA NmbitsWrite ==
  ASSUME config \in Configs, NEW cfg \in CfgRec, NEW n \in Nat
  PROVE  nmbitsW(cfg, n) \in CfgRec
<1>1. config.MBITS \in 0..2
  BY ConfigType
<1> DEFINE v == IF n > config.MBITS THEN config.MBITS ELSE n
<1>2. v \in 0..config.MBITS
  BY <1>1
<1>3. nmbitsW(cfg, n) = [cfg EXCEPT !.nmbits = v]
  BY DEF nmbitsW
<1> HIDE DEF v
<1> QED
  BY <1>2, <1>3 DEF CfgRec

\* Every cliccfg register leaves a legal configuration.
LEMMA ConfigWrites ==
  ASSUME config \in Configs, NEW cfg \in CfgRec, NEW nl \in Nat, NEW nm \in Nat
  PROVE  /\ cliccfgW(cfg, nl, nm) \in CfgRec
         /\ mcliccfgW(cfg, nl, nm) \in CfgRec
         /\ scliccfgW(cfg, nl) \in CfgRec
         /\ ucliccfgW(cfg, nl) \in CfgRec
<1>1. M \in Modes /\ S \in Modes /\ U \in Modes
  BY DEF Modes
<1>2. mcliccfgW(cfg, nl, nm) \in CfgRec
  BY <1>1, NlbitsWrite, NmbitsWrite DEF mcliccfgW
<1>3. scliccfgW(cfg, nl) \in CfgRec /\ ucliccfgW(cfg, nl) \in CfgRec
  BY <1>1, NlbitsWrite DEF scliccfgW, ucliccfgW
<1>4. cliccfgW(cfg, nl, nm) \in CfgRec
  <2> DEFINE new == nmbitsW(nlbitsW(cfg, M, nl), nm)
             all == [m \in Modes |-> new.nlbits[M]]
  <2>1. new \in CfgRec
    BY <1>2 DEF mcliccfgW
  <2>2. cliccfgW(cfg, nl, nm) = [new EXCEPT !.nlbits = all]
    BY DEF cliccfgW
  <2> HIDE DEF new
  <2>3. all \in [Modes -> 0..config.LBITS]
    BY <1>1, <2>1 DEF CfgRec
  <2> HIDE DEF all
  <2> QED
    BY <2>1, <2>2, <2>3 DEF CfgRec
<1> QED
  BY <1>2, <1>3, <1>4

\* Reset leaves a legal configuration.
LEMMA ResetConfig ==
  ASSUME config \in Configs, cliccfg \in CfgRec
  PROVE  riscvResetCLIC \in CfgRec
<1>1. cliccfgW(cliccfg, 0, 0) \in CfgRec
  BY ConfigWrites
<1>2. mcliccfgW(cliccfg, 0, 0) \in CfgRec
  BY ConfigWrites
<1>3. scliccfgW(mcliccfgW(cliccfg, 0, 0), 0) \in CfgRec
  BY <1>2, ConfigWrites
<1>4. ucliccfgW(scliccfgW(mcliccfgW(cliccfg, 0, 0), 0), 0) \in CfgRec
  BY <1>3, ConfigWrites
<1> QED
  BY <1>1, <1>4 DEF riscvResetCLIC

\* A change of the configuration refreshes all harts.
LEMMA RefreshAll ==
  ASSUME config \in Configs, NEW cfg \in CfgRec,
         NEW harts, \A h \in Harts : harts[h] \in HartRec /\ EdgeExact(harts[h])
  PROVE  \A h \in Harts : /\ HartInv(refreshCCLICInterruptAll(harts, cfg)[h], cfg)
                          /\ refreshCCLICInterruptAll(harts, cfg)[h].ip = harts[h].ip
<1> SUFFICES ASSUME NEW h \in Harts
             PROVE  LET u == riscvTestInterrupt(harts[h], cfg)
                    IN  HartInv(u, cfg) /\ u.ip = harts[h].ip
  BY DEF refreshCCLICInterruptAll
<1>1. harts[h] \in HartRec /\ EdgeExact(harts[h])
  OBVIOUS
<1> QED
  BY <1>1, TestInterrupt DEF SameRegisters

-----------------------------------------------------------------------------
(* Steps.                                                                  *)

\* An edge that disappears is the cause of a trap or xnxti.
Reports(s, u) ==
  \A j : (j \in s.ip /\ j \notin u.ip /\ s.attr[j].edge) => \E m \in Modes : u.cause[m] = j

HartAction(h) ==
  \/ interruptPortCB(h) \/ WriteInt(h) \/ TakeInterrupt(h) \/ TakeException(h) \/ XRET(h)
  \/ StatusW(h) \/ IntthreshW(h) \/ NxtiW(h) \/ CauseW(h)

\* What a step of hart h makes of it.
LEMMA HartStep ==
  ASSUME IInv, NEW h \in Harts, HartAction(h)
  PROVE  \E u : /\ become(h, u) /\ HartInv(u, cliccfg)
                /\ WriteInt(h) \/ Reports(hart[h], u)
<1> DEFINE s == hart[h]
           Goal == \E u : /\ become(h, u) /\ HartInv(u, cliccfg)
                          /\ WriteInt(h) \/ Reports(s, u)
<1>0. config \in Configs /\ cliccfg \in CfgRec /\ HartInv(s, cliccfg)
  BY DEF IInv
<1>a. M \in Modes /\ S \in Modes /\ U \in Modes /\ {S, M} \subseteq Modes
  BY DEF Modes
<1>1. CASE interruptPortCB(h)
  <2>1. PICK i \in Ints : become(h, riscvUpdateInterrupt(s, i, i \notin s.line, cliccfg))
    BY <1>1 DEF interruptPortCB
  <2>2. PICK v \in BOOLEAN : v = (i \notin s.line)
    BY Zenon
  <2>3. PICK u : u = riscvUpdateInterrupt(s, i, v, cliccfg)
    OBVIOUS
  <2>4. HartInv(u, cliccfg) /\ \A j : j \in s.ip /\ j \notin u.ip => ~s.attr[j].edge
    BY <1>0, <2>3, UpdateInput
  <2> QED
    BY <2>1, <2>2, <2>3, <2>4, Zenon DEF Reports
<1>2. CASE WriteInt(h)
  <2>1. PICK i \in Ints, page \in {S, M} \cup (IF config.N THEN {U} ELSE {}) :
          \/ \E v \in BOOLEAN :
               \/ become(h, writeCLICInterruptPending(s, i, v, config.mayPendLevel, cliccfg))
               \/ become(h, writeCLICInterruptEnable(s, i, v, cliccfg))
          \/ \E a \in config.attrs : become(h, writeCLICInterruptAttr(s, i, a, page, cliccfg))
          \/ \E v \in config.ctls : become(h, writeCLICInterruptCtl(s, i, v, cliccfg))
    BY <1>2, Zenon DEF WriteInt
  <2>2. page \in Modes
    BY <1>a
  <2>3. config.mayPendLevel \in BOOLEAN /\ config.ctls \subseteq Levels
    BY <1>0, ConfigType, ClicAssumption
  <2>4. Core(s, cliccfg) /\ Registered(s)
    BY <1>0 DEF HartInv, Core
  <2>5. ASSUME NEW v \in BOOLEAN
        PROVE  /\ HartInv(writeCLICInterruptPending(s, i, v, config.mayPendLevel, cliccfg), cliccfg)
               /\ HartInv(writeCLICInterruptEnable(s, i, v, cliccfg), cliccfg)
    BY <1>0, <2>3, <2>4, WritePending, WriteEnable
  <2>6. \A a \in config.attrs : HartInv(writeCLICInterruptAttr(s, i, a, page, cliccfg), cliccfg)
    BY <1>0, <2>2, WriteAttr
  <2>7. \A v \in config.ctls : HartInv(writeCLICInterruptCtl(s, i, v, cliccfg), cliccfg)
    BY <1>0, <2>3, WriteCtl
  <2> QED
    BY <1>2, <2>1, <2>5, <2>6, <2>7, Zenon
<1>3. CASE TakeInterrupt(h)
  <2>1. s.pendEnab.id # NoInt /\ become(h, doInterrupt(s, cliccfg))
    BY <1>3 DEF TakeInterrupt, runs
  <2>2. PICK u : u = doInterrupt(s, cliccfg)
    OBVIOUS
  <2>3. /\ HartInv(u, cliccfg) /\ u.cause[s.pendEnab.priv] = s.pendEnab.id
        /\ \A j : j \in s.ip /\ j \notin u.ip => j = s.pendEnab.id
    BY <1>0, <2>1, <2>2, TakeInt
  <2>4. s.pendEnab.priv \in Modes
    BY <1>0 DEF HartInv, HartRec, PendRec
  <2> QED
    BY <2>1, <2>2, <2>3, <2>4 DEF Reports
<1>4. CASE TakeException(h)
  <2>1. PICK X \in {S, M} : s.mode <= X /\ become(h, takeException(s, X))
    BY <1>4 DEF TakeException
  <2>2. s.pendEnab.id = NoInt
    BY <1>4 DEF TakeException, runs
  <2>3. PICK u : u = takeException(s, X)
    OBVIOUS
  <2>4. HartInv(u, cliccfg) /\ u.ip = s.ip
    BY <1>0, <1>a, <2>1, <2>2, <2>3, TakeExc
  <2> QED
    BY <2>1, <2>3, <2>4 DEF Reports
<1>5. CASE XRET(h)
  <2>1. PICK X \in {S, M} \cup (IF config.N THEN {U} ELSE {}) : become(h, xret(s, X, cliccfg))
    BY <1>5 DEF XRET
  <2>2. X \in Modes
    BY <1>a
  <2>3. PICK u : u = xret(s, X, cliccfg)
    OBVIOUS
  <2>4. HartInv(u, cliccfg) /\ u.ip = s.ip
    BY <1>0, <2>2, <2>3, Return
  <2> QED
    BY <2>1, <2>3, <2>4 DEF Reports
<1>6. CASE StatusW(h)
  <2>1. PICK ies \in SUBSET Modes : become(h, statusW(s, ies, cliccfg))
    BY <1>6 DEF StatusW
  <2>2. s.pendEnab.id = NoInt
    BY <1>6 DEF StatusW, runs
  <2>3. PICK u : u = statusW(s, ies, cliccfg)
    OBVIOUS
  <2>4. HartInv(u, cliccfg) /\ u.ip = s.ip
    BY <1>0, <2>2, <2>3, StatusWrite
  <2> QED
    BY <2>1, <2>3, <2>4 DEF Reports
<1>7. CASE IntthreshW(h)
  <2>1. PICK X \in Modes, th \in config.ths : become(h, intthreshW(s, X, th, cliccfg))
    BY <1>7 DEF IntthreshW
  <2>2. s.pendEnab.id = NoInt
    BY <1>7 DEF IntthreshW, runs
  <2>3. PICK u : u = intthreshW(s, X, th, cliccfg)
    OBVIOUS
  <2>4. HartInv(u, cliccfg) /\ u.ip = s.ip
    BY <1>0, <2>2, <2>3, ThreshWrite
  <2> QED
    BY <2>1, <2>3, <2>4 DEF Reports
<1>8. CASE NxtiW(h)
  <2>1. PICK X \in {S, M}, ies \in SUBSET {S, M} : become(h, nxtiW(s, X, ies, cliccfg))
    BY <1>8 DEF NxtiW
  <2>2. s.pendEnab.id = NoInt /\ ies \in SUBSET Modes /\ X \in Modes
    BY <1>8, <1>a DEF NxtiW, runs
  <2>3. PICK u : u = nxtiW(s, X, ies, cliccfg)
    OBVIOUS
  <2>4. HartInv(u, cliccfg) /\ \A j : j \in s.ip /\ j \notin u.ip => u.cause[X] = j
    BY <1>0, <2>2, <2>3, NextInterrupt
  <2> QED
    BY <2>1, <2>2, <2>3, <2>4 DEF Reports
<1>9. CASE CauseW(h)
  <2>1. PICK X \in {S, M}, pil \in config.pils : become(h, [s EXCEPT !.pil[X] = pil])
    BY <1>9 DEF CauseW
  <2>2. PICK u : u = [s EXCEPT !.pil[X] = pil]
    OBVIOUS
  <2>3. HartInv(u, cliccfg) /\ u.ip = s.ip
    BY <1>0, <1>a, <2>2, CauseWrite
  <2> QED
    BY <2>1, <2>2, <2>3 DEF Reports
<1> QED
  BY <1>1, <1>2, <1>3, <1>4, <1>5, <1>6, <1>7, <1>8, <1>9 DEF HartAction

\* The invariant of the next state, whose configuration is the same.
LEMMA InvFrame ==
  ASSUME config \in Configs, config' = config, cliccfg' \in CfgRec,
         hart' = [h \in Harts |-> hart'[h]], \A h \in Harts : HartInv(hart'[h], cliccfg')
  PROVE  IInv'
<1>1. (Harts)' = Harts /\ (CfgRec)' = CfgRec /\ (HartRec)' = HartRec
  BY DEF Harts, CfgRec, HartRec, SelRec, PendRec, Ints
<1>2. ASSUME NEW h \in Harts
      PROVE  HartInv(hart[h], cliccfg)'
  <2>1. HartInv(hart'[h], cliccfg')
    OBVIOUS
  <2>2. (hart[h])' \in (HartRec)' /\ EdgeExact(hart[h])'
    BY <1>1, <2>1 DEF HartInv, EdgeExact
  <2>3. Selected(hart[h], cliccfg)'
    <3> DEFINE
         mode(c, s, cfg, i) ==
           IF cfg.nmbits = 0 THEN M
           ELSE IF c.MBITS = 1 THEN IF s.attr[i].mode >= 2 THEN M ELSE U
           ELSE IF cfg.nmbits = 1 /\ s.attr[i].mode = U THEN S ELSE s.attr[i].mode
         order(c, s, cfg, i) == mode(c, s, cfg, i) * 256 + s.ctl[i]
         choice(c, s, cfg) ==
           CHOOSE i \in s.ipe : \A j \in s.ipe :
             \/ order(c, s, cfg, i) > order(c, s, cfg, j)
             \/ order(c, s, cfg, i) = order(c, s, cfg, j) /\ i >= j
         selection(c, s, cfg) ==
           IF s.ipe = {} THEN NoSel
           ELSE LET id   == choice(c, s, cfg)
                    priv == mode(c, s, cfg, id)
                IN  [id |-> id, priv |-> priv, level |-> levelOf(s.ctl[id], cfg.nlbits[priv]),
                     shv |-> s.attr[id].shv]
    <3>1. riscvRefreshPendingAndEnabledInternalCLIC(hart'[h], cliccfg')
            = selection(config, hart'[h], cliccfg')
      BY DEF riscvRefreshPendingAndEnabledInternalCLIC, rank, getCLICInterruptMode
    <3>2. riscvRefreshPendingAndEnabledInternalCLIC(hart[h], cliccfg)'
            = selection(config', hart'[h], cliccfg')
      BY DEF riscvRefreshPendingAndEnabledInternalCLIC, rank, getCLICInterruptMode
    <3> HIDE DEF selection
    <3> QED
      BY <2>1, <3>1, <3>2 DEF HartInv, Selected
  <2>4. Registered(hart[h])'
    BY <2>1 DEF HartInv, Registered, does
  <2> QED
    BY <2>2, <2>3, <2>4 DEF HartInv
<1> QED
  BY <1>1, <1>2 DEF IInv

\* The smallest nlbits that is valid is one that CLICCFGLBITS allows.
LEMMA SmallestNlbits ==
  ASSUME config \in Configs
  PROVE  Min(config.valid) \in 0..config.LBITS
<1> DEFINE V == config.valid
<1>1. V \subseteq 0..8 /\ V \cap 0..config.LBITS # {} /\ config.LBITS \in 0..8
  BY ClicAssumption
<1> HIDE DEF V
<1>2. \E x \in V : \A y \in V : x <= y
  <2> SUFFICES ASSUME \A x \in V : \E y \in V : ~(x <= y)
               PROVE  FALSE
    OBVIOUS
  <2>1. 0 \notin V
    BY <1>1
  <2>2. 1 \notin V
    BY <1>1, <2>1
  <2>3. 2 \notin V
    BY <1>1, <2>1, <2>2
  <2>4. 3 \notin V
    BY <1>1, <2>1, <2>2, <2>3
  <2>5. 4 \notin V
    BY <1>1, <2>1, <2>2, <2>3, <2>4
  <2>6. 5 \notin V
    BY <1>1, <2>1, <2>2, <2>3, <2>4, <2>5
  <2>7. 6 \notin V
    BY <1>1, <2>1, <2>2, <2>3, <2>4, <2>5, <2>6
  <2>8. 7 \notin V
    BY <1>1, <2>1, <2>2, <2>3, <2>4, <2>5, <2>6, <2>7
  <2>9. 8 \notin V
    BY <1>1, <2>1, <2>2, <2>3, <2>4, <2>5, <2>6, <2>7, <2>8
  <2> QED
    BY <1>1, <2>1, <2>2, <2>3, <2>4, <2>5, <2>6, <2>7, <2>8, <2>9
<1>3. Min(V) \in V /\ \A y \in V : Min(V) <= y
  BY <1>2 DEF Min
<1>4. PICK l \in V : l \in 0..config.LBITS
  BY <1>1
<1>5. Min(V) \in 0..8 /\ Min(V) <= l
  BY <1>1, <1>3
<1>6. Min(V) \in 0..config.LBITS
  BY <1>1, <1>4, <1>5
<1> QED
  BY <1>6 DEF V

\* The invariant holds initially.
LEMMA InitInv == Init => IInv
<1> SUFFICES ASSUME Init PROVE IInv
  OBVIOUS
<1>1. config \in Configs
  BY DEF Init
<1>2. cliccfg \in CfgRec
  <2>1. cliccfg = [nlbits |-> [m \in Modes |-> Min(config.valid)], nmbits |-> 0]
    BY DEF Init
  <2>2. config.MBITS \in 0..2
    BY <1>1, ConfigType
  <2>3. [m \in Modes |-> Min(config.valid)] \in [Modes -> 0..config.LBITS]
    BY <1>1, SmallestNlbits
  <2> QED
    BY <2>1, <2>2, <2>3 DEF CfgRec
<1>3. hart = [h \in Harts |-> hart[h]]
  BY DEF Init
<1>4. ASSUME NEW h \in Harts
      PROVE  HartInv(hart[h], cliccfg)
  <2> DEFINE s == hart[h]
  <2>1. /\ s.line = {} /\ s.ip = {} /\ s.ie = {} /\ s.ipe = {}
        /\ s.attr = [i \in Ints |-> InitAttr(i)] /\ s.sel = NoSel /\ s.pendEnab = NoPend
        /\ s.IE = {}
    BY DEF Init
  <2>2. s \in HartRec
    <3>1. ASSUME NEW i \in Ints
          PROVE  InitAttr(i) \in Attr
      <4> DEFINE fixed == i \in config.posedge
      <4>0. fixed \in BOOLEAN
        OBVIOUS
      <4>1. PICK b \in BOOLEAN : b = fixed
        BY <4>0, Zenon
      <4>2. InitAttr(i) = [edge |-> b, low |-> FALSE, shv |-> FALSE, mode |-> M]
        BY <4>1, Zenon DEF InitAttr
      <4> QED
        BY <4>2 DEF Attr, Modes
    <3>2. 0 \in Levels
      BY DEF Levels
    <3>3. getCLICIntCtl1Bits \in Levels /\ config.threshOnes \in Levels
      BY <1>1, <3>2, CtlType, ThreshType
    <3>4. NoSel \in SelRec /\ NoPend \in PendRec /\ M \in Modes /\ U \in Modes
      BY <3>2 DEF NoSel, SelRec, NoPend, PendRec, Modes
    <3>5. /\ [i \in Ints |-> InitAttr(i)] \in [Ints -> Attr]
          /\ [i \in Ints |-> getCLICIntCtl1Bits] \in [Ints -> Levels]
          /\ [m \in Modes |-> U] \in [Modes -> Modes]
          /\ [m \in Modes |-> 0] \in [Modes -> Levels]
          /\ [m \in Modes |-> config.threshOnes] \in [Modes -> Levels]
          /\ [m \in Modes |-> NoInt] \in [Modes -> Ints \cup {NoInt}]
      BY <3>1, <3>2, <3>3, <3>4
    <3> DEFINE A == [i \in Ints |-> InitAttr(i)]
               C == [i \in Ints |-> getCLICIntCtl1Bits]
               P == [m \in Modes |-> U]
               Z == [m \in Modes |-> 0]
               T == [m \in Modes |-> config.threshOnes]
               N == [m \in Modes |-> NoInt]
    <3>6. s = [line |-> {}, ip |-> {}, ie |-> {}, ipe |-> {}, attr |-> A, ctl |-> C,
               sel |-> NoSel, pendEnab |-> NoPend, mode |-> M, IE |-> {}, PIE |-> {},
               PP |-> P, il |-> Z, pil |-> Z, th |-> T, cause |-> N]
      BY DEF Init
    <3>7. /\ A \in [Ints -> Attr] /\ C \in [Ints -> Levels] /\ P \in [Modes -> Modes]
          /\ Z \in [Modes -> Levels] /\ T \in [Modes -> Levels]
          /\ N \in [Modes -> Ints \cup {NoInt}]
      BY <3>5
    <3> HIDE DEF A, C, P, Z, T, N, s
    <3> QED
      BY <3>4, <3>6, <3>7 DEF HartRec
  <2>3. EdgeExact(s)
    <3>1. ASSUME NEW i \in config.posedge
          PROVE  s.attr[i].edge
      <4>1. i \in Ints
        BY <1>1, ConfigType
      <4>2. s.attr[i] = InitAttr(i)
        BY <2>1, <4>1
      <4>3. InitAttr(i).edge
        BY DEF InitAttr
      <4> QED
        BY <4>2, <4>3
    <3> QED
      BY <2>1, <3>1 DEF EdgeExact
  <2>4. Selected(s, cliccfg)
    BY <2>1 DEF Selected, riscvRefreshPendingAndEnabledInternalCLIC
  <2>5. Registered(s)
    BY <2>1 DEF Registered, presented, NoSel
  <2> QED
    BY <2>2, <2>3, <2>4, <2>5 DEF HartInv
<1> QED
  BY <1>1, <1>2, <1>3, <1>4 DEF IInv

\* Every step keeps the invariant, and reports the edges it consumes.
LEMMA NextInv ==
  ASSUME IInv, [Next]_vars
  PROVE  /\ IInv' /\ config' = config
         /\ \A h \in Harts : WriteInt(h) \/ Reports(hart[h], hart'[h])
<1>0. /\ config \in Configs /\ cliccfg \in CfgRec /\ hart = [h \in Harts |-> hart[h]]
      /\ \A h \in Harts : HartInv(hart[h], cliccfg)
  BY DEF IInv
<1>1. \A h \in Harts : hart'[h].ip = hart[h].ip => Reports(hart[h], hart'[h])
  BY DEF Reports
<1>2. ASSUME NEW h \in Harts, HartAction(h)
      PROVE  /\ IInv' /\ config' = config
             /\ \A g \in Harts : WriteInt(g) \/ Reports(hart[g], hart'[g])
  <2>1. PICK u : /\ become(h, u) /\ HartInv(u, cliccfg)
                 /\ WriteInt(h) \/ Reports(hart[h], u)
    BY <1>2, HartStep
  <2>2. hart' = [hart EXCEPT ![h] = u] /\ config' = config /\ cliccfg' = cliccfg
    BY <2>1 DEF become
  <2>3. hart'[h] = u /\ \A g \in Harts \ {h} : hart'[g] = hart[g]
    BY <1>0, <2>2
  <2>4. hart' = [g \in Harts |-> hart'[g]]
    BY <1>0, <2>2
  <2>5. \A g \in Harts : HartInv(hart'[g], cliccfg')
    BY <1>0, <2>1, <2>2, <2>3
  <2>6. \A g \in Harts : WriteInt(g) \/ Reports(hart[g], hart'[g])
    BY <1>1, <2>1, <2>3
  <2> QED
    BY <1>0, <2>2, <2>4, <2>5, <2>6, InvFrame
<1>3. ASSUME NEW cfg \in CfgRec, config' = config, configure(cfg)
      PROVE  IInv' /\ \A h \in Harts : Reports(hart[h], hart'[h])
  <2>1. CASE cfg = cliccfg
    <3>1. cliccfg' = cliccfg /\ hart' = hart
      BY <1>3, <2>1 DEF configure
    <3> QED
      BY <1>0, <1>1, <1>3, <3>1, InvFrame
  <2>2. CASE cfg # cliccfg
    <3>1. cliccfg' = cfg /\ hart' = refreshCCLICInterruptAll(hart, cfg)
      BY <1>3, <2>2 DEF configure
    <3>2. \A h \in Harts : HartInv(hart'[h], cfg) /\ hart'[h].ip = hart[h].ip
      <4>1. \A h \in Harts : hart[h] \in HartRec /\ EdgeExact(hart[h])
        BY <1>0 DEF HartInv
      <4> QED
        BY <1>0, <3>1, <4>1, RefreshAll
    <3>3. hart' = [h \in Harts |-> hart'[h]]
      BY <3>1 DEF refreshCCLICInterruptAll
    <3> QED
      BY <1>0, <1>1, <1>3, <3>1, <3>2, <3>3, InvFrame
  <2> QED
    BY <2>1, <2>2
<1>4. CASE WriteCfg
  <2>1. config' = config
    BY <1>4 DEF WriteCfg
  <2>2. PICK nl \in {0, 1, 8}, nm \in 0..2 :
          \/ configure(cliccfgW(cliccfg, nl, nm))
          \/ configure(mcliccfgW(cliccfg, nl, nm))
          \/ configure(scliccfgW(cliccfg, nl))
          \/ configure(ucliccfgW(cliccfg, nl))
    BY <1>4, Zenon DEF WriteCfg
  <2>3. nl \in Nat /\ nm \in Nat
    OBVIOUS
  <2>4. /\ cliccfgW(cliccfg, nl, nm) \in CfgRec /\ mcliccfgW(cliccfg, nl, nm) \in CfgRec
        /\ scliccfgW(cliccfg, nl) \in CfgRec /\ ucliccfgW(cliccfg, nl) \in CfgRec
    BY <1>0, <2>3, ConfigWrites
  <2>5. IInv' /\ \A h \in Harts : Reports(hart[h], hart'[h])
    BY <1>3, <2>1, <2>2, <2>4, Zenon
  <2> QED
    BY <2>1, <2>5
<1>5. ASSUME NEW h \in Harts, Reset(h)
      PROVE  /\ IInv' /\ config' = config
             /\ \A g \in Harts : WriteInt(g) \/ Reports(hart[g], hart'[g])
  <2> DEFINE cfg == riscvResetCLIC
             harts == [hart EXCEPT ![h] = riscvReset(hart[h])]
  <2>1. /\ does("reset") /\ config' = config /\ cliccfg' = cfg
        /\ hart' = IF cfg = cliccfg THEN harts ELSE refreshCCLICInterruptAll(harts, cfg)
    BY <1>5 DEF Reset
  <2>2. cfg \in CfgRec
    BY <1>0, ResetConfig
  <2>3. harts[h] = riscvReset(hart[h]) /\ \A g \in Harts \ {h} : harts[g] = hart[g]
    BY <1>0
  <2>4. harts = [g \in Harts |-> harts[g]]
    BY <1>0
  <2> HIDE DEF cfg, harts
  <2>5. HartInv(harts[h], cliccfg) /\ harts[h].ip = hart[h].ip
    BY <1>0, <2>1, <2>3, ResetHart
  <2>6. \A g \in Harts : HartInv(harts[g], cliccfg) /\ harts[g].ip = hart[g].ip
    BY <1>0, <2>3, <2>5
  <2>7. CASE cfg = cliccfg
    BY <1>0, <1>1, <2>1, <2>2, <2>4, <2>6, <2>7, InvFrame
  <2>8. CASE cfg # cliccfg
    <3>1. hart' = refreshCCLICInterruptAll(harts, cfg)
      BY <2>1, <2>8
    <3>2. \A g \in Harts : HartInv(hart'[g], cfg) /\ hart'[g].ip = harts[g].ip
      <4>1. \A g \in Harts : harts[g] \in HartRec /\ EdgeExact(harts[g])
        BY <2>6 DEF HartInv
      <4>2. \A g \in Harts : /\ HartInv(refreshCCLICInterruptAll(harts, cfg)[g], cfg)
                              /\ refreshCCLICInterruptAll(harts, cfg)[g].ip = harts[g].ip
        BY <1>0, <2>2, <4>1, RefreshAll
      <4> QED
        BY <3>1, <4>2
    <3>3. hart' = [g \in Harts |-> hart'[g]]
      BY <3>1 DEF refreshCCLICInterruptAll
    <3> QED
      BY <1>0, <1>1, <2>1, <2>2, <2>6, <3>2, <3>3, InvFrame
  <2> QED
    BY <2>7, <2>8
<1>6. CASE UNCHANGED vars
  <2>1. config' = config /\ cliccfg' = cliccfg /\ hart' = hart
    BY <1>6 DEF vars
  <2> QED
    BY <1>0, <1>1, <2>1, InvFrame
<1> QED
  BY <1>2, <1>4, <1>5, <1>6, Zenon DEF Next, HartAction

-----------------------------------------------------------------------------
(* Results.                                                                *)

\* The invariant holds always.
LEMMA Inductive == Spec => []IInv
<1>1. IInv /\ [Next]_vars => IInv'
  BY NextInv
<1> QED
  BY InitInv, <1>1, PTL DEF Spec

\* Every register of the CLIC and of its harts keeps its type, for any number
\* of harts and interrupts and any CLICCFGMBITS, CLICCFGLBITS, CLICINTCTLBITS.
THEOREM TypeCorrect == Spec => []TypeOK
<1>1. IInv => TypeOK
  <2> SUFFICES ASSUME IInv PROVE TypeOK
    OBVIOUS
  <2>1. config \in Configs /\ cliccfg \in CfgRec /\ hart = [h \in Harts |-> hart[h]]
    BY DEF IInv
  <2>2. \A h \in Harts : hart[h] \in HartRec
    BY DEF IInv, HartInv
  <2>3. hart \in [Harts -> HartRec]
    BY <2>1, <2>2
  <2> QED
    BY <2>1, <2>3 DEF TypeOK
<1> QED
  BY <1>1, Inductive, PTL

\* No write of an interrupt register, trap, return or xnxti of any hart, and no
\* write of cliccfg through another one, leaves clic.sel of a hart stale.
THEOREM SelectionIsCurrent == Spec => []SelectionCurrent
<1>1. IInv => SelectionCurrent
  BY DEF IInv, HartInv, Selected, SelectionCurrent
<1> QED
  BY <1>1, Inductive, PTL

\* The incremental updates of clic.ipe keep the bit of an interrupt that is
\* fixed edge-triggered equal to what refreshCLICIPE would compute.
THEOREM EdgePendingIsExact == Spec => []EdgePendingExact
<1>1. IInv => EdgePendingExact
  <2> SUFFICES ASSUME IInv, NEW h \in Harts, NEW i \in config.posedge
               PROVE  i \in hart[h].ipe <=> i \in refreshCLICIPE(hart[h])
    BY DEF EdgePendingExact
  <2> DEFINE s == hart[h]
  <2>1. s.attr[i].edge /\ (i \in s.ipe <=> i \in s.ie /\ i \in s.ip)
    BY DEF IInv, HartInv, EdgeExact
  <2>2. i \in refreshCLICIPE(s) <=> i \in s.ie /\ i \in s.ip
    BY <2>1 DEF refreshCLICIPE, getCLICInterruptPending
  <2> QED
    BY <2>1, <2>2
<1> QED
  BY <1>1, Inductive, PTL

\* An interrupt that a hart would present is always registered to be taken.
THEOREM NoneMissed == Spec => []NonePresentedMissed
<1>1. IInv => NonePresentedMissed
  <2> SUFFICES ASSUME IInv, NEW h \in Harts, presented(hart[h], hart[h].sel).id # NoInt
               PROVE  hart[h].pendEnab = presented(hart[h], hart[h].sel)
    BY DEF NonePresentedMissed
  <2>1. hart[h].IE # {}
    BY DEF presented, NoPend
  <2>2. Registered(hart[h])
    BY DEF IInv, HartInv
  <2> QED
    BY <2>1, <2>2 DEF Registered
<1> QED
  BY <1>1, Inductive, PTL

\* An edge is lost by no trap, acknowledgement or refresh: it disappears with
\* a write of its register, or as the reported cause.
THEOREM EdgesReported == Spec => EdgeReported
<1>1. IInv /\ [Next]_vars =>
        [\A h \in Harts, i \in Ints :
           (i \in hart[h].ip /\ i \notin hart'[h].ip /\ hart[h].attr[i].edge) =>
             \/ \E m \in Modes : hart'[h].cause[m] = i
             \/ WriteInt(h)]_vars
  BY NextInv DEF Reports
<1> QED
  BY <1>1, Inductive, PTL DEF Spec, EdgeReported

\* Without reset, a handler is preempted in its own mode only by an interrupt
\* of higher level, above the threshold, and its level is saved.
THEOREM OnlyHigherPreempts == Spec => PreemptedByHigher
<1>1. ASSUME IInv, ~does("reset"), NEW h \in Harts, TakeInterrupt(h),
             hart[h].pendEnab.id # NoInt, hart[h].pendEnab.priv = hart[h].mode
      PROVE  /\ hart'[h].il[hart[h].mode] > hart[h].il[hart[h].mode]
             /\ hart'[h].il[hart[h].mode] > hart[h].th[hart[h].mode]
             /\ hart'[h].pil[hart[h].mode] = hart[h].il[hart[h].mode]
  <2> DEFINE s == hart[h]
             p == s.pendEnab
  <2>0. config \in Configs /\ cliccfg \in CfgRec /\ hart = [g \in Harts |-> hart[g]]
        /\ HartInv(s, cliccfg)
    BY <1>1 DEF IInv
  <2>1. PICK u : u = doInterrupt(s, cliccfg)
    OBVIOUS
  <2>2. hart'[h] = u
    BY <1>1, <2>0, <2>1 DEF TakeInterrupt, become
  <2>3. u.il[p.priv] = p.level /\ u.pil[p.priv] = s.il[p.priv]
    BY <1>1, <2>0, <2>1, TakeInt
  <2>4. s \in HartRec /\ p = presented(s, s.sel)
    BY <1>1, <2>0 DEF HartInv, Registered
  <2>5. /\ p.priv = s.sel.priv /\ p.level = s.sel.level
        /\ s.mode < s.sel.priv \/ (p.level > s.il[p.priv] /\ p.level > s.th[p.priv])
    BY <1>1, <2>4 DEF presented, NoPend
  <2>6. ~(s.mode < s.sel.priv)
    <3>1. s.mode \in Modes /\ s.sel.priv = s.mode
      BY <1>1, <2>4, <2>5 DEF HartRec
    <3> QED
      BY <3>1 DEF Modes, U, S, M
  <2> QED
    BY <1>1, <2>2, <2>3, <2>5, <2>6
<1>2. IInv /\ [Next]_vars =>
        [~does("reset") => \A h \in Harts :
           LET s == hart[h]
               p == s.pendEnab
           IN (p.id # NoInt /\ p.priv = s.mode /\ TakeInterrupt(h)) =>
                /\ hart'[h].il[s.mode] > s.il[s.mode]
                /\ hart'[h].il[s.mode] > s.th[s.mode]
                /\ hart'[h].pil[s.mode] = s.il[s.mode]]_vars
  BY <1>1, Zenon
<1> QED
  BY <1>2, Inductive, PTL DEF Spec, PreemptedByHigher
=============================================================================
