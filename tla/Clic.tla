--------------------------------- MODULE Clic ---------------------------------
(***************************************************************************)
(* The internal core local interrupt controller (riscvCLIC.c) and the part *)
(* of a hart that presents, takes, acknowledges and returns from its       *)
(* interrupts (riscvExceptions.c, riscvCSR.c).  The basic controller is    *)
(* absent (CLICANDBASIC=F), so that every mode uses the CLIC.              *)
(*                                                                         *)
(* A hart is one record; a handler is an operator from that record to the  *)
(* next.  Left out: vector table reads that fault (inhv), the read side of *)
(* the registers, pre-0.9 CLICs, debug mode, NMI, WFI (see Hart), and      *)
(* save and restore.                                                       *)
(***************************************************************************)
EXTENDS Integers, FiniteSets, FiniteSetsExt

CONSTANTS
  Configs        \* configurations of the processor

VARIABLES
  config,        \* configuration, never changed
  cliccfg,       \* nlbits of each mode and nmbits, in the cluster's root
  hart

vars == <<config, cliccfg, hart>>

U == 0
S == 1
M == 3
Modes == {U, S, M}
NoInt == -1
Levels == 0..255

(***************************************************************************)
(* The harts of the cluster and the interrupts each implements;            *)
(* CLICCFGMBITS, CLICCFGLBITS and CLICINTCTLBITS; nlbits_valid; CLIC       *)
(* version: software may pend level interrupts (mayPendLevel), a cliccfg   *)
(* register per mode (xcliccfgPerMode), xRET clears the threshold          *)
(* (xretClearsIntThresh); CLICSELHVEC; userIntPresent; interrupts with a   *)
(* fixed trigger; bits of a threshold that are not implemented; and the    *)
(* operations that programs and devices use, with the values they write.   *)
(***************************************************************************)
Attr == [edge : BOOLEAN, low : BOOLEAN, shv : BOOLEAN, mode : Modes]

ASSUME ClicAssumption ==
  \A c \in Configs :
    /\ IsFiniteSet(c.harts) /\ c.harts # {}
    /\ c.ints \subseteq Nat /\ IsFiniteSet(c.ints)
    /\ c.MBITS \in 0..2 /\ c.LBITS \in 0..8 /\ c.CTLBITS \in 0..8
    /\ c.valid \subseteq 0..8 /\ c.valid \cap 0..c.LBITS # {}
    /\ {c.mayPendLevel, c.perMode, c.xretClears, c.SHV, c.N} \subseteq BOOLEAN
    /\ c.posedge \cup c.poslevel \subseteq c.ints
    /\ c.attrs \subseteq [edge : BOOLEAN, low : BOOLEAN, shv : BOOLEAN, mode : 0..3]
    /\ c.ctls \cup c.ths \cup c.pils \subseteq Levels
    /\ \E k \in 0..8 : c.threshOnes = 2^k - 1

Harts == config.harts
Ints == config.ints

(***************************************************************************)
(* Interrupt registers                                                     *)
(***************************************************************************)

trigFixed == config.posedge \cup config.poslevel

\* A level-triggered interrupt is pending if latched or if its line is high.
getCLICInterruptPending(s, i) ==
  i \in s.ip \/ (~s.attr[i].edge /\ i \in s.line)

\* The pending and enabled interrupts, from the registers.
refreshCLICIPE(s) == {i \in s.ie : getCLICInterruptPending(s, i)}

getCLICInterruptMode(s, i, cfg) ==
  LET mode == s.attr[i].mode IN
  IF cfg.nmbits = 0 THEN M
  ELSE IF config.MBITS = 1 THEN IF mode >= 2 THEN M ELSE U
  ELSE IF cfg.nmbits = 1 /\ mode = U THEN S ELSE mode

\* The nlbits upper bits of clicintctl, with the bits below set.
levelOf(ctl, nlbits) ==
  LET low == 2^(8 - nlbits) IN (ctl - (ctl % low)) + (low - 1)

NoSel == [id |-> NoInt, priv |-> U, level |-> 0, shv |-> FALSE]

(***************************************************************************)
(* The interrupt of highest mode and then clicintctl; the highest-numbered *)
(* of several such.                                                        *)
(***************************************************************************)
rank(s, i, cfg) == getCLICInterruptMode(s, i, cfg) * 256 + s.ctl[i]

riscvRefreshPendingAndEnabledInternalCLIC(s, cfg) ==
  IF s.ipe = {} THEN NoSel
  ELSE LET id   == CHOOSE i \in s.ipe : \A j \in s.ipe :
                     \/ rank(s, i, cfg) > rank(s, j, cfg)
                     \/ rank(s, i, cfg) = rank(s, j, cfg) /\ i >= j
           priv == getCLICInterruptMode(s, id, cfg)
       IN [id |-> id, priv |-> priv, level |-> levelOf(s.ctl[id], cfg.nlbits[priv]),
           shv |-> s.attr[id].shv]

NoPend == [id |-> NoInt, priv |-> U, level |-> 0]

\* Mutant: an interrupt of the handler's own level may interrupt it.
presentedEqual(s, sel) ==
  IF /\ sel.id # NoInt
     /\ s.mode <= sel.priv
     /\ sel.priv \in s.IE
     /\ s.mode < sel.priv \/ (sel.level >= s.il[sel.priv] /\ sel.level > s.th[sel.priv])
  THEN [id |-> sel.id, priv |-> sel.priv, level |-> sel.level]
  ELSE NoPend

\* The interrupt that a selection presents to the hart (PRESENT_INT_CLIC).
presented(s, sel) ==
  IF /\ sel.id # NoInt
     /\ s.mode <= sel.priv
     /\ sel.priv \in s.IE
     /\ s.mode < sel.priv \/ (sel.level > s.il[sel.priv] /\ sel.level > s.th[sel.priv])
  THEN [id |-> sel.id, priv |-> sel.priv, level |-> sel.level]
  ELSE NoPend

riscvRefreshPendingAndEnabled(s, cfg) ==
  LET sel == riscvRefreshPendingAndEnabledInternalCLIC(s, cfg)
  IN [s EXCEPT !.sel = sel, !.pendEnab = presented(s, sel)]

riscvTestInterrupt(s, cfg) == riscvRefreshPendingAndEnabled(s, cfg)

updateCLICPendingEnable(s, i, newIPE, cfg) ==
  IF (i \in s.ipe) = newIPE THEN s
  ELSE riscvTestInterrupt(
         [s EXCEPT !.ipe = IF newIPE THEN @ \cup {i} ELSE @ \ {i}], cfg)

put(set, i, v) == IF v THEN set \cup {i} ELSE set \ {i}

\* Level-triggered pending values are latched only if any may be pended.
setCLICInterruptPending(s, i, v, mayPendAny) ==
  IF mayPendAny \/ s.attr[i].edge THEN [s EXCEPT !.ip = put(@, i, v)] ELSE s

\* Mutant: pending+enabled follows the written value, enabled or not.
writeCLICInterruptPendingNoIE(s, i, v, mayPendAny, cfg) ==
  updateCLICPendingEnable(setCLICInterruptPending(s, i, v, mayPendAny), i, v, cfg)

writeCLICInterruptPending(s, i, v, mayPendAny, cfg) ==
  updateCLICPendingEnable(setCLICInterruptPending(s, i, v, mayPendAny),
                          i, i \in s.ie /\ v, cfg)

writeCLICInterruptEnable(s, i, v, cfg) ==
  updateCLICPendingEnable([s EXCEPT !.ie = put(@, i, v)],
                          i, getCLICInterruptPending(s, i) /\ v, cfg)

legalIntMode(mode, page) ==
  IF \/ mode > page
     \/ config.MBITS = 0
     \/ mode = 2
     \/ config.MBITS < 2 /\ mode = S
     \/ mode = U /\ ~config.N
  THEN page ELSE mode

updateCLICInterruptField(s, i, a, cfg) ==
  IF s.attr[i] = a THEN s ELSE riscvTestInterrupt([s EXCEPT !.attr[i] = a], cfg)

writeCLICInterruptAttr(s, i, a, page, cfg) ==
  updateCLICInterruptField(s, i,
    [edge |-> IF i \in trigFixed THEN s.attr[i].edge ELSE a.edge,
     low  |-> IF i \in trigFixed THEN s.attr[i].low ELSE a.low,
     shv  |-> a.shv /\ config.SHV,
     mode |-> legalIntMode(a.mode, page)], cfg)

\* Bits of clicintctl that are not implemented read as ones.
getCLICIntCtl1Bits == 2^(8 - config.CTLBITS) - 1

legalCtl(v) == v - (v % (getCLICIntCtl1Bits + 1)) + getCLICIntCtl1Bits

writeCLICInterruptCtl(s, i, v, cfg) ==
  IF s.ctl[i] = legalCtl(v) THEN s
  ELSE riscvTestInterrupt([s EXCEPT !.ctl[i] = legalCtl(v)], cfg)

\* Deassert an edge-triggered interrupt that is taken; otherwise refresh.
riscvAcknowledgeCLICInt(s, i, cfg) ==
  IF s.attr[i].edge THEN writeCLICInterruptPending(s, i, FALSE, FALSE, cfg)
  ELSE riscvRefreshPendingAndEnabled(s, cfg)

\* A line that changes: an edge latches, a level is copied.
riscvUpdateCLICInput(s, i, v, cfg) ==
  LET active == v # s.attr[i].low
  IN IF ~s.attr[i].edge \/ active
     THEN writeCLICInterruptPending(s, i, active, FALSE, cfg) ELSE s

riscvUpdateInterrupt(s, i, v, cfg) ==
  riscvUpdateCLICInput([s EXCEPT !.line = put(@, i, v)], i, v, cfg)

(***************************************************************************)
(* Configuration registers                                                 *)
(***************************************************************************)

\* nlbits that a write of n to the field of mode m leaves.
nlbitsW(cfg, m, n) ==
  [cfg EXCEPT !.nlbits[m] =
     IF n > config.LBITS THEN config.LBITS
     ELSE IF n \in config.valid THEN n ELSE @]

\* Mutant: nmbits is not clamped.
nmbitsWNoClamp(cfg, n) == [cfg EXCEPT !.nmbits = n]

nmbitsW(cfg, n) == [cfg EXCEPT !.nmbits = IF n > config.MBITS THEN config.MBITS ELSE n]

\* The single register: the S and U fields follow that of M.
cliccfgW(cfg, nl, nm) ==
  LET new == nmbitsW(nlbitsW(cfg, M, nl), nm)
  IN [new EXCEPT !.nlbits = [m \in Modes |-> new.nlbits[M]]]

mcliccfgW(cfg, nl, nm) == nmbitsW(nlbitsW(cfg, M, nl), nm)

scliccfgW(cfg, nl) == nlbitsW(cfg, S, nl)

ucliccfgW(cfg, nl) == nlbitsW(cfg, U, nl)

\* Mutant: only one hart of the cluster is refreshed.
refreshOne(harts, cfg) ==
  LET h == CHOOSE x \in Harts : TRUE
  IN [harts EXCEPT ![h] = riscvTestInterrupt(@, cfg)]

refreshCCLICInterruptAll(harts, cfg) ==
  [h \in Harts |-> riscvTestInterrupt(harts[h], cfg)]

\* A register write, which refreshes all harts if it changes the configuration.
configure(cfg) ==
  IF cfg = cliccfg THEN UNCHANGED <<cliccfg, hart>>
  ELSE /\ cliccfg' = cfg
       /\ hart' = refreshCCLICInterruptAll(hart, cfg)

(***************************************************************************)
(* Traps, returns and CSRs.  A trap without a level leaves that of the     *)
(* mode it is taken in (level -1).                                         *)
(***************************************************************************)

trap(s, X, level, id) ==
  [s EXCEPT !.PIE = put(@, X, X \in s.IE), !.IE = @ \ {X},
            !.pil[X] = s.il[X], !.il[X] = IF level >= 0 THEN level ELSE @,
            !.cause[X] = id, !.PP[X] = s.mode, !.mode = X]

\* Interrupts with hardware vectoring are acknowledged when they are taken.
doInterrupt(s, cfg) ==
  LET p == s.pendEnab
      t == trap([s EXCEPT !.pendEnab = NoPend], p.priv, p.level, p.id)
  IN IF s.sel.shv THEN riscvAcknowledgeCLICInt(t, p.id, cfg) ELSE t

takeException(s, X) == trap(s, X, IF X = s.mode THEN -1 ELSE 0, NoInt)

\* MRET, SRET or URET executed in mode X or above, and doERETCommon.
xret(s, X, cfg) ==
  LET new == IF X = U THEN U ELSE s.PP[X]
      old == s.mode
      t == [s EXCEPT !.il[X] = s.pil[X], !.IE = put(@, X, X \in s.PIE),
                     !.PIE = @ \cup {X}, !.PP[X] = U, !.mode = new]
      clears == config.xretClears /\ new # old
  IN riscvTestInterrupt(
       IF ~clears THEN t
       ELSE [t EXCEPT !.th[IF old = M THEN M ELSE S] = config.threshOnes], cfg)

statusW(s, ies, cfg) ==
  IF ies \subseteq s.IE THEN [s EXCEPT !.IE = ies]
  ELSE riscvTestInterrupt([s EXCEPT !.IE = ies], cfg)

\* Bits of a threshold that are not implemented read as ones.
legalThresh(v) == v - (v % (config.threshOnes + 1)) + config.threshOnes

\* Mutant: interrupts are tested when the threshold rises.
intthreshWRise(s, X, v, cfg) ==
  LET t == [s EXCEPT !.th[X] = legalThresh(v)]
  IN IF t.th[X] > s.th[X] THEN riscvTestInterrupt(t, cfg) ELSE t

intthreshW(s, X, v, cfg) ==
  LET t == [s EXCEPT !.th[X] = legalThresh(v)]
  IN IF t.th[X] < s.th[X] THEN riscvTestInterrupt(t, cfg) ELSE t

(***************************************************************************)
(* A write of xnxti first writes xstatus.  It then services the selected   *)
(* interrupt if that is for mode X, at a level above those of the          *)
(* interrupted handler and the threshold, and not hardware-vectored.       *)
(***************************************************************************)
nxtiReady(s, X) ==
  s.sel.priv = X /\ s.sel.level > s.pil[X] /\ s.sel.level > s.th[X] /\ ~s.sel.shv

\* Mutant: the interrupt is acknowledged without being reported.
nxtiWNoCause(s, X, ies, cfg) ==
  LET t == statusW(s, ies, cfg)
  IN IF ~nxtiReady(t, X) THEN t
     ELSE riscvAcknowledgeCLICInt([t EXCEPT !.il[X] = t.sel.level], t.sel.id, cfg)

nxtiW(s, X, ies, cfg) ==
  LET t == statusW(s, ies, cfg)
  IN IF ~nxtiReady(t, X) THEN t
     ELSE riscvAcknowledgeCLICInt(
            [t EXCEPT !.il[X] = t.sel.level, !.cause[X] = t.sel.id], t.sel.id, cfg)

(***************************************************************************)
(* Reset of a hart, which leaves the interrupt registers alone.            *)
(* riscvResetCLIC writes the cliccfg of the hart that is reset: only that  *)
(* of a hart that is its own cluster is ever used.                         *)
(***************************************************************************)
riscvReset(s) ==
  [s EXCEPT !.mode = M, !.IE = {}, !.PIE = {}, !.PP = [m \in Modes |-> U],
            !.il = [m \in Modes |-> 0], !.pil[M] = 0, !.cause[M] = NoInt]

riscvResetCLIC ==
  IF Cardinality(Harts) > 1 THEN cliccfg
  ELSE IF ~config.perMode THEN cliccfgW(cliccfg, 0, 0)
  ELSE ucliccfgW(scliccfgW(mcliccfgW(cliccfg, 0, 0), 0), 0)

(***************************************************************************)
(* Steps                                                                   *)
(***************************************************************************)

does(op) == op \in config.ops

\* An instruction of hart h: a pending interrupt is taken first.
runs(h) == hart[h].pendEnab.id = NoInt

become(h, s) == hart' = [hart EXCEPT ![h] = s] /\ UNCHANGED <<config, cliccfg>>

interruptPortCB(h) ==
  \E i \in Ints :
    become(h, riscvUpdateInterrupt(hart[h], i, i \notin hart[h].line, cliccfg))

\* Writes to the page of a mode, from any hart.
accessCLICInterrupt(h, i, page) == getCLICInterruptMode(hart[h], i, cliccfg) <= page

WriteInt(h) ==
  \E i \in Ints, page \in {S, M} \cup (IF config.N THEN {U} ELSE {}) :
    /\ accessCLICInterrupt(h, i, page)
    /\ \/ \E v \in BOOLEAN :
            \/ does("ip") /\ become(h, writeCLICInterruptPending(
                                         hart[h], i, v, config.mayPendLevel, cliccfg))
            \/ does("ie") /\ become(h, writeCLICInterruptEnable(hart[h], i, v, cliccfg))
       \/ \E a \in config.attrs : become(h, writeCLICInterruptAttr(hart[h], i, a, page, cliccfg))
       \/ \E v \in config.ctls : become(h, writeCLICInterruptCtl(hart[h], i, v, cliccfg))

WriteCfg ==
  /\ does("cfg")
  /\ \E nl \in {0, 1, 8}, nm \in 0..2 :
       \/ ~config.perMode /\ configure(cliccfgW(cliccfg, nl, nm))
       \/ config.perMode /\ configure(mcliccfgW(cliccfg, nl, nm))
       \/ config.perMode /\ configure(scliccfgW(cliccfg, nl))
       \/ config.perMode /\ config.N /\ configure(ucliccfgW(cliccfg, nl))
  /\ UNCHANGED config

TakeInterrupt(h) == ~runs(h) /\ become(h, doInterrupt(hart[h], cliccfg))

TakeException(h) ==
  /\ runs(h) /\ does("exception")
  /\ \E X \in {S, M} : hart[h].mode <= X /\ become(h, takeException(hart[h], X))

XRET(h) ==
  /\ runs(h) /\ does("xret")
  /\ \E X \in {S, M} \cup (IF config.N THEN {U} ELSE {}) :
       X <= hart[h].mode /\ become(h, xret(hart[h], X, cliccfg))

StatusW(h) ==
  /\ runs(h) /\ does("status")
  /\ \E ies \in SUBSET Modes :
       /\ ies \ 0..hart[h].mode = hart[h].IE \ 0..hart[h].mode
       /\ U \in ies => config.N
       /\ become(h, statusW(hart[h], ies, cliccfg))

IntthreshW(h) ==
  /\ runs(h)
  /\ \E X \in Modes, th \in config.ths :
       X <= hart[h].mode /\ become(h, intthreshW(hart[h], X, th, cliccfg))

NxtiW(h) ==
  /\ runs(h) /\ does("nxti")
  /\ \E X \in {S, M}, ies \in SUBSET {S, M} :
       /\ X <= hart[h].mode
       /\ ies \ 0..X = hart[h].IE \ 0..X
       /\ become(h, nxtiW(hart[h], X, ies, cliccfg))

\* Software restores the level that a nested handler overwrote.
CauseW(h) ==
  /\ runs(h)
  /\ \E X \in {S, M}, pil \in config.pils :
       X <= hart[h].mode /\ become(h, [hart[h] EXCEPT !.pil[X] = pil])

Reset(h) ==
  /\ does("reset")
  /\ LET harts == [hart EXCEPT ![h] = riscvReset(@)]
     IN hart' = IF riscvResetCLIC = cliccfg THEN harts
                ELSE refreshCCLICInterruptAll(harts, riscvResetCLIC)
  /\ cliccfg' = riscvResetCLIC
  /\ UNCHANGED config

InitAttr(i) == [edge |-> i \in config.posedge, low |-> FALSE, shv |-> FALSE, mode |-> M]

Init ==
  /\ config \in Configs
  /\ cliccfg = [nlbits |-> [m \in Modes |-> Min(config.valid)], nmbits |-> 0]
  /\ hart = [h \in Harts |->
       [line |-> {}, ip |-> {}, ie |-> {}, ipe |-> {},
        attr |-> [i \in Ints |-> InitAttr(i)], ctl |-> [i \in Ints |-> getCLICIntCtl1Bits],
        sel |-> NoSel, pendEnab |-> NoPend, mode |-> M, IE |-> {}, PIE |-> {},
        PP |-> [m \in Modes |-> U], il |-> [m \in Modes |-> 0], pil |-> [m \in Modes |-> 0],
        th |-> [m \in Modes |-> config.threshOnes], cause |-> [m \in Modes |-> NoInt]]]

Next ==
  \/ WriteCfg
  \/ \E h \in Harts : \/ interruptPortCB(h)
                      \/ WriteInt(h)
                      \/ TakeInterrupt(h)
                      \/ TakeException(h)
                      \/ XRET(h)
                      \/ StatusW(h)
                      \/ IntthreshW(h)
                      \/ NxtiW(h)
                      \/ CauseW(h)
                      \/ Reset(h)

Spec == Init /\ [][Next]_vars

=============================================================================
