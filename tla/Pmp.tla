--------------------------------- MODULE Pmp ---------------------------------
(***************************************************************************)
(* Physical memory protection of one hart (riscvVM.c, mseccfgW of          *)
(* riscvCSR.c).  Programs write the PMP registers; accesses are checked    *)
(* against them only when they miss: mapPMP then grants privileges to the  *)
(* bytes of a whole region in the PMP domain of the mode, and later        *)
(* accesses to those bytes are not checked again.  Every register write    *)
(* must therefore take back what it makes wrong (invalidatePMPEntry).      *)
(*                                                                         *)
(* Left out: accesses beyond the physical address space, the write masks   *)
(* and reset values given by parameters, artifact (debugger) writes,       *)
(* privileges refined by derived models, save/restore and the MPU, which   *)
(* this build does not compile.                                            *)
(***************************************************************************)
EXTENDS Integers, FiniteSets

CONSTANTS
  NumPMP,         \* PMP_registers
  EntriesPerCFG,  \* entries in a pmpcfg register (4 or 8)
  MaxPA,          \* greatest physical address
  Configs,        \* configurations of the hart
  CfgValues,      \* values programs write to an entry of pmpcfg
  AddrValues,     \* values programs write to pmpaddr
  Accesses        \* accesses of programs: privilege, first and last byte

VARIABLES
  config,         \* configuration, never changed
  pmpcfg,
  pmpaddr,
  mseccfg,
  mapped          \* privileges of each byte in each PMP domain

vars == <<config, pmpcfg, pmpaddr, mseccfg, mapped>>

(***************************************************************************)
(* A configuration: PMP_grain; PMP_max_page, the greatest range mapped at  *)
(* once (0: no limit); whether unaligned accesses are supported and        *)
(* PMP_decompose; whether accesses wider than 4 bytes exist (pmpStraddle); *)
(* whether Smepmp is implemented; whether code and data have distinct      *)
(* domains.                                                                *)
(***************************************************************************)
Config == [grain : Nat, max_page : Nat, unaligned : BOOLEAN, decompose : BOOLEAN,
           straddle : BOOLEAN, Smepmp : BOOLEAN, separate : BOOLEAN]

Entry == 0..(NumPMP - 1)

Addr == 0..MaxPA

PmpAddr == 0..(MaxPA \div 4)

Priv == SUBSET {"R", "W", "X"}

RWX == {"R", "W", "X"}

Cfg == [priv : Priv, mode : {"OFF", "TOR", "NA4", "NAPOT"}, L : BOOLEAN]

\* U mode shares the domains of S mode.
Mode == {"M", "S"}

Domain == Mode \X (IF config.separate THEN {"data", "code"} ELSE {"data"})

ASSUME PmpAssumption ==
  /\ NumPMP \in Nat /\ EntriesPerCFG \in Nat \ {0}
  /\ MaxPA \in Nat /\ MaxPA % 8 = 7
  /\ Configs \subseteq Config
  /\ \A k \in Configs : k.unaligned => k.straddle
  /\ \A k \in Configs, x \in Accesses : x[3] - x[2] > 3 => k.straddle
  /\ CfgValues \subseteq Cfg /\ AddrValues \subseteq PmpAddr
  /\ \A x \in Accesses : /\ x[1] \in RWX /\ x[2] \in Addr /\ x[3] \in Addr
                            /\ x[3] - x[2] + 1 \in {1, 2, 4, 8}

-----------------------------------------------------------------------------
(* Entries.  c and a are values of pmpcfg and pmpaddr.                     *)

\* Powers of two.
pow2[n \in Nat] == IF n = 0 THEN 1 ELSE 2 * pow2[n - 1]

\* Value of v without its low n bits.
floor(v, n) == (v \div pow2[n]) * pow2[n]

\* Words of a NAPOT region: 2^k where v ends in k - 1 ones after a zero.
napotWords(v) == pow2[CHOOSE k \in 1..(v + 1) :
                        (v + 1) % pow2[k] # 0 /\ (v + 1) % pow2[k - 1] = 0]

\* pmpaddr as it reads: ones or zeros below the grain.
getEffectivePMPAddr(c, a, i) ==
  IF c[i].mode # "NAPOT"
  THEN floor(a[i], config.grain)
  ELSE IF config.grain >= 2 THEN floor(a[i], config.grain - 1) + pow2[config.grain - 1] - 1
                         ELSE a[i]

getPMPRegionActive(c, a, i) ==
  /\ c[i].mode # "OFF"
  /\ c[i].mode = "TOR" => getEffectivePMPAddr(c, a, i) # 0

\* First and last byte of an entry.
getPMPEntryBounds(c, a, i) ==
  LET eff == getEffectivePMPAddr(c, a, i)
  IN CASE c[i].mode = "NA4" -> <<4 * eff, 4 * eff + 3>>
       [] c[i].mode = "NAPOT" ->
            LET size == 4 * napotWords(eff)
                low  == ((4 * eff) \div size) * size
            IN <<low, low + size - 1>>
       [] OTHER -> <<IF i = 0 THEN 0 ELSE 4 * floor(a[i - 1], config.grain),
                     4 * eff - 1>>

\* An entry has bytes: it is active and its bounds are not reversed.
nonEmpty(c, a, i) ==
  /\ getPMPRegionActive(c, a, i)
  /\ c[i].mode = "TOR" =>
       LET b == getPMPEntryBounds(c, a, i) IN b[1] <= b[2]

\* Bytes of an entry.
region(c, a, i) ==
  IF nonEmpty(c, a, i)
  THEN LET b == getPMPEntryBounds(c, a, i) IN (b[1]..b[2]) \cap Addr
  ELSE {}

\* Entry e takes part in checks of M mode.
usePMPEntryMMode(s, e) == s.MML \/ e.L

\* Privileges given to M mode and to lower modes by locked and other entries
\* under MML.
mapMML1ML0 == [p \in Priv |-> IF "W" \in p /\ "R" \notin p THEN {"R", "W"} ELSE {}]

mapMML1ML1 ==
  [p \in Priv |-> CASE p = RWX        -> {"R"}
                    [] p = {"W"}      -> {"X"}
                    [] p = {"W", "X"} -> {"R", "X"}
                    [] OTHER          -> p]

mapMML1SL0 ==
  [p \in Priv |-> CASE p = {"W"}      -> {"R"}
                    [] p = {"W", "X"} -> {"R", "W"}
                    [] OTHER          -> p]

mapMML1SL1 ==
  [p \in Priv |-> CASE p = RWX                     -> {"R"}
                    [] p \in {{"W"}, {"W", "X"}}   -> {"X"}
                    [] OTHER                       -> {}]

\* W without R is reserved.
noReserved(p) == IF "R" \in p THEN p ELSE p \ {"W"}

getPMPEntryPriv(s, m, e) ==
  IF ~s.MML
  THEN noReserved(IF m = "M" /\ ~e.L THEN RWX ELSE e.priv)
  ELSE CASE m = "M" /\ ~e.L -> mapMML1ML0[e.priv]
         [] m = "M" /\ e.L  -> mapMML1ML1[e.priv]
         [] m # "M" /\ ~e.L -> mapMML1SL0[e.priv]
         [] m # "M" /\ e.L  -> mapMML1SL1[e.priv]

\* Privileges where no entry matches.
getPMPUnmatchedMode(s, m) ==
  CASE m # "M" \/ s.MMWP            -> {}
    [] m = "M" /\ ~s.MMWP /\ s.MML -> {"R", "W"}
    [] OTHER                        -> RWX

-----------------------------------------------------------------------------
(* Domains.                                                                *)

\* Mutant: only the bytes above a region are protected.
adjacentAboveOnly(low, high, update) ==
  {x \in {high + 1} \cap Addr :
     /\ config.straddle /\ "HI" \in update
     /\ config.unaligned \/ (high + 1) % 8 # 0}

\* Bytes next to low..high that lose their privileges, so that accesses that
\* span the bounds named in update miss.
adjacent(low, high, update) ==
  {x \in {low - 1, high + 1} \cap Addr :
     /\ config.straddle
     /\ \/ "LO" \in update /\ x = low - 1 /\ (config.unaligned \/ low % 8 # 0)
        \/ "HI" \in update /\ x = high + 1 /\ (config.unaligned \/ (high + 1) % 8 # 0)}

\* A lower-priority entry than i takes part in checks of M mode.
useLowerPriorityPMPEntryMMode(s, c, i) ==
  \E j \in Entry : j > i /\ c[j].mode # "OFF" /\ usePMPEntryMMode(s, c[j])

\* Bytes that lose their privileges in the domains of mode m when entry i is
\* invalidated.  M mode keeps those of an entry that it does not use, next to
\* whose bounds it loses them.
invalidatePMPEntry(s, c, a, i, m) ==
  IF \/ m = "S"
     \/ usePMPEntryMMode(s, c[i])
     \/ useLowerPriorityPMPEntryMMode(s, c, i)
     \/ ~nonEmpty(c, a, i)
  THEN region(c, a, i)
  ELSE LET b == getPMPEntryBounds(c, a, i) IN adjacent(b[1], b[2], {"LO", "HI"})

\* Mutant: the region that entry i bounds is not invalidated.
invalidateNoTOR(s, c, a, i, m) == {}

\* The same when entry i is TOR, and so bounded by pmpaddr of entry i - 1.
invalidatePMPEntryTOR(s, c, a, i, m) ==
  IF i \in Entry /\ c[i].mode = "TOR"
  THEN invalidatePMPEntry(s, c, a, i, m)
  ELSE {}

\* The domains without the privileges of bytes lost[m], for each mode m.
unmap(lost) ==
  [d \in Domain |->
     LET gone == lost[d[1]] IN [x \in Addr |-> IF x \in gone THEN {} ELSE mapped[d][x]]]

-----------------------------------------------------------------------------
(* Register writes.                                                        *)

pmpLocked(i) == ~mseccfg.RLB /\ pmpcfg[i].L

\* Mutant: the last entry is not looked at.
pmpLockedTORNotLast(i) ==
  i + 1 \in Entry /\ pmpcfg[i].mode = "TOR" /\ pmpLocked(i)

pmpLockedTOR(i) == i \in Entry /\ pmpcfg[i].mode = "TOR" /\ pmpLocked(i)

\* Mutant: reserved privileges are written.
legalReservedCFG(i, src) ==
  [src EXCEPT !.mode = IF config.grain > 0 /\ @ = "NA4" THEN pmpcfg[i].mode ELSE @]

\* Value that entry i takes when src is written to it.
legalCFG(i, src) ==
  LET dst == pmpcfg[i]
      addsLockedX == /\ config.Smepmp /\ mseccfg.MML /\ ~mseccfg.RLB /\ src.L
                     /\ "X" \in mapMML1ML1[src.priv]
      new == IF addsLockedX THEN dst ELSE src
  IN [new EXCEPT
        !.priv = IF config.Smepmp /\ mseccfg.MML THEN @ ELSE noReserved(@),
        !.mode = IF config.grain > 0 /\ @ = "NA4" THEN dst.mode ELSE @]

\* Entries of pmpcfg register r.
cfgEntries(r) == {i \in Entry : i \div EntriesPerCFG = r}

(***************************************************************************)
(* Write register r.  Entries are written from the last to the first, each *)
(* invalidated before and after, so that lower-priority entries have their *)
(* new value when an entry is invalidated.                                 *)
(***************************************************************************)
riscvVMWritePMPCFG(r, src) ==
  LET new == [i \in Entry |-> IF i \in cfgEntries(r) /\ ~pmpLocked(i)
                              THEN legalCFG(i, src[i]) ELSE pmpcfg[i]]
      changed == {i \in Entry : new[i] # pmpcfg[i]}
      from(k) == [i \in Entry |-> IF i >= k THEN new[i] ELSE pmpcfg[i]]
      lost == [m \in Mode |->
                 UNION {invalidatePMPEntry(mseccfg, from(i + 1), pmpaddr, i, m)
                          \cup invalidatePMPEntry(mseccfg, from(i), pmpaddr, i, m)
                        : i \in changed}]
  IN /\ changed # {}
     /\ pmpcfg' = new
     /\ mapped' = unmap(lost)
     /\ UNCHANGED <<config, pmpaddr, mseccfg>>

\* Value v as pmpaddr keeps it.
maskPMPAddr(v) == IF config.grain > 0 THEN floor(v, config.grain - 1) ELSE v

\* Write pmpaddr i, unless it is locked, also as low bound of the next entry.
riscvVMWritePMPAddr(i, v) ==
  LET new == [pmpaddr EXCEPT ![i] = maskPMPAddr(v)]
      lost == [m \in Mode |->
                 UNION {invalidatePMPEntry(mseccfg, pmpcfg, a, i, m)
                          \cup invalidatePMPEntryTOR(mseccfg, pmpcfg, a, i + 1, m)
                        : a \in {pmpaddr, new}}]
  IN /\ ~pmpLocked(i) /\ ~pmpLockedTOR(i + 1)
     /\ new # pmpaddr
     /\ pmpaddr' = new
     /\ mapped' = unmap(lost)
     /\ UNCHANGED <<config, pmpcfg, mseccfg>>

\* Write mseccfg: MML and MMWP are never cleared, RLB is not set while an
\* entry is locked.  A change of MML or MMWP unmaps everything.
mseccfgW(v) ==
  LET new == [MML  |-> mseccfg.MML \/ v.MML,
              MMWP |-> mseccfg.MMWP \/ v.MMWP,
              RLB  |-> IF mseccfg.RLB THEN v.RLB
                       ELSE v.RLB /\ \A i \in Entry : ~pmpLocked(i)]
  IN /\ config.Smepmp /\ new # mseccfg
     /\ mseccfg' = new
     /\ mapped' = IF new.MML = mseccfg.MML /\ new.MMWP = mseccfg.MMWP
                  THEN mapped
                  ELSE unmap([m \in Mode |-> Addr])
     /\ UNCHANGED <<config, pmpcfg, pmpaddr>>

NoCfg == [priv |-> {}, mode |-> "OFF", L |-> FALSE]

NoSec == [MML |-> FALSE, MMWP |-> FALSE, RLB |-> FALSE]

\* Reset.  Each entry is invalidated when the address registers below it have
\* been reset.
riscvVMResetPMP ==
  LET from(k) == [j \in Entry |-> IF j < k THEN 0 ELSE pmpaddr[j]]
  IN /\ pmpcfg' = [i \in Entry |-> NoCfg]
     /\ pmpaddr' = [i \in Entry |-> 0]
     /\ mseccfg' = NoSec
     /\ UNCHANGED config
     /\ mapped' = unmap([m \in Mode |->
          UNION {invalidatePMPEntry(mseccfg, pmpcfg, from(i), i, m) : i \in Entry}])

-----------------------------------------------------------------------------
(* Accesses.                                                               *)

\* Effect of entry i on what is known about address x: it matches, or cuts the
\* range in which x has its privileges.
refinePMPRegionRange(m, map, x, i) ==
  LET b == getPMPEntryBounds(pmpcfg, pmpaddr, i)
  IN IF ~nonEmpty(pmpcfg, pmpaddr, i) THEN map
     ELSE IF b[1] <= x /\ x <= b[2]
     THEN [low |-> b[1], high |-> b[2], priv |-> getPMPEntryPriv(mseccfg, m, pmpcfg[i])]
     ELSE IF b[1] > x /\ b[1] < map.high THEN [map EXCEPT !.high = b[1] - 1]
     ELSE IF b[2] < x /\ b[2] > map.low THEN [map EXCEPT !.low = b[2] + 1]
     ELSE map

\* Range and privileges of address x: all entries, from the last to the first.
mapAt(m, x) ==
  LET upTo[i \in 0..NumPMP] ==
        IF i = NumPMP
        THEN [low |-> 0, high |-> MaxPA, priv |-> getPMPUnmatchedMode(mseccfg, m)]
        ELSE refinePMPRegionRange(m, upTo[i + 1], x, i)
  IN upTo[0]

\* Bounds of region r within the pages of an access to low..high.
riscvClampPage(low, high, r) ==
  IF config.max_page = 0 THEN r
  ELSE LET lo == low - (low % config.max_page)
           hi == high - (high % config.max_page) + config.max_page - 1
       IN [r EXCEPT !.low = IF @ < lo THEN lo ELSE @,
                    !.high = IF @ > hi THEN hi ELSE @]

\* Privileges p as granted in the code or data domain; none: domain untouched.
domainPriv(d, p) ==
  CASE ~config.separate                 -> p
    [] config.separate /\ d[2] = "data"  -> p \ {"X"}
    [] config.separate /\ d[2] = "code"  -> IF "X" \in p THEN p ELSE {}

\* The domain of an access with privilege p.
domainOf(m, p) == <<m, IF config.separate /\ p = "X" THEN "code" ELSE "data">>

hit(m, p, low, high) == \A x \in low..high : p \in mapped[domainOf(m, p)][x]

aligned(low, high) == low % (high - low + 1) = 0

\* What mapPMP allows of an access that touches the regions of maps: privilege
\* in all, and a single one unless the access is unaligned and decomposed.
allowed(maps, p, low, high) ==
  /\ \A r \in maps : p \in r.priv
  /\ Cardinality(maps) = 1 \/ (~aligned(low, high) /\ config.decompose)

\* Bytes that lose their privileges when an access spans regions first to last,
\* so that aligned accesses across their bounds miss.
innerBytes(first, last, low, high) ==
  {x \in Addr : \/ first.high - low < 3 /\ x = first.high - 3
                \/ high - last.low < 3 /\ x = last.low + 3}

(***************************************************************************)
(* Access to low..high that misses and is allowed: grant the privileges of *)
(* each region it touches and remove those of the bytes next to the outer  *)
(* bounds that were not clamped.                                           *)
(***************************************************************************)
mapPMP(m, p, low, high) ==
  LET maps  == {mapAt(m, x) : x \in low..high}
      first == mapAt(m, low)
      last  == mapAt(m, high)
      clamp(r) == riscvClampPage(low, high, r)
      update(r) == {u \in {"LO", "HI"} :
                      \/ u = "LO" /\ r = first /\ clamp(r).low = r.low
                      \/ u = "HI" /\ r = last /\ clamp(r).high = r.high}
      inner == IF Cardinality(maps) = 1 THEN {} ELSE innerBytes(first, last, low, high)
      \* bytes of mode m that lose privileges, and those granted privileges of r
      cut(regs) == inner \cup UNION {adjacent(clamp(r).low, clamp(r).high, update(r)) : r \in regs}
      bytes(r) == clamp(r).low..clamp(r).high
      grant(d, regs, lost) ==
        [x \in Addr |->
           CASE x \in lost -> {}
             [] \E r \in regs : x \in bytes(r) /\ x \notin lost ->
                  domainPriv(d, (CHOOSE r \in regs : x \in bytes(r)).priv)
             [] OTHER -> mapped[d][x]]
  IN /\ ~hit(m, p, low, high)
     /\ allowed(maps, p, low, high)
     /\ mapped' =
          [d \in Domain |->
             IF d[1] # m THEN mapped[d]
             ELSE LET regs == {r \in maps : domainPriv(d, r.priv) # {}}
                      lost == cut(regs)
                  IN grant(d, regs, lost)]
     /\ UNCHANGED <<config, pmpcfg, pmpaddr, mseccfg>>

Init ==
  /\ config \in Configs
  /\ pmpcfg = [i \in Entry |-> NoCfg]
  /\ pmpaddr = [i \in Entry |-> 0]
  /\ mseccfg = NoSec
  /\ mapped = [d \in Domain |-> [x \in Addr |-> {}]]

Next ==
  \/ \E r \in {i \div EntriesPerCFG : i \in Entry} :
       \E src \in [cfgEntries(r) -> CfgValues] : riscvVMWritePMPCFG(r, src)
  \/ \E i \in Entry, v \in AddrValues : riscvVMWritePMPAddr(i, v)
  \/ \E v \in [MML : BOOLEAN, MMWP : BOOLEAN, RLB : BOOLEAN] : mseccfgW(v)
  \/ riscvVMResetPMP
  \/ \E m \in Mode, a \in Accesses :
       /\ config.unaligned \/ aligned(a[2], a[3])
       /\ mapPMP(m, a[1], a[2], a[3])

Spec == Init /\ [][Next]_vars
=============================================================================
