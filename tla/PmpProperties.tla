---------------------------- MODULE PmpProperties ----------------------------
(***************************************************************************)
(* What physical memory protection promises.                               *)
(***************************************************************************)
EXTENDS Pmp

\* The registers hold only values that can be written: no reserved privileges
\* without MML, no NA4 and no low address bits below the grain.
legalEntry(i) ==
  /\ ~mseccfg.MML => pmpcfg[i].priv = noReserved(pmpcfg[i].priv)
  /\ config.grain > 0 => pmpcfg[i].mode # "NA4"
  /\ pmpaddr[i] = maskPMPAddr(pmpaddr[i])

\* Types of the variables, and the legal values of the registers
\* (riscvVMWritePMPCFG, riscvVMWritePMPAddr).
TypeOK ==
  /\ config \in Configs
  /\ pmpcfg \in [Entry -> Cfg]
  /\ pmpaddr \in [Entry -> PmpAddr]
  /\ mseccfg \in [MML : BOOLEAN, MMWP : BOOLEAN, RLB : BOOLEAN]
  /\ mapped \in [Domain -> [Addr -> Priv]]
  /\ \A i \in Entry : legalEntry(i)

\* Entries that match address x, and the one with priority (NumPMP: none).
matching(x) == {i \in Entry : x \in region(pmpcfg, pmpaddr, i)}

governing(x) ==
  CHOOSE i \in matching(x) \cup {NumPMP} : \A j \in matching(x) : i <= j

\* Privileges of mode m at address x: those of the matching entry of highest
\* priority.
privAt(m, x) ==
  LET g == governing(x)
  IN IF g = NumPMP THEN getPMPUnmatchedMode(mseccfg, m)
     ELSE getPMPEntryPriv(mseccfg, m, pmpcfg[g])

\* Domain d grants nothing that the registers do not.
domainSound(d) == \A x \in Addr : mapped[d][x] \subseteq privAt(d[1], x)

(***************************************************************************)
(* Privileges granted lazily and kept across register writes are at every  *)
(* moment privileges that the registers give: whatever entry was written,  *)
(* unlocked, moved or bounded by its neighbour since (invalidatePMPEntry,  *)
(* riscvVMWritePMPCFG, riscvVMWritePMPAddr, mseccfgW, riscvVMResetPMP).    *)
(* M mode is included unless MMWP is set without MML: then an entry that M *)
(* mode did not use leaves its bytes mapped for M mode when it is disabled *)
(* or moved, though M mode has no access to what no entry matches.         *)
(***************************************************************************)
MappedWithinPMP ==
  \A d \in Domain : (d[1] = "M" /\ mseccfg.MMWP => mseccfg.MML) => domainSound(d)

\* Addresses low..high are governed by a single entry, or all by none.
oneRegion(low, high) == \A x \in low..high : governing(x) = governing(low)

\* Accesses that are refused across the bound of a region: aligned ones, and
\* unaligned ones unless they are decomposed.
undivided(low, high) == aligned(low, high) \/ (config.unaligned /\ ~config.decompose)

(***************************************************************************)
(* No aligned access that spans two regions, and no unaligned one unless   *)
(* such accesses are decomposed, finds all its bytes mapped: it must miss, *)
(* for mapPMP to refuse it ("aligned accesses may not straddle PMP         *)
(* regions").  Below M mode always, in M mode if it uses all entries.      *)
(* Where unaligned accesses are decomposed PMP_max_page must not be 1 or   *)
(* 2: the parts of a word then get their privileges one after the other,   *)
(* and nothing takes back those of the byte next to a bound.               *)
(***************************************************************************)
StraddleMisses ==
  (config.unaligned /\ config.decompose => config.max_page % 4 = 0) =>
    \A m \in {"S"} \cup (IF mseccfg.MML THEN {"M"} ELSE {}), a \in Accesses :
      undivided(a[2], a[3]) /\ hit(m, a[1], a[2], a[3]) => oneRegion(a[2], a[3])

(***************************************************************************)
(* A locked entry keeps its configuration and its bytes until reset,       *)
(* though its lower bound is the address register of another entry and     *)
(* RLB, which lifts locks, is itself written by programs.                  *)
(***************************************************************************)
LockedStays ==
  [][\A i \in Entry : pmpLocked(i) /\ ~riscvVMResetPMP
       => /\ pmpcfg'[i] = pmpcfg[i]
          /\ region(pmpcfg', pmpaddr', i) = region(pmpcfg, pmpaddr, i)
          /\ ~mseccfg'.RLB]_vars
=============================================================================
