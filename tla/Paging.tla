-------------------------------- MODULE Paging --------------------------------
(***************************************************************************)
(* What address translation of a hart works on (riscvVM.c): page table     *)
(* entries, the CSR fields that select and qualify translations, the       *)
(* permissions a translation grants and the outcome of a table walk.       *)
(* Addresses are page numbers; a walk is reduced to the PTE that ends it,  *)
(* so a table maps each page to that PTE.                                  *)
(***************************************************************************)
EXTENDS Integers, FiniteSets

\* HS: the one stage of S and U modes; VS1 and VS2: the two stages of VS and
\* VU modes.
TLBId == {"HS", "VS1", "VS2"}

Mode == {"U", "S", "VU", "VS"}

modeIsVirtual(mode) == mode \in {"VU", "VS"}

Priv == {"R", "W", "X"}

\* The fields of riscvSimASID: identifiers, status bits that qualify
\* permissions, and whether vsatp.MODE and hgatp.MODE enable translation.
SimASID == [ASID_HS : Nat, ASID_VS : Nat, VMID : Nat,
            MXR_HS : BOOLEAN, SUM_HS : BOOLEAN, MXR_VS : BOOLEAN, SUM_VS : BOOLEAN,
            S1 : BOOLEAN, S2 : BOOLEAN]

\* The PTE that ends a walk; size is the number of pages of its level.
PTE == [V : BOOLEAN, priv : SUBSET Priv, U : BOOLEAN, G : BOOLEAN,
        A : BOOLEAN, D : BOOLEAN, size : Nat \ {0}, ppn : Nat]

InvalidPTE == [V |-> FALSE, priv |-> {}, U |-> FALSE, G |-> FALSE,
               A |-> FALSE, D |-> FALSE, size |-> 1, ppn |-> 0]

\* First page of the naturally aligned block of size pages that holds va.
blockOf(va, size) == (va \div size) * size

pagesOf(t) == t.low..(t.low + t.size - 1)

----------------------------------------------------------------------------
\* TLB of the first stage that translates an access of mode.
getCurrentTLBId(csr, mode) ==
  IF ~modeIsVirtual(mode) THEN "HS" ELSE IF csr.S1 THEN "VS1" ELSE "VS2"

doStage2(csr, tlb) == tlb = "VS1" /\ csr.S2

getActiveASID(csr, tlb) ==
  CASE tlb = "HS"  -> csr.ASID_HS
    [] tlb = "VS1" -> csr.ASID_VS
    [] tlb = "VS2" -> 0

getActiveVMID(csr, tlb) == IF tlb = "HS" THEN 0 ELSE csr.VMID

\* The table walked for tlb, named by its identifiers: the root page number in
\* satp, vsatp or hgatp is taken to be a function of them.
activeTable(csr, tlb) == <<tlb, getActiveVMID(csr, tlb), getActiveASID(csr, tlb)>>

\* Permissions a translation of tlb grants to mode.
getEntryPriv(config, csr, tlb, mode, t) ==
  LET MXR == csr.MXR_HS \/ (tlb = "VS1" /\ csr.MXR_VS)
      SUM == IF tlb = "VS1" THEN csr.SUM_VS ELSE csr.SUM_HS
      priv == t.priv \union (IF MXR /\ "X" \in t.priv THEN {"R"} ELSE {})
      user == tlb = "VS2" \/ mode \in {"U", "VU"}
  IN  IF user
      THEN IF t.U THEN priv ELSE {}
      ELSE IF ~t.U THEN priv
           ELSE IF ~SUM THEN {}
           ELSE IF config.version_1_11 THEN priv \ {"X"} ELSE priv

----------------------------------------------------------------------------
\* The PTE after a walk for need: hardware sets A and, on a write, D, where
\* this is configured.
markPTE(config, pte, need) ==
  [pte EXCEPT !.A = @ \/ config.updatePTEA,
              !.D = @ \/ (need = "W" /\ config.updatePTED)]

\* A walk for need ends in a page fault.
walkFaults(config, csr, tlb, mode, pte, need) ==
  LET marked == markPTE(config, pte, need)
  IN  \/ ~pte.V
      \/ pte.priv \intersect {"R", "W"} = {"W"}
      \/ pte.priv = {}
      \/ pte.ppn % pte.size # 0
      \/ need \notin getEntryPriv(config, csr, tlb, mode, pte)
      \/ ~marked.A
      \/ need = "W" /\ ~marked.D

\* Table with a PTE written for page va: a PTE of a larger block is the PTE of
\* all its pages, and writing a smaller one over it leaves the rest invalid.
writePTE(table, va, pte) ==
  LET block(size) == {p \in DOMAIN table : blockOf(p, size) = blockOf(va, size)}
  IN  [p \in DOMAIN table |->
         IF p \in block(pte.size) THEN pte
         ELSE IF p \in block(table[va].size) THEN InvalidPTE
         ELSE table[p]]
=============================================================================
