----------------------------- MODULE TlbProperties -----------------------------
(***************************************************************************)
(* Properties of address translation, and the refinement of Mmu.           *)
(***************************************************************************)
EXTENDS Tlb

\* Entries are well formed, and no TLB knows more identifiers than its cache
\* has room for.
TypeOK ==
  /\ \A f \in DOMAIN csr : csr[f] \in {c[f] : c \in config.csrs}
  /\ \A k \in DOMAIN tables : tables[k] \in [config.pages -> PTE]
  /\ \A e \in entries :
       /\ DOMAIN e = {"tlb", "low", "size", "ppn", "priv", "U", "G", "D", "simASID", "mapped"}
       /\ e.tlb \in TLBId /\ e.mapped \subseteq modesOf(e.tlb)
       /\ DOMAIN e.simASID = fieldsOf(e.tlb)
  /\ \A m \in maps : m.mode \in Mode /\ m.va \in config.pages /\ m.priv \subseteq Priv
  /\ \A tlb \in TLBId : Len(ASIDCache[tlb]) <= ASIDCacheSize[tlb]

\* The mapping m is one that unmapping e1 removes, and that deleting a
\* second-stage entry e2 removes when e2 took part in it.
owns(e1, m) == m.mode \in e1.mapped /\ m \in aliases(maps, e1, m.mode)

\* Every installed mapping is translated by live entries that know of it: the
\* first stage is marked as mapped with the fields the mapping carries, and a
\* mapping through the second stage is one that unmapS1EntryForS2Entry finds
\* from the entry it used.  Otherwise a fence would leave it behind for ever.
NoOrphanMapping ==
  \A m \in maps : \E e1 \in entries :
    /\ owns(e1, m)
    /\ IF e1.tlb = "VS1" /\ m.asid.S2
       THEN \E e2 \in entries :
              /\ e2.tlb = "VS2" /\ usesS2(e1, e2)
              /\ translate(e1, m.va) \in pagesOf(e2)
              /\ m.pa = translate(e2, translate(e1, m.va))
       ELSE m.pa = translate(e1, m.va)

\* The ASID cache bounds the TLB (promoteASIDMRU): every entry that is not
\* global belongs to an identifier in the cache of its TLB, so its ejection
\* will delete it.
EntriesCached ==
  \A e \in entries : (~e.G /\ ASIDCacheSize[e.tlb] > 0) =>
    \E i \in DOMAIN ASIDCache[e.tlb] : ASIDCache[e.tlb][i] = <<getEntryVMID(e), getEntryASID(e)>>

\* What an abstract hart keeps for an entry.
translationOf(e) ==
  [tlb |-> e.tlb, vmid |-> getEntryVMID(e), asid |-> IF e.G THEN 0 ELSE getEntryASID(e),
   low |-> e.low, size |-> e.size, ppn |-> e.ppn, priv |-> e.priv,
   U |-> e.U, G |-> e.G, D |-> e.D]

\* The translations an abstract hart keeps are those of the TLB entries; the
\* installed mappings do not appear.
keptByTLB == {translationOf(e) : e \in entries}

Abstract == INSTANCE Mmu WITH kept <- keptByTLB

\* Entries, installed mappings, their CSR tags and the ASID cache together
\* implement the fence contract of the architecture: every access, also one
\* that an installed mapping serves without coming to the model, uses
\* translations that were read from the tables since the last fence covering
\* them, with the permissions the current CSRs give.
FenceContract == Abstract!Spec
=============================================================================
