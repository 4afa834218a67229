--------------------------------- MODULE Tlb ---------------------------------
(***************************************************************************)
(* Address translation of one hart as the model implements it (riscvVM.c). *)
(* Three lookup tables hold TLB entries.  An entry that serves an access   *)
(* is installed as a mapping of the virtual domain of the mode, tagged     *)
(* with the CSR fields it depends on; accesses that a mapping in force     *)
(* grants do not come back to the model.  Whoever deletes an entry, or     *)
(* reuses it under other CSR fields, must remove its mappings, and those   *)
(* of first-stage entries built on it.                                     *)
(*                                                                         *)
(* Left out: translation of the table addresses of VS1 walks by VS2, HLVX, *)
(* artifact accesses, entries created by derived models, TLB validation,   *)
(* distinct code and data domains, ASIDLEN = 0, and PMP, which is Pmp.     *)
(***************************************************************************)
EXTENDS Paging, Sequences, SequencesExt

CONSTANT
  Programs    \* the harts looked at, each with the program it runs

VARIABLES
  config,     \* configuration of the hart and its program, never changed
  csr,        \* simulated ASID of the processor (vmirtSetProcessorASID)
  tables,     \* page tables in memory
  entries,    \* entries of the three TLBs
  maps,       \* mappings installed in the virtual domains
  ASIDCache,  \* recently used identifiers of each TLB, newest first
  ASIDCacheSize,
  out         \* last access and the physical page it used (none: page fault)

vars == <<config, csr, tables, entries, maps, ASIDCache, ASIDCacheSize, out>>

\* What a miss or a fence changes.
state == [tables |-> tables, entries |-> entries, maps |-> maps,
          cache |-> ASIDCache, size |-> ASIDCacheSize]

NoAccess == <<>>

\* Modes whose domains hold mappings of a TLB's entries.
modesOf(tlb) == IF tlb = "HS" THEN {"U", "S"} ELSE {"VU", "VS"}

\* Fields of the simulated ASID that are ever read from an entry of tlb.
fieldsOf(tlb) ==
  IF tlb = "HS" THEN {"ASID_HS", "MXR_HS", "SUM_HS"}
  ELSE {"ASID_VS", "VMID", "MXR_HS", "MXR_VS", "SUM_VS", "S1", "S2"}

getSimASID(tlb) == [f \in fieldsOf(tlb) |-> csr[f]]

getEntryASID(e) ==
  CASE e.tlb = "HS"  -> e.simASID.ASID_HS
    [] e.tlb = "VS1" -> e.simASID.ASID_VS
    [] e.tlb = "VS2" -> 0

getEntryVMID(e) == IF e.tlb = "HS" THEN 0 ELSE e.simASID.VMID

\* Mutant: mappings do not depend on SUM.
getEntryASIDMaskNoSUM(e, mode) ==
  LET V == modeIsVirtual(mode)
  IN  {"MXR_HS"}
        \union (IF e.G THEN {} ELSE IF V THEN {"ASID_VS"} ELSE {"ASID_HS"})
        \union (IF V THEN {"VMID", "MXR_VS", "S1", "S2"} ELSE {})

\* Fields on which mappings of e in the domain of mode depend.
getEntryASIDMask(e, mode) ==
  LET V == modeIsVirtual(mode)
  IN  {"MXR_HS"}
        \union (IF e.G THEN {} ELSE IF V THEN {"ASID_VS"} ELSE {"ASID_HS"})
        \union (IF e.tlb # "VS2" /\ e.U /\ mode \in {"S", "VS"}
                THEN IF V THEN {"SUM_VS"} ELSE {"SUM_HS"}
                ELSE {})
        \union (IF V THEN {"VMID", "MXR_VS", "S1", "S2"} ELSE {})

(***************************************************************************)
(* A program runs under CSR values csrs, in address spaces of pages, and   *)
(* writes PTEs ptes into its tables.  Levels of the tables translate whole *)
(* naturally aligned blocks of pages, and guest physical pages are pages.  *)
(***************************************************************************)
wholeBlocks(c, k, pte) ==
  /\ \A va \in c.pages : LET low == blockOf(va, pte.size)
                         IN  low..(low + pte.size - 1) \subseteq c.pages
  /\ k[1] = "VS1" => pte.ppn..(pte.ppn + pte.size - 1) \subseteq c.pages

ASSUME ProgramsAssumption ==
  \A c \in Programs :
    /\ c.csr \in c.csrs /\ c.csrs \subseteq SimASID
    /\ c.pages \subseteq Nat
    /\ DOMAIN c.ptes = DOMAIN c.tables
    /\ \A k \in DOMAIN c.tables :
         /\ c.tables[k] \in [c.pages -> PTE] /\ c.ptes[k] \subseteq PTE
         /\ \A pte \in c.ptes[k] \union {c.tables[k][va] : va \in c.pages} : wholeBlocks(c, k, pte)
    /\ c.requests \subseteq [mode : Mode, va : c.pages, need : Priv]
    /\ \A new \in c.csrs, r \in c.requests :
         LET tlb == getCurrentTLBId(new, r.mode)
         IN  /\ activeTable(new, tlb) \in DOMAIN c.tables
             /\ doStage2(new, tlb) => activeTable(new, "VS2") \in DOMAIN c.tables
    /\ c.ASID_cache_size \in Nat \ {1} /\ c.max_cache \in Nat

----------------------------------------------------------------------------
(***************************************************************************)
(* Mappings                                                                *)
(***************************************************************************)

\* Mappings vmirtUnaliasMemoryVM removes for e in the domain of mode: those of
\* its pages that carry the fields of the mask with the values e recorded.
aliases(ms, e, mode) ==
  LET mask == getEntryASIDMask(e, mode)
  IN  {m \in ms : /\ m.mode = mode /\ m.va \in pagesOf(e)
                  /\ mask \subseteq DOMAIN m.asid
                  /\ \A f \in mask : m.asid[f] = e.simASID[f]}

\* Mappings that go when e is unmapped in modes.
deleteTLBEntryMappingsMode(ms, e, modes) ==
  UNION {aliases(ms, e, mode) : mode \in e.mapped \intersect modes}

unmapTLBEntries(s, es) ==
  [s EXCEPT !.maps = @ \ UNION {deleteTLBEntryMappingsMode(@, e, modesOf(e.tlb)) : e \in es},
            !.entries = (@ \ es) \union {[e EXCEPT !.mapped = {}] : e \in es}]

\* e is found under other fields: it is unmapped where they matter.
unmapTLBEntryNewASID(s, e) ==
  LET changed == {mode \in modesOf(e.tlb) :
                    \E f \in getEntryASIDMask(e, mode) : e.simASID[f] # csr[f]}
      new == [e EXCEPT !.mapped = @ \ changed, !.simASID = getSimASID(e.tlb)]
  IN  [st |-> [s EXCEPT !.maps = @ \ deleteTLBEntryMappingsMode(@, e, changed),
                        !.entries = (@ \ {e}) \union {new}],
       entry |-> new]

\* First-stage entry e1 may be mapped through second-stage entry e2.
usesS2(e1, e2) ==
  /\ e1.tlb = "VS1" /\ e1.simASID.S2
  /\ e1.ppn..(e1.ppn + e1.size - 1) \intersect pagesOf(e2) # {}
  /\ getEntryVMID(e1) = getEntryVMID(e2)

\* Mutant: a deleted second-stage entry leaves first-stage mappings.
keepS1Entries(s, deleted) == s

unmapS1EntriesForS2Entries(s, deleted) ==
  unmapTLBEntries(s, {e1 \in s.entries : \E e2 \in deleted : e2.tlb = "VS2" /\ usesS2(e1, e2)})

deleteTLBEntries(s, es) ==
  LET s1 == [unmapTLBEntries(s, es) EXCEPT !.entries = s.entries \ es]
  IN  unmapS1EntriesForS2Entries(s1, es)

----------------------------------------------------------------------------
(***************************************************************************)
(* Identifiers in use                                                      *)
(***************************************************************************)

\* Mutant: nothing is dropped at the limit.
insertMRUNoEject(list, size, new) ==
  LET at == {i \in DOMAIN list : list[i] = new}
  IN  <<new>> \o (IF at = {} THEN list ELSE RemoveAt(list, CHOOSE i \in at : TRUE))

\* Sequence with new first (for sizes above 1, see README); an identifier that
\* is not known yet displaces the oldest at the limit.
insertMRU(list, size, new) ==
  LET at == {i \in DOMAIN list : list[i] = new}
  IN  <<new>> \o (IF at # {} THEN RemoveAt(list, CHOOSE i \in at : TRUE)
                  ELSE SubSeq(list, 1, IF Len(list) < size THEN Len(list) ELSE size - 1))

\* Cache sizes after an ejection: the eject rate is sampled now and then, and
\* too high a rate doubles the cache.
monitorASIDCacheEjectRate(size) ==
  {size} \union (IF size < config.max_cache THEN {2 * size} ELSE {})

\* Mutant: entries of an ejected identifier stay.
promoteKeepEntries(s, e) ==
  {IF s.size[e.tlb] = 0 THEN s ELSE
   [s EXCEPT !.cache[e.tlb] = insertMRU(@, s.size[e.tlb], <<getEntryVMID(e), getEntryASID(e)>>)]}

\* States after the identifiers of e are made the most recent of its TLB: the
\* entries of identifiers that drop out are deleted.
promoteASIDMRU(s, e) ==
  LET new == <<getEntryVMID(e), getEntryASID(e)>>
      list == s.cache[e.tlb]
      next == insertMRU(list, s.size[e.tlb], new)
      eject == ToSet(list) \ ToSet(next)
      gone == {x \in s.entries : x.tlb = e.tlb /\ <<getEntryVMID(x), getEntryASID(x)>> \in eject}
      s1 == [deleteTLBEntries(s, gone) EXCEPT !.cache[e.tlb] = next]
  IN  IF s.size[e.tlb] = 0 THEN {s}
      ELSE IF eject = {} THEN {s1}
      ELSE {[s1 EXCEPT !.size[e.tlb] = n] : n \in monitorASIDCacheEjectRate(s.size[e.tlb])}

----------------------------------------------------------------------------
(***************************************************************************)
(* Misses                                                                  *)
(***************************************************************************)

findTLBEntries(s, tlb, va) ==
  {e \in s.entries : /\ e.tlb = tlb /\ va \in pagesOf(e)
                     /\ getEntryVMID(e) = getActiveVMID(csr, tlb)
                     /\ e.G \/ getEntryASID(e) = getActiveASID(csr, tlb)}

\* A stage fails, or finds an entry that grants priv.
Fault(s) == [st |-> s, found |-> {}, priv |-> {}]

Found(s, tlb, mode, e) ==
  LET priv == getEntryPriv(config, csr, tlb, mode, e)
      r == unmapTLBEntryNewASID(s, e)
  IN  [st |-> r.st, found |-> {r.entry}, priv |-> IF e.D THEN priv ELSE priv \ {"W"}]

\* doPageTableLookup and allocateTLBEntry.
walk(s, tlb, mode, va, need) ==
  LET k == activeTable(csr, tlb)
      old == s.tables[k][va]
      pte == markPTE(config, old, need)
      e == [tlb |-> tlb, low |-> blockOf(va, pte.size), size |-> pte.size, ppn |-> pte.ppn,
            priv |-> pte.priv, U |-> pte.U, G |-> pte.G \/ tlb = "VS2", D |-> pte.D,
            simASID |-> getSimASID(tlb), mapped |-> {}]
      s1 == IF pte = old THEN s ELSE [s EXCEPT !.tables[k] = writePTE(@, va, pte)]
  IN  IF walkFaults(config, csr, tlb, mode, old, need) THEN {Fault(s)}
      ELSE {Found([s2 EXCEPT !.entries = @ \union {e}], tlb, mode, e) : s2 \in promoteASIDMRU(s1, e)}

findOrCreateTLBEntry(s, tlb, mode, va, need) ==
  LET es == findTLBEntries(s, tlb, va)
      use(e) ==
        IF need \notin getEntryPriv(config, csr, tlb, mode, e) THEN {Fault(s)}
        ELSE IF need = "W" /\ ~e.D
             THEN IF ~config.updatePTED THEN {Fault(s)}
                  ELSE walk(deleteTLBEntries(s, {e}), tlb, mode, va, need)
             ELSE {Found(s, tlb, mode, e)}
  IN  IF es = {} THEN walk(s, tlb, mode, va, need) ELSE UNION {use(e) : e \in es}

\* Page va of e1, and of e2 at the second stage if there is one.
translate(e, va) == e.ppn + va - e.low

\* Mappings of the pages both entries cover, around the one accessed.
mapTLBEntry(s, e1, second, mode, priv) ==
  LET asid == [f \in getEntryASIDMask(e1, mode)
                      \union UNION {getEntryASIDMask(e2, mode) : e2 \in second} |->
                 e1.simASID[f]]
      pages == {va \in pagesOf(e1) : \A e2 \in second : translate(e1, va) \in pagesOf(e2)}
      pa(va) == IF second = {} THEN translate(e1, va)
                ELSE translate(CHOOSE e2 \in second : TRUE, translate(e1, va))
      new == {[mode |-> mode, va |-> va, pa |-> pa(va), priv |-> priv, asid |-> asid] : va \in pages}
      old == {m \in s.maps : m.mode = mode /\ m.va \in pages /\ m.asid = asid}
  IN  [s EXCEPT !.maps = (@ \ old) \union new,
                !.entries = (@ \ {e1}) \union {[e1 EXCEPT !.mapped = @ \union {mode}]}]

\* Outcome when r2 is the second stage for gpa, to which entry e1 of the first
\* stage r leads.  The second stage may have unmapped e1.
mapStages(r, e1, r2, mode, gpa) ==
  LET e1After == IF e1 \in r2.st.entries THEN e1 ELSE [e1 EXCEPT !.mapped = {}]
  IN  IF r2.found = {}
      THEN [st |-> r2.st, pa |-> {}]
      ELSE [st |-> mapTLBEntry(r2.st, e1After, r2.found, mode, r.priv \intersect r2.priv),
            pa |-> {translate(CHOOSE e \in r2.found : TRUE, gpa)}]

\* Outcomes once the first stage has found an entry.
mapFound(r, tlb, mode, va, need) ==
  LET e1 == CHOOSE e \in r.found : TRUE
      gpa == translate(e1, va)
  IN  IF ~doStage2(csr, tlb)
      THEN {[st |-> mapTLBEntry(r.st, e1, {}, mode, r.priv), pa |-> {gpa}]}
      ELSE {mapStages(r, e1, r2, mode, gpa) : r2 \in findOrCreateTLBEntry(r.st, "VS2", mode, gpa, need)}

\* Outcomes of a miss: the state and the physical page, if the access succeeds.
tlbMiss(mode, va, need) ==
  LET tlb == getCurrentTLBId(csr, mode)
  IN  UNION {IF r.found = {} THEN {[st |-> r.st, pa |-> {}]} ELSE mapFound(r, tlb, mode, va, need) :
             r \in findOrCreateTLBEntry(state, tlb, mode, va, need)}

----------------------------------------------------------------------------
\* Replace what a miss or a fence changes.
become(s) ==
  /\ tables' = s.tables
  /\ entries' = s.entries
  /\ maps' = s.maps
  /\ ASIDCache' = s.cache
  /\ ASIDCacheSize' = s.size

inForce(m) == \A f \in DOMAIN m.asid : m.asid[f] = csr[f]

\* Mappings that grant request r.
granting(r) == {m \in maps : m.mode = r.mode /\ m.va = r.va /\ r.need \in m.priv /\ inForce(m)}

\* An access served by an installed mapping.
Hit(r) ==
  /\ \E m \in granting(r) : out' = <<r, {m.pa}>>
  /\ UNCHANGED <<config, csr, tables, entries, maps, ASIDCache, ASIDCacheSize>>

\* An access that comes to the model (riscvVMMiss).
Miss(r) ==
  /\ granting(r) = {}
  /\ \E o \in tlbMiss(r.mode, r.va, r.need) : become(o.st) /\ out' = <<r, o.pa>>
  /\ UNCHANGED <<config, csr>>

\* Entries a fence of stage f.tlb deletes; f.va and f.id hold the page and the
\* identifier given, if any.
deleteTLBEntryMask(f, es) ==
  {e \in es : /\ e.tlb = f.tlb
              /\ f.va = {} \/ f.va \intersect pagesOf(e) # {}
              /\ CASE f.tlb = "HS"  -> f.id = {} \/ e.G \/ getEntryASID(e) \in f.id
                   [] f.tlb = "VS1" -> /\ getEntryVMID(e) = csr.VMID
                                       /\ f.id = {} \/ e.G \/ getEntryASID(e) \in f.id
                   [] f.tlb = "VS2" -> f.id = {} \/ getEntryVMID(e) \in f.id}

\* Unless they are preserved, a fence of the second stage also deletes all
\* first-stage entries of its VMIDs.
guestEntries(f, es) ==
  {e \in es : /\ f.tlb = "VS2" /\ ~config.fence_g_preserves_vs
              /\ e.tlb = "VS1" /\ (f.id = {} \/ getEntryVMID(e) \in f.id)}

deleteTLBEntriesMask(s, f) ==
  LET s1 == deleteTLBEntries(s, deleteTLBEntryMask(f, s.entries))
  IN  deleteTLBEntries(s1, guestEntries(f, s1.entries))

\* SFENCE.VMA (of HS or, when V=1, of VS1), HFENCE.VVMA and HFENCE.GVMA.
Fence(f) ==
  /\ become(deleteTLBEntriesMask(state, f))
  /\ out' = NoAccess
  /\ UNCHANGED <<config, csr>>

----------------------------------------------------------------------------
\* A write of satp, vsatp, hgatp, mstatus or vsstatus changes fields of one
\* register and passes them on (riscvVMSetASID).
Registers == {{"ASID_HS"}, {"S1", "ASID_VS"}, {"S2", "VMID"}, {"MXR_HS", "SUM_HS"}, {"MXR_VS", "SUM_VS"}}

riscvVMSetASID(new) ==
  /\ new # csr
  /\ \E reg \in Registers : \A f \in DOMAIN csr \ reg : new[f] = csr[f]
  /\ csr' = new
  /\ out' = NoAccess
  /\ UNCHANGED <<config, tables, entries, maps, ASIDCache, ASIDCacheSize>>

\* A program writes a page table.
WritePTE(k, va, pte) ==
  /\ pte # tables[k][va]
  /\ tables' = [tables EXCEPT ![k] = writePTE(@, va, pte)]
  /\ out' = NoAccess
  /\ UNCHANGED <<config, csr, entries, maps, ASIDCache, ASIDCacheSize>>

\* riscvVMInit: empty TLBs.
Init ==
  /\ config \in Programs
  /\ csr = config.csr
  /\ tables = config.tables
  /\ entries = {}
  /\ maps = {}
  /\ ASIDCache = [tlb \in TLBId |-> <<>>]
  /\ ASIDCacheSize = [tlb \in TLBId |-> config.ASID_cache_size]
  /\ out = NoAccess

Next ==
  \/ \E r \in config.requests : Hit(r) \/ Miss(r)
  \/ \E f \in config.fences : Fence(f)
  \/ \E new \in config.csrs : riscvVMSetASID(new)
  \/ \E k \in DOMAIN tables, va \in config.pages : \E pte \in config.ptes[k] : WritePTE(k, va, pte)

Spec == Init /\ [][Next]_vars
=============================================================================
