--------------------------------- MODULE Mmu ---------------------------------
(***************************************************************************)
(* What address translation promises to programs, as the privileged        *)
(* architecture has it: a hart may keep any translation that a walk of the *)
(* tables yielded, and use it in place of a walk, until a fence that       *)
(* covers it; it may drop it at any time.  Changes of the CSRs, and of the *)
(* tables where nothing is kept, take effect at once.                      *)
(***************************************************************************)
EXTENDS Paging

VARIABLES
  config,   \* configuration of the hart and its program, never changed
  csr,      \* fields that select and qualify translations
  tables,   \* page tables in memory
  kept,     \* translations the hart may use
  out       \* last access and the physical page it used (none: page fault)

vars == <<config, csr, tables, kept, out>>

NoAccess == <<>>

\* Translation a walk of tlb's active table yields for va from pte.
translation(tlb, va, pte) ==
  LET G == pte.G \/ tlb = "VS2"
  IN  [tlb |-> tlb, vmid |-> getActiveVMID(csr, tlb),
       asid |-> IF G THEN 0 ELSE getActiveASID(csr, tlb),
       low |-> blockOf(va, pte.size), size |-> pte.size,
       ppn |-> pte.ppn, priv |-> pte.priv, U |-> pte.U, G |-> G, D |-> pte.D]

\* Kept translations of va for the current identifiers.
usable(tlb, va) ==
  {t \in kept : /\ t.tlb = tlb /\ va \in pagesOf(t)
                /\ t.vmid = getActiveVMID(csr, tlb)
                /\ t.G \/ t.asid = getActiveASID(csr, tlb)}

\* t permits an access of mode that needs need.
permits(t, mode, need) ==
  /\ need \in getEntryPriv(config, csr, t.tlb, mode, t)
  /\ need = "W" => t.D

translate(t, va) == t.ppn + va - t.low

\* What one stage may do with va: the translation used, whether it came from a
\* walk, and whether it grants the access.
Stage(tlb, mode, va, need) ==
  LET pte == tables[activeTable(csr, tlb)][va]
      fault == walkFaults(config, csr, tlb, mode, pte, need)
  IN  {[t |-> t, walked |-> FALSE, ok |-> permits(t, mode, need)] : t \in usable(tlb, va)}
        \union {[t |-> translation(tlb, va, markPTE(config, pte, need)),
                 walked |-> TRUE, ok |-> ~fault]}

\* Tables after a stage: a walk that succeeds marks its PTE.
marked(tab, tlb, va, need, s) ==
  LET k == activeTable(csr, tlb)
      pte == markPTE(config, tab[k][va], need)
  IN  IF s.walked /\ s.ok /\ pte # tab[k][va]
      THEN [tab EXCEPT ![k] = writePTE(@, va, pte)]
      ELSE tab

gained(s) == IF s.walked /\ s.ok THEN {s.t} ELSE {}

----------------------------------------------------------------------------
Init == kept = {} /\ out = NoAccess

WritePTE ==
  /\ UNCHANGED <<config, csr>>
  /\ \E k \in DOMAIN tables, p \in config.pages, pte \in UNION {config.ptes[k] : k \in DOMAIN tables} :
       tables' = [tables EXCEPT ![k] = writePTE(@, p, pte)]
  /\ kept' \subseteq kept
  /\ out' = NoAccess

WriteCSR ==
  /\ UNCHANGED <<config, tables>>
  /\ csr' \in config.csrs
  /\ kept' \subseteq kept
  /\ out' = NoAccess

\* A fence of stage f.tlb covers t; f.va and f.id hold the page and the
\* identifier the instruction gives, if it gives one.  Fences of VS1 are for
\* the current VMID.
covers(f, t) ==
  /\ t.tlb = f.tlb
  /\ f.va = {} \/ f.va \intersect pagesOf(t) # {}
  /\ f.id = {} \/ (IF f.tlb = "VS2" THEN t.vmid \in f.id ELSE ~t.G /\ t.asid \in f.id)
  /\ f.tlb = "VS1" => t.vmid = csr.VMID

Fence ==
  /\ UNCHANGED <<config, csr, tables>>
  /\ \E f \in config.fences : kept' \subseteq {t \in kept : ~covers(f, t)}
  /\ out' = NoAccess

\* An access: one stage, or two of which the second translates the guest
\* physical page of the first.
Access ==
  /\ UNCHANGED <<config, csr>>
  /\ \E r \in config.requests :
       LET tlb == getCurrentTLBId(csr, r.mode)
       IN  \E s \in Stage(tlb, r.mode, r.va, r.need) :
             LET gpa == translate(s.t, r.va)
                 tab == marked(tables, tlb, r.va, r.need, s)
                 done(result, new) ==
                   /\ kept' \subseteq kept \union new
                   /\ out' = <<r, result>>
             IN  \/ ~s.ok /\ tables' = tab /\ done({}, {})
                 \/ /\ s.ok /\ ~doStage2(csr, tlb)
                    /\ tables' = tab
                    /\ done({gpa}, gained(s))
                 \/ /\ s.ok /\ doStage2(csr, tlb)
                    /\ \E s2 \in Stage("VS2", r.mode, gpa, r.need) :
                         /\ tables' = marked(tab, "VS2", gpa, r.need, s2)
                         /\ done(IF s2.ok THEN {translate(s2.t, gpa)} ELSE {},
                                 gained(s) \union gained(s2))

Next == WritePTE \/ WriteCSR \/ Fence \/ Access

Spec == Init /\ [][Next]_vars
=============================================================================
