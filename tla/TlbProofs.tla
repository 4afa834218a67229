------------------------------ MODULE TlbProofs ------------------------------
(***************************************************************************)
(* Address translation for every program: the TLB implements the fence     *)
(* contract of Mmu.                                                        *)
(*                                                                         *)
(* The inductive invariant IInv says of each installed mapping that it is  *)
(* Served: live entries translate its page to its physical page, they      *)
(* would be unmapped under the fields the mapping carries, and by these    *)
(* fields they grant no less than the mapping does.  Deleting entries,     *)
(* finding one under other fields and ejecting an identifier remove every  *)
(* mapping that would lose its entries (DeleteKeeps, RenewKeeps,           *)
(* PromoteKeeps); so a mapping in force, which the hart uses without       *)
(* coming to the model, uses translations an abstract hart keeps, with the *)
(* permissions of the present fields (HitStep).  A miss is at each stage a *)
(* use of an entry or a walk of Mmu (StageIs, FindKeeps); the second stage *)
(* works on what the first left, and does what it would have done before   *)
(* it (SecondBefore).                                                      *)
(***************************************************************************)
EXTENDS TlbProperties, SequenceTheorems, TLAPS

\* Every page lies in its block.
LEMMA InBlock ==
  ASSUME NEW v \in Nat, NEW n \in Nat \ {0}
  PROVE  /\ blockOf(v, n) \in Nat
         /\ v \in blockOf(v, n)..(blockOf(v, n) + n - 1)
BY DEF blockOf

-----------------------------------------------------------------------------
\* A state has the fields a miss or a fence changes.
IsState(s) == DOMAIN s = {"tables", "entries", "maps", "cache", "size"}

\* Entry e without mappings.
unmapped(e) == [e EXCEPT !.mapped = {}]

\* First-stage entries that are mapped through second-stage entries of gone.
dependents(es, gone) ==
  {e1 \in es : \E e2 \in gone : e2.tlb = "VS2" /\ usesS2(e1, e2)}

\* Mappings that unmapping entries es removes.
mappingsOf(ms, es) == UNION {deleteTLBEntryMappingsMode(ms, e, modesOf(e.tlb)) : e \in es}

\* What unmapTLBEntries changes.
LEMMA UnmapIs ==
  ASSUME NEW s, IsState(s), NEW es
  PROVE  LET u == unmapTLBEntries(s, es)
         IN  /\ IsState(u)
             /\ u.tables = s.tables /\ u.cache = s.cache /\ u.size = s.size
             /\ u.entries = (s.entries \ es) \union {unmapped(e) : e \in es}
             /\ u.maps = s.maps \ mappingsOf(s.maps, es)
BY DEF unmapTLBEntries, IsState, unmapped, mappingsOf

\* What deleteTLBEntries changes: the entries go with their mappings, and the
\* first-stage entries built on them lose theirs.
LEMMA DeleteIs ==
  ASSUME NEW s, IsState(s), NEW es
  PROVE  LET left == s.entries \ es
             users == dependents(left, es)
             d == deleteTLBEntries(s, es)
         IN  /\ IsState(d)
             /\ d.tables = s.tables /\ d.cache = s.cache /\ d.size = s.size
             /\ d.entries = (left \ users) \union {unmapped(e) : e \in users}
             /\ d.maps = (s.maps \ mappingsOf(s.maps, es))
                            \ mappingsOf(s.maps \ mappingsOf(s.maps, es), users)
<1> DEFINE left == s.entries \ es
           users == dependents(left, es)
           ms == s.maps \ mappingsOf(s.maps, es)
           u == unmapTLBEntries(s, es)
           s1 == [u EXCEPT !.entries = s.entries \ es]
<1>1. IsState(u) /\ u.tables = s.tables /\ u.cache = s.cache /\ u.size = s.size /\ u.maps = ms
  BY UnmapIs
<1>2. IsState(s1) /\ s1.entries = left /\ s1.maps = ms /\ s1.tables = s.tables
      /\ s1.cache = s.cache /\ s1.size = s.size
  <2> HIDE DEF u
  <2> QED BY <1>1 DEF IsState
<1>3. deleteTLBEntries(s, es) = unmapTLBEntries(s1, users)
  BY <1>2 DEF deleteTLBEntries, unmapS1EntriesForS2Entries, dependents
<1> HIDE DEF users, s1, left, u, ms
<1>4. LET v == unmapTLBEntries(s1, users)
      IN  /\ IsState(v)
          /\ v.tables = s1.tables /\ v.cache = s1.cache /\ v.size = s1.size
          /\ v.entries = (s1.entries \ users) \union {unmapped(e) : e \in users}
          /\ v.maps = s1.maps \ mappingsOf(s1.maps, users)
  BY <1>2, UnmapIs
<1>5. LET d == deleteTLBEntries(s, es)
      IN  /\ IsState(d)
          /\ d.tables = s.tables /\ d.cache = s.cache /\ d.size = s.size
          /\ d.entries = (left \ users) \union {unmapped(e) : e \in users}
          /\ d.maps = ms \ mappingsOf(ms, users)
  BY <1>2, <1>3, <1>4
<1> QED
  BY <1>5 DEF users, left, ms

-----------------------------------------------------------------------------
(***************************************************************************)
(* The invariant, on the state a miss or a fence works on.                 *)
(***************************************************************************)
\* Fields that entries of tlb record.
SimOf(tlb) == {[f \in fieldsOf(tlb) |-> c[f]] : c \in SimASID}

\* Records of TLB entries.
EntryRec ==
  [tlb : TLBId, low : Nat, size : Nat \ {0}, ppn : Nat, priv : SUBSET Priv,
   U : BOOLEAN, G : BOOLEAN, D : BOOLEAN,
   simASID : UNION {SimOf(tlb) : tlb \in TLBId}, mapped : SUBSET Mode]

\* An entry covers pages, those of the first stage of a guest lead to pages,
\* and those of the second stage are global.
EntryOK(e) ==
  /\ e \in EntryRec
  /\ e.simASID \in SimOf(e.tlb)
  /\ e.mapped \subseteq modesOf(e.tlb)
  /\ pagesOf(e) \subseteq config.pages
  /\ e.tlb = "VS1" => e.ppn..(e.ppn + e.size - 1) \subseteq config.pages
  /\ e.tlb = "VS2" => e.G

\* All entries are well formed.
EntriesOK(s) == \A e \in s.entries : EntryOK(e)

\* Entry e alone gives the privileges of m to the fields m carries.
Grants(e, m) ==
  /\ m.priv \subseteq getEntryPriv(config, m.asid, e.tlb, m.mode, e)
  /\ "W" \in m.priv => e.D

\* Unmapping e1 removes m, e1 grants what m does and is of the stage that the
\* fields of m make the first.
FirstStage(e1, m) ==
  /\ m.mode \in e1.mapped
  /\ m.va \in pagesOf(e1)
  /\ LET mask == getEntryASIDMask(e1, m.mode)
     IN  mask \subseteq DOMAIN m.asid /\ \A f \in mask : m.asid[f] = e1.simASID[f]
  /\ Grants(e1, m)
  /\ modeIsVirtual(m.mode) => (m.asid.S1 <=> e1.tlb = "VS1")

\* Entry e2 translates m after e1.
SecondStage(e1, e2, m) ==
  /\ e2.tlb = "VS2"
  /\ getEntryVMID(e1) = getEntryVMID(e2)
  /\ translate(e1, m.va) \in pagesOf(e2)
  /\ m.pa = translate(e2, translate(e1, m.va))
  /\ Grants(e2, m)

\* Entries of es translate m.
Served(es, m) ==
  \E e1 \in es :
    /\ FirstStage(e1, m)
    /\ IF e1.tlb = "VS1" /\ m.asid.S2 THEN \E e2 \in es : SecondStage(e1, e2, m)
                                      ELSE m.pa = translate(e1, m.va)

\* Every mapping is of a page, and is served by entries.
MapsOK(s) ==
  \A m \in s.maps : /\ m.mode \in Mode /\ m.va \in config.pages /\ m.priv \subseteq Priv
                    /\ Served(s.entries, m)

\* The type of ASID_cache and the entries it knows.
CacheOK(s) ==
  /\ s.cache \in [TLBId -> Seq(Nat \X Nat)]
  /\ s.size \in [TLBId -> Nat]
  /\ \A tlb \in TLBId : Len(s.cache[tlb]) <= s.size[tlb]
  /\ \A e \in s.entries : ~e.G /\ s.size[e.tlb] > 0 =>
       <<getEntryVMID(e), getEntryASID(e)>> \in ToSet(s.cache[e.tlb])

\* The PTEs of a table translate whole blocks.
TableOK(k, table) ==
  /\ table \in [config.pages -> PTE]
  /\ \A va \in config.pages : table[va].V => wholeBlocks(config, k, table[va])

\* The tables are those of the program, whatever it wrote into them.
TablesOK(s) ==
  /\ DOMAIN s.tables = DOMAIN config.tables
  /\ \A k \in DOMAIN s.tables : TableOK(k, s.tables[k])

\* The invariant on such a state.
StateOK(s) == IsState(s) /\ TablesOK(s) /\ EntriesOK(s) /\ MapsOK(s) /\ CacheOK(s)

-----------------------------------------------------------------------------
(***************************************************************************)
(* Entries.                                                                *)
(***************************************************************************)

\* Identifiers and fields an entry recorded.
LEMMA EntryFields ==
  ASSUME NEW e, EntryOK(e)
  PROVE  /\ DOMAIN e.simASID = fieldsOf(e.tlb)
         /\ getEntryVMID(e) \in Nat /\ getEntryASID(e) \in Nat
         /\ \A mode \in e.mapped : getEntryASIDMask(e, mode) \subseteq fieldsOf(e.tlb)
         /\ e.tlb # "HS" => e.simASID.S1 \in BOOLEAN /\ e.simASID.S2 \in BOOLEAN
<1>1. PICK c \in SimASID : e.simASID = [f \in fieldsOf(e.tlb) |-> c[f]]
  BY DEF EntryOK, SimOf
<1>2. e.tlb \in {"HS", "VS1", "VS2"}
  BY DEF EntryOK, EntryRec, TLBId
<1>3. DOMAIN e.simASID = fieldsOf(e.tlb)
  BY <1>1
<1>4. /\ e.tlb = "HS" => e.simASID.ASID_HS = c.ASID_HS
      /\ e.tlb # "HS" => /\ e.simASID.ASID_VS = c.ASID_VS /\ e.simASID.VMID = c.VMID
                         /\ e.simASID.S1 = c.S1 /\ e.simASID.S2 = c.S2
  BY <1>1, <1>2 DEF fieldsOf
<1>5. /\ c.ASID_HS \in Nat /\ c.ASID_VS \in Nat /\ c.VMID \in Nat
      /\ c.S1 \in BOOLEAN /\ c.S2 \in BOOLEAN
  BY DEF SimASID
<1>6. getEntryVMID(e) \in Nat /\ getEntryASID(e) \in Nat
  BY <1>2, <1>4, <1>5 DEF getEntryVMID, getEntryASID
<1>7. \A mode \in e.mapped : getEntryASIDMask(e, mode) \subseteq fieldsOf(e.tlb)
  <2> SUFFICES ASSUME NEW mode \in e.mapped
               PROVE  getEntryASIDMask(e, mode) \subseteq fieldsOf(e.tlb)
    OBVIOUS
  <2>1. mode \in modesOf(e.tlb) /\ (e.tlb = "VS2" => e.G)
    BY DEF EntryOK
  <2>2. CASE e.tlb = "HS"
    BY <2>1, <2>2 DEF getEntryASIDMask, fieldsOf, modesOf, modeIsVirtual
  <2>3. CASE e.tlb # "HS"
    BY <2>1, <2>3 DEF getEntryASIDMask, fieldsOf, modesOf, modeIsVirtual
  <2> QED
    BY <2>2, <2>3
<1> QED
  BY <1>3, <1>4, <1>5, <1>6, <1>7

\* An entry that is unmapped is the same otherwise.
LEMMA UnmappedEntry ==
  ASSUME NEW e, EntryOK(e)
  PROVE  /\ EntryOK(unmapped(e))
         /\ unmapped(e).mapped = {}
         /\ translationOf(unmapped(e)) = translationOf(e)
         /\ unmapped(e).tlb = e.tlb /\ unmapped(e).G = e.G /\ unmapped(e).U = e.U
         /\ unmapped(e).D = e.D /\ unmapped(e).priv = e.priv
         /\ unmapped(e).low = e.low /\ unmapped(e).ppn = e.ppn
         /\ unmapped(e).simASID = e.simASID
         /\ getEntryVMID(unmapped(e)) = getEntryVMID(e)
         /\ getEntryASID(unmapped(e)) = getEntryASID(e)
<1> DEFINE u == unmapped(e)
<1>1. e \in EntryRec
  BY DEF EntryOK
<1>2. /\ u \in EntryRec /\ u.mapped = {} /\ u.tlb = e.tlb /\ u.low = e.low /\ u.size = e.size
      /\ u.ppn = e.ppn /\ u.priv = e.priv /\ u.U = e.U /\ u.G = e.G /\ u.D = e.D
      /\ u.simASID = e.simASID
  BY <1>1 DEF EntryRec, unmapped
<1> HIDE DEF u
<1>3. getEntryVMID(u) = getEntryVMID(e) /\ getEntryASID(u) = getEntryASID(e)
  BY <1>2 DEF getEntryVMID, getEntryASID
<1>4. translationOf(u) = translationOf(e)
  BY <1>2, <1>3 DEF translationOf
<1>5. EntryOK(u)
  BY <1>2 DEF EntryOK, pagesOf
<1> QED
  BY <1>2, <1>3, <1>4, <1>5 DEF u

\* A mapping goes with its first-stage entry.
LEMMA GoesWithFirst ==
  ASSUME NEW ms, NEW m \in ms, NEW es, NEW e1 \in es, EntryOK(e1), FirstStage(e1, m)
  PROVE  m \in mappingsOf(ms, es)
<1>1. m.mode \in e1.mapped \intersect modesOf(e1.tlb)
  BY DEF EntryOK, FirstStage
<1>2. m \in aliases(ms, e1, m.mode)
  BY DEF aliases, FirstStage
<1>3. m \in deleteTLBEntryMappingsMode(ms, e1, modesOf(e1.tlb))
  BY <1>1, <1>2 DEF deleteTLBEntryMappingsMode
<1> QED
  BY <1>3 DEF mappingsOf

\* A first-stage entry is found from the second-stage entry that serves a
\* mapping of it.
LEMMA FoundFromSecond ==
  ASSUME NEW e1, EntryOK(e1), NEW e2, EntryOK(e2), NEW m, FirstStage(e1, m),
         e1.tlb = "VS1", m.asid.S2, SecondStage(e1, e2, m)
  PROVE  usesS2(e1, e2)
<1>1. m.mode \in {"VU", "VS"}
  BY DEF FirstStage, EntryOK, modesOf
<1>2. e1.simASID.S2
  BY <1>1 DEF FirstStage, getEntryASIDMask, modeIsVirtual
<1>3. m.va \in e1.low..(e1.low + e1.size - 1)
  BY DEF FirstStage, pagesOf
<1>4. translate(e1, m.va) \in e1.ppn..(e1.ppn + e1.size - 1)
  BY <1>3 DEF EntryOK, EntryRec, translate
<1> QED
  BY <1>2, <1>4 DEF usesS2, SecondStage

-----------------------------------------------------------------------------
(***************************************************************************)
(* Deletion.                                                               *)
(***************************************************************************)

\* Entries of t are entries of s, but for their mappings.
From(t, s) == \A e \in t.entries : \E e0 \in s.entries : e = e0 \/ e = unmapped(e0)

\* Of the entries of s, those not of gone are still there.
Stays(t, s, gone) ==
  \A e \in s.entries \ gone : IF e.tlb = "VS1" THEN e \in t.entries \/ unmapped(e) \in t.entries
                                               ELSE e \in t.entries

\* A deletion takes with the entries every mapping that used them.
LEMMA DeleteKeeps ==
  ASSUME NEW s, IsState(s), EntriesOK(s), MapsOK(s), NEW es, es \subseteq s.entries
  PROVE  LET d == deleteTLBEntries(s, es)
         IN  /\ IsState(d) /\ EntriesOK(d) /\ MapsOK(d)
             /\ d.tables = s.tables /\ d.cache = s.cache /\ d.size = s.size
             /\ \A e \in d.entries : \E e0 \in s.entries \ es : e = e0 \/ e = unmapped(e0)
             /\ Stays(d, s, es)
<1> DEFINE left == s.entries \ es
           users == dependents(left, es)
           d == deleteTLBEntries(s, es)
           ms == s.maps \ mappingsOf(s.maps, es)
<1>1. /\ IsState(d)
      /\ d.tables = s.tables /\ d.cache = s.cache /\ d.size = s.size
      /\ d.entries = (left \ users) \union {unmapped(e) : e \in users}
      /\ d.maps = ms \ mappingsOf(ms, users)
  BY DeleteIs
<1>2. users \subseteq left /\ \A e \in users : e.tlb = "VS1"
  BY DEF dependents, usesS2
<1>a. \A e1 \in left, e2 \in es : e2.tlb = "VS2" /\ usesS2(e1, e2) => e1 \in users
  BY DEF dependents
<1> HIDE DEF d, users
<1>3. EntriesOK(d)
  BY <1>1, <1>2, UnmappedEntry DEF EntriesOK
<1>4. \A e \in d.entries : \E e0 \in s.entries \ es : e = e0 \/ e = unmapped(e0)
  BY <1>1, <1>2
<1>5. Stays(d, s, es)
  BY <1>1, <1>2 DEF Stays
<1>6. MapsOK(d)
  <2> SUFFICES ASSUME NEW m \in d.maps
               PROVE  Served(d.entries, m)
    BY <1>1 DEF MapsOK
  <2>1. m \in s.maps /\ m \notin mappingsOf(s.maps, es) /\ m \in ms /\ m \notin mappingsOf(ms, users)
    BY <1>1
  <2>2. PICK e1 \in s.entries :
          /\ FirstStage(e1, m)
          /\ IF e1.tlb = "VS1" /\ m.asid.S2 THEN \E e2 \in s.entries : SecondStage(e1, e2, m)
                                            ELSE m.pa = translate(e1, m.va)
    BY <2>1 DEF MapsOK, Served
  <2>3. EntryOK(e1) /\ e1 \in left
    BY <2>1, <2>2, GoesWithFirst DEF EntriesOK
  <2>4. e1 \notin users
    BY <2>1, <2>2, <2>3, GoesWithFirst
  <2>5. e1 \in d.entries
    BY <1>1, <2>3, <2>4
  <2>6. CASE e1.tlb = "VS1" /\ m.asid.S2
    <3>1. PICK e2 \in s.entries : SecondStage(e1, e2, m)
      BY <2>2, <2>6
    <3>2. EntryOK(e2) /\ e2.tlb = "VS2"
      BY <3>1 DEF EntriesOK, SecondStage
    <3>3. usesS2(e1, e2)
      BY <2>2, <2>3, <2>6, <3>1, <3>2, FoundFromSecond
    <3>4. e2 \in left
      BY <1>a, <2>3, <2>4, <3>2, <3>3
    <3>5. e2 \in d.entries
      BY <1>1, <1>2, <3>2, <3>4
    <3> QED
      BY <2>2, <2>5, <2>6, <3>1, <3>5 DEF Served
  <2> QED
    BY <2>2, <2>5, <2>6 DEF Served
<1> QED
  BY <1>1, <1>3, <1>4, <1>5, <1>6 DEF d

\* The ASID cache bounds what a deletion leaves.
LEMMA CacheKept ==
  ASSUME NEW s, CacheOK(s), EntriesOK(s), NEW t,
         t.cache = s.cache, t.size = s.size,
         \A e \in t.entries : \E e0 \in s.entries : e = e0 \/ e = unmapped(e0)
  PROVE  CacheOK(t)
<1> SUFFICES ASSUME NEW e \in t.entries, ~e.G, t.size[e.tlb] > 0
             PROVE  <<getEntryVMID(e), getEntryASID(e)>> \in ToSet(t.cache[e.tlb])
  BY DEF CacheOK
<1>1. PICK e0 \in s.entries : e = e0 \/ e = unmapped(e0)
  OBVIOUS
<1>2. e.tlb = e0.tlb /\ e.G = e0.G /\ getEntryVMID(e) = getEntryVMID(e0) /\ getEntryASID(e) = getEntryASID(e0)
  BY <1>1, UnmappedEntry DEF EntriesOK
<1> QED
  BY <1>2 DEF CacheOK

-----------------------------------------------------------------------------
(***************************************************************************)
(* Reuse of an entry under other fields.                                   *)
(***************************************************************************)

\* What a simulated ASID says of a TLB.
LEMMA ActiveFields ==
  ASSUME csr \in SimASID, NEW tlb \in TLBId
  PROVE  /\ getSimASID(tlb) \in SimOf(tlb)
         /\ \A f \in fieldsOf(tlb) : getSimASID(tlb)[f] = csr[f]
         /\ \A e : e.tlb = tlb /\ e.simASID = getSimASID(tlb)
                   => /\ getEntryVMID(e) = getActiveVMID(csr, tlb)
                      /\ getEntryASID(e) = getActiveASID(csr, tlb)
<1>1. getSimASID(tlb) \in SimOf(tlb) /\ \A f \in fieldsOf(tlb) : getSimASID(tlb)[f] = csr[f]
  BY DEF getSimASID, SimOf
<1>2. /\ tlb = "HS" => "ASID_HS" \in fieldsOf(tlb)
      /\ tlb # "HS" => "ASID_VS" \in fieldsOf(tlb) /\ "VMID" \in fieldsOf(tlb)
  BY DEF fieldsOf
<1>3. ASSUME NEW e, e.tlb = tlb, e.simASID = getSimASID(tlb)
      PROVE  /\ getEntryVMID(e) = getActiveVMID(csr, tlb)
             /\ getEntryASID(e) = getActiveASID(csr, tlb)
  BY <1>1, <1>2, <1>3 DEF TLBId, getEntryVMID, getEntryASID, getActiveVMID, getActiveASID
<1> QED
  BY <1>1, <1>3

\* Entry e serves an access under the current identifiers.
Current(e) ==
  /\ getEntryVMID(e) = getActiveVMID(csr, e.tlb)
  /\ e.G \/ getEntryASID(e) = getActiveASID(csr, e.tlb)

\* Modes whose mappings of e depend on a field that is another one now.
changedFor(e) ==
  {mode \in modesOf(e.tlb) : \E f \in getEntryASIDMask(e, mode) : e.simASID[f] # csr[f]}

\* Entry e once it is found under the present fields.
renewed(e) == [e EXCEPT !.mapped = @ \ changedFor(e), !.simASID = getSimASID(e.tlb)]

\* An entry that is reused is the same translation.
LEMMA RenewedEntry ==
  ASSUME csr \in SimASID, NEW e, EntryOK(e), Current(e)
  PROVE  /\ EntryOK(renewed(e)) /\ Current(renewed(e))
         /\ translationOf(renewed(e)) = translationOf(e)
         /\ renewed(e).mapped = e.mapped \ changedFor(e)
         /\ renewed(e).simASID = getSimASID(e.tlb)
         /\ renewed(e).tlb = e.tlb /\ renewed(e).low = e.low /\ renewed(e).size = e.size
         /\ renewed(e).ppn = e.ppn /\ renewed(e).priv = e.priv
         /\ renewed(e).U = e.U /\ renewed(e).G = e.G /\ renewed(e).D = e.D
         /\ getEntryVMID(renewed(e)) = getEntryVMID(e)
         /\ ~e.G => getEntryASID(renewed(e)) = getEntryASID(e)
<1> DEFINE n == renewed(e)
<1>1. e \in EntryRec /\ e.tlb \in TLBId
  BY DEF EntryOK, EntryRec
<1>2. getSimASID(e.tlb) \in SimOf(e.tlb)
  BY <1>1, ActiveFields
<1>3. /\ n \in EntryRec /\ n.mapped = e.mapped \ changedFor(e)
      /\ n.simASID = getSimASID(e.tlb) /\ n.tlb = e.tlb /\ n.low = e.low /\ n.size = e.size
      /\ n.ppn = e.ppn /\ n.priv = e.priv /\ n.U = e.U /\ n.G = e.G /\ n.D = e.D
  BY <1>1, <1>2 DEF EntryRec, renewed
<1> HIDE DEF n
<1>4. /\ getEntryVMID(n) = getActiveVMID(csr, e.tlb)
      /\ getEntryASID(n) = getActiveASID(csr, e.tlb)
  BY <1>1, <1>3, ActiveFields
<1>5. getEntryVMID(n) = getEntryVMID(e) /\ (~e.G => getEntryASID(n) = getEntryASID(e))
  BY <1>4 DEF Current
<1>6. translationOf(n) = translationOf(e)
  BY <1>3, <1>5, <1>1 DEF translationOf, EntryRec
<1>7. EntryOK(n)
  BY <1>2, <1>3 DEF EntryOK, pagesOf
<1>8. Current(n)
  BY <1>3, <1>4 DEF Current
<1> QED
  BY <1>3, <1>5, <1>6, <1>7, <1>8 DEF n

\* A mapping of an entry that is reused either goes or does not tell the
\* fields apart.
LEMMA RenewKeeps ==
  ASSUME csr \in SimASID, NEW s, IsState(s), EntriesOK(s), MapsOK(s), CacheOK(s),
         NEW e \in s.entries, Current(e)
  PROVE  LET r == unmapTLBEntryNewASID(s, e)
         IN  /\ r.entry = renewed(e)
             /\ IsState(r.st) /\ EntriesOK(r.st) /\ MapsOK(r.st) /\ CacheOK(r.st)
             /\ r.st.tables = s.tables /\ r.st.cache = s.cache /\ r.st.size = s.size
             /\ r.st.entries = (s.entries \ {e}) \union {renewed(e)}
<1> DEFINE r == unmapTLBEntryNewASID(s, e)
           n == renewed(e)
           t == r.st
<1>1. /\ r.entry = n /\ IsState(t)
      /\ t.tables = s.tables /\ t.cache = s.cache /\ t.size = s.size
      /\ t.entries = (s.entries \ {e}) \union {n}
      /\ t.maps = s.maps \ deleteTLBEntryMappingsMode(s.maps, e, changedFor(e))
  BY Zenon DEF unmapTLBEntryNewASID, renewed, changedFor, IsState
<1>2. /\ EntryOK(n) /\ n.mapped = e.mapped \ changedFor(e) /\ n.simASID = getSimASID(e.tlb)
      /\ n.tlb = e.tlb /\ n.low = e.low /\ n.size = e.size /\ n.ppn = e.ppn
      /\ n.priv = e.priv /\ n.U = e.U /\ n.G = e.G /\ n.D = e.D
      /\ getEntryVMID(n) = getEntryVMID(e) /\ (~e.G => getEntryASID(n) = getEntryASID(e))
  BY RenewedEntry DEF EntriesOK
<1> HIDE DEF r, n
<1>3. EntriesOK(t)
  BY <1>1, <1>2 DEF EntriesOK
<1>4. CacheOK(t)
  <2> SUFFICES ASSUME NEW x \in t.entries, ~x.G, t.size[x.tlb] > 0
               PROVE  <<getEntryVMID(x), getEntryASID(x)>> \in ToSet(t.cache[x.tlb])
    BY <1>1 DEF CacheOK
  <2>1. CASE x = n
    BY <1>1, <1>2, <2>1 DEF CacheOK
  <2>2. CASE x # n
    BY <1>1, <2>2 DEF CacheOK
  <2> QED
    BY <2>1, <2>2
<1>5. MapsOK(t)
  <2> SUFFICES ASSUME NEW m \in t.maps
               PROVE  Served(t.entries, m)
    BY <1>1 DEF MapsOK
  <2> DEFINE sub(x) == IF x = e THEN n ELSE x
  <2>1. m \in s.maps /\ m \notin deleteTLBEntryMappingsMode(s.maps, e, changedFor(e))
    BY <1>1
  <2>2. PICK e1 \in s.entries :
          /\ FirstStage(e1, m)
          /\ IF e1.tlb = "VS1" /\ m.asid.S2 THEN \E e2 \in s.entries : SecondStage(e1, e2, m)
                                            ELSE m.pa = translate(e1, m.va)
    BY <2>1 DEF MapsOK, Served
  <2>3. FirstStage(sub(e1), m)
    <3>1. SUFFICES ASSUME e1 = e
                   PROVE  FirstStage(n, m)
      BY <2>2
    <3>2. m.mode \notin changedFor(e)
      <4>1. m \in aliases(s.maps, e, m.mode)
        BY <2>1, <2>2, <3>1 DEF aliases, FirstStage
      <4> QED
        BY <2>1, <2>2, <3>1, <4>1 DEF deleteTLBEntryMappingsMode, FirstStage
    <3>3. m.mode \in n.mapped /\ m.mode \in modesOf(e.tlb)
      BY <1>2, <2>2, <3>1, <3>2 DEF FirstStage, EntriesOK, EntryOK
    <3>4. getEntryASIDMask(n, m.mode) = getEntryASIDMask(e, m.mode)
      BY <1>2 DEF getEntryASIDMask
    <3>5. \A f \in getEntryASIDMask(e, m.mode) : e.simASID[f] = csr[f] /\ n.simASID[f] = csr[f]
      <4>1. e.tlb \in TLBId /\ getEntryASIDMask(e, m.mode) \subseteq fieldsOf(e.tlb)
        BY <2>2, <3>1, EntryFields DEF EntriesOK, EntryOK, EntryRec, FirstStage
      <4> QED
        BY <1>2, <3>2, <3>3, <4>1, ActiveFields DEF changedFor
    <3>6. Grants(n, m)
      BY <1>2, <2>2, <3>1 DEF FirstStage, Grants, getEntryPriv
    <3> QED
      BY <1>2, <2>2, <3>1, <3>3, <3>4, <3>5, <3>6 DEF FirstStage, pagesOf
  <2>4. sub(e1) \in t.entries /\ sub(e1).tlb = e1.tlb
        /\ translate(sub(e1), m.va) = translate(e1, m.va)
        /\ getEntryVMID(sub(e1)) = getEntryVMID(e1)
    BY <1>1, <1>2 DEF translate
  <2>5. ASSUME NEW e2 \in s.entries, SecondStage(e1, e2, m)
        PROVE  sub(e2) \in t.entries /\ SecondStage(sub(e1), sub(e2), m)
    <3>1. sub(e2) \in t.entries
      BY <1>1
    <3>2. /\ sub(e2).tlb = e2.tlb /\ pagesOf(sub(e2)) = pagesOf(e2)
          /\ translate(sub(e2), translate(e1, m.va)) = translate(e2, translate(e1, m.va))
          /\ getEntryVMID(sub(e2)) = getEntryVMID(e2)
      BY <1>2 DEF translate, pagesOf
    <3>3. Grants(sub(e2), m)
      BY <1>2, <2>5 DEF SecondStage, Grants, getEntryPriv
    <3> QED
      BY <2>4, <2>5, <3>1, <3>2, <3>3 DEF SecondStage
  <2> HIDE DEF sub
  <2>6. CASE e1.tlb = "VS1" /\ m.asid.S2
    BY <2>2, <2>3, <2>4, <2>5, <2>6 DEF Served
  <2>7. CASE ~(e1.tlb = "VS1" /\ m.asid.S2)
    BY <2>2, <2>3, <2>4, <2>7 DEF Served
  <2> QED
    BY <2>6, <2>7
<1> QED
  BY <1>1, <1>3, <1>4, <1>5, ZenonT(30) DEF r, n

-----------------------------------------------------------------------------
(***************************************************************************)
(* Identifiers in use.                                                     *)
(***************************************************************************)

\* Identifier of an entry in ASID_cache.
idOf(e) == <<getEntryVMID(e), getEntryASID(e)>>

\* The cache keeps its limit, and the new identifier is in it.
LEMMA InsertMRU ==
  ASSUME NEW S, NEW list \in Seq(S), NEW size \in Nat \ {0}, Len(list) <= size, NEW x \in S
  PROVE  /\ insertMRU(list, size, x) \in Seq(S)
         /\ Len(insertMRU(list, size, x)) <= size
         /\ x \in ToSet(insertMRU(list, size, x))
<1> DEFINE at == {i \in DOMAIN list : list[i] = x}
           i == CHOOSE j \in at : TRUE
           n == IF Len(list) < size THEN Len(list) ELSE size - 1
           rest == IF at # {} THEN RemoveAt(list, i) ELSE SubSeq(list, 1, n)
<1>1. insertMRU(list, size, x) = <<x>> \o rest
  BY DEF insertMRU
<1>2. rest \in Seq(S) /\ Len(rest) <= size - 1
  <2>1. CASE at # {}
    <3>1. i \in 1..Len(list) /\ Len(list) \in Nat
      BY <2>1, LenProperties
    <3> HIDE DEF i
    <3>2. /\ SubSeq(list, 1, i - 1) \in Seq(S) /\ Len(SubSeq(list, 1, i - 1)) = i - 1
          /\ SubSeq(list, i + 1, Len(list)) \in Seq(S)
          /\ Len(SubSeq(list, i + 1, Len(list))) = Len(list) - i
      BY <3>1, SubSeqProperties
    <3>3. rest = SubSeq(list, 1, i - 1) \o SubSeq(list, i + 1, Len(list))
      BY <2>1 DEF RemoveAt
    <3> HIDE DEF rest
    <3>4. rest \in Seq(S) /\ Len(rest) = (i - 1) + (Len(list) - i)
      BY <3>2, <3>3, ConcatProperties
    <3> QED
      BY <3>1, <3>4
  <2>2. CASE at = {}
    <3>1. n \in 0..Len(list) /\ n <= size - 1 /\ Len(list) \in Nat
      BY LenProperties
    <3>2. rest = SubSeq(list, 1, n)
      BY <2>2
    <3> HIDE DEF n, rest
    <3> QED
      BY <3>1, <3>2, SubSeqProperties
  <2> QED
    BY <2>1, <2>2
<1> HIDE DEF rest
<1>3. <<x>> \in Seq(S) /\ Len(<<x>>) = 1 /\ <<x>>[1] = x
  OBVIOUS
<1>4. /\ <<x>> \o rest \in Seq(S) /\ Len(<<x>> \o rest) = 1 + Len(rest)
      /\ (<<x>> \o rest)[1] = x
  BY <1>2, <1>3, ConcatProperties, LenProperties
<1>5. 1 \in DOMAIN (<<x>> \o rest)
  BY <1>2, <1>4, LenProperties
<1> QED
  BY <1>1, <1>2, <1>4, <1>5, LenProperties DEF ToSet

\* What promoting the identifiers of e leaves.
LEMMA PromoteKeeps ==
  ASSUME NEW s, IsState(s), EntriesOK(s), MapsOK(s), CacheOK(s),
         NEW e, EntryOK(e), NEW t \in promoteASIDMRU(s, e)
  PROVE  /\ IsState(t) /\ EntriesOK(t) /\ MapsOK(t) /\ CacheOK(t)
         /\ t.tables = s.tables
         /\ From(t, s)
         /\ Stays(t, s, {x \in s.entries : x.tlb = e.tlb})
         /\ t.size[e.tlb] > 0 => idOf(e) \in ToSet(t.cache[e.tlb])
<1> DEFINE tlb == e.tlb
           next == insertMRU(s.cache[tlb], s.size[tlb], idOf(e))
           eject == ToSet(s.cache[tlb]) \ ToSet(next)
           gone == {x \in s.entries : x.tlb = tlb /\ idOf(x) \in eject}
           d == deleteTLBEntries(s, gone)
           s1 == [d EXCEPT !.cache[tlb] = next]
<1>1. tlb \in TLBId /\ idOf(e) \in Nat \X Nat
  BY EntryFields DEF EntryOK, EntryRec, idOf
<1>2. CASE s.size[tlb] = 0
  <2>1. t = s
    BY <1>2 DEF promoteASIDMRU
  <2> QED
    BY <1>2, <2>1 DEF From, Stays
<1>3. CASE s.size[tlb] # 0
  <2>1. /\ IsState(d) /\ EntriesOK(d) /\ MapsOK(d)
        /\ d.tables = s.tables /\ d.cache = s.cache /\ d.size = s.size
        /\ \A x \in d.entries : \E x0 \in s.entries \ gone : x = x0 \/ x = unmapped(x0)
        /\ Stays(d, s, gone)
    BY DeleteKeeps
  <2>2. t = s1 \/ \E n \in monitorASIDCacheEjectRate(s.size[tlb]) : t = [s1 EXCEPT !.size[tlb] = n]
    BY <1>3, Zenon DEF promoteASIDMRU, idOf
  <2>3. /\ next \in Seq(Nat \X Nat) /\ Len(next) <= s.size[tlb] /\ idOf(e) \in ToSet(next)
        /\ s.size[tlb] \in Nat \ {0} /\ s.cache[tlb] \in Seq(Nat \X Nat)
    BY <1>1, <1>3, InsertMRU DEF CacheOK
  <2>a. \A x \in s.entries \ gone : x.tlb = tlb => idOf(x) \notin eject
    OBVIOUS
  <2> HIDE DEF next, d, gone
  <2>4. /\ IsState(s1) /\ s1.tables = s.tables /\ s1.entries = d.entries /\ s1.maps = d.maps
        /\ s1.size = s.size /\ s1.cache = [s.cache EXCEPT ![tlb] = next]
    BY <2>1 DEF IsState
  <2> HIDE DEF s1
  <2>5. PICK n \in Nat : /\ n >= s.size[tlb]
                         /\ t.size = [s.size EXCEPT ![tlb] = n]
                         /\ IsState(t) /\ t.tables = s.tables /\ t.entries = d.entries
                         /\ t.maps = d.maps /\ t.cache = [s.cache EXCEPT ![tlb] = next]
    <3>1. CASE t = s1
      <4>1. s.size = [s.size EXCEPT ![tlb] = s.size[tlb]]
        BY DEF CacheOK
      <4> s.size[tlb] \in Nat
        BY <2>3
      <4> WITNESS s.size[tlb] \in Nat
      <4> QED
        BY <2>3, <2>4, <3>1, <4>1
    <3>2. ASSUME NEW n \in monitorASIDCacheEjectRate(s.size[tlb]), t = [s1 EXCEPT !.size[tlb] = n]
          PROVE  n \in Nat /\ n >= s.size[tlb] /\ t.size = [s.size EXCEPT ![tlb] = n]
                 /\ IsState(t) /\ t.tables = s.tables /\ t.entries = d.entries
                 /\ t.maps = d.maps /\ t.cache = [s.cache EXCEPT ![tlb] = next]
      <4>1. n \in Nat /\ n >= s.size[tlb]
        BY <2>3, <3>2 DEF monitorASIDCacheEjectRate
      <4> QED
        BY <2>4, <3>2, <4>1 DEF IsState
    <3> QED
      BY <2>2, <3>1, <3>2
  <2>6. EntriesOK(t) /\ MapsOK(t)
    BY <2>1, <2>5 DEF EntriesOK, MapsOK
  <2>7. From(t, s)
    BY <2>1, <2>5 DEF From
  <2>8. Stays(t, s, {x \in s.entries : x.tlb = tlb})
    <3>1. \A x \in gone : x.tlb = tlb
      BY DEF gone
    <3> QED
      BY <2>1, <2>5, <3>1 DEF Stays
  <2>9. /\ t.cache \in [TLBId -> Seq(Nat \X Nat)] /\ t.size \in [TLBId -> Nat]
        /\ t.cache[tlb] = next /\ t.size[tlb] = n
        /\ \A k \in TLBId : k # tlb => t.cache[k] = s.cache[k] /\ t.size[k] = s.size[k]
    BY <1>1, <2>3, <2>5 DEF CacheOK
  <2>10. \A k \in TLBId : Len(t.cache[k]) <= t.size[k]
    <3> SUFFICES ASSUME NEW k \in TLBId PROVE Len(t.cache[k]) <= t.size[k]
      OBVIOUS
    <3>1. CASE k = tlb
      BY <2>3, <2>5, <2>9, <3>1, LenProperties
    <3> QED
      BY <2>9, <3>1 DEF CacheOK
  <2>11. ASSUME NEW x \in t.entries, ~x.G, t.size[x.tlb] > 0
         PROVE  idOf(x) \in ToSet(t.cache[x.tlb])
    <3>1. PICK x0 \in s.entries \ gone : x = x0 \/ x = unmapped(x0)
      BY <2>1, <2>5
    <3>2. x.tlb = x0.tlb /\ x.G = x0.G /\ idOf(x) = idOf(x0) /\ x.tlb \in TLBId
      BY <3>1, UnmappedEntry DEF EntriesOK, EntryOK, EntryRec, idOf
    <3>3. CASE x.tlb = tlb
      <4>1. s.size[tlb] > 0
        BY <2>3
      <4>2. idOf(x0) \in ToSet(s.cache[tlb])
        BY <2>11, <3>1, <3>2, <3>3, <4>1 DEF CacheOK, idOf
      <4>3. idOf(x0) \in ToSet(next)
        BY <2>a, <3>1, <3>2, <3>3, <4>2
      <4> QED
        BY <2>9, <3>2, <3>3, <4>3
    <3>4. CASE x.tlb # tlb
      BY <2>9, <2>11, <3>1, <3>2, <3>4 DEF CacheOK, idOf
    <3> QED
      BY <3>3, <3>4
  <2>12. CacheOK(t)
    BY <2>9, <2>10, <2>11 DEF CacheOK, idOf
  <2> QED
    BY <2>3, <2>5, <2>6, <2>7, <2>8, <2>9, <2>12
<1> QED
  BY <1>2, <1>3

-----------------------------------------------------------------------------
(***************************************************************************)
(* Page tables.                                                            *)
(***************************************************************************)

\* Marking a PTE changes nothing of where it leads.
LEMMA MarkedPTE ==
  ASSUME NEW pte \in PTE, NEW need
  PROVE  LET m == markPTE(config, pte, need)
         IN  /\ m \in PTE /\ m.V = pte.V /\ m.priv = pte.priv /\ m.U = pte.U /\ m.G = pte.G
             /\ m.size = pte.size /\ m.ppn = pte.ppn
             /\ \A k : wholeBlocks(config, k, m) <=> wholeBlocks(config, k, pte)
<1> DEFINE m == markPTE(config, pte, need)
<1>1. /\ m \in PTE /\ m.V = pte.V /\ m.priv = pte.priv /\ m.U = pte.U /\ m.G = pte.G
      /\ m.size = pte.size /\ m.ppn = pte.ppn
  BY DEF markPTE, PTE
<1> HIDE DEF m
<1>2. \A k : wholeBlocks(config, k, m) <=> wholeBlocks(config, k, pte)
  BY <1>1 DEF wholeBlocks
<1> QED
  BY <1>1, <1>2 DEF m

\* A table keeps its type when a PTE is written.
LEMMA TableWritten ==
  ASSUME NEW k, NEW table, TableOK(k, table), NEW va \in config.pages,
         NEW pte \in PTE, pte.V => wholeBlocks(config, k, pte)
  PROVE  TableOK(k, writePTE(table, va, pte))
<1> DEFINE w == writePTE(table, va, pte)
<1>1. /\ DOMAIN table = config.pages /\ w = [p \in config.pages |-> w[p]]
      /\ \A p \in config.pages : w[p] \in {pte, InvalidPTE, table[p]}
  BY DEF writePTE, TableOK
<1>2. InvalidPTE \in PTE /\ ~InvalidPTE.V
  BY DEF InvalidPTE, PTE
<1>3. \A p \in config.pages : table[p] \in PTE
  BY DEF TableOK
<1> HIDE DEF w
<1>4. w \in [config.pages -> PTE]
  BY <1>1, <1>2, <1>3
<1>5. ASSUME NEW p \in config.pages, w[p].V
      PROVE  wholeBlocks(config, k, w[p])
  BY <1>1, <1>2, <1>5 DEF TableOK
<1> QED
  BY <1>4, <1>5 DEF TableOK, w

-----------------------------------------------------------------------------
(***************************************************************************)
(* Stages of a miss.                                                       *)
(***************************************************************************)

\* What one stage may do with the translations of s, as Mmu has it: a walk or
\* the use of an entry.
walkOf(s, tlb, mode, va, need) ==
  LET pte == s.tables[activeTable(csr, tlb)][va]
  IN  [t |-> Abstract!translation(tlb, va, markPTE(config, pte, need)),
       walked |-> TRUE, ok |-> ~walkFaults(config, csr, tlb, mode, pte, need)]

\* The use of entry e.
useOf(e, mode, need) ==
  [t |-> translationOf(e), walked |-> FALSE,
   ok |-> Abstract!permits(translationOf(e), mode, need)]

\* All outcomes of a stage.
StageOf(s, tlb, mode, va, need) ==
  {useOf(e, mode, need) : e \in findTLBEntries(s, tlb, va)}
    \union {walkOf(s, tlb, mode, va, need)}

\* Translations an abstract hart keeps for the entries of s.
keptIn(s) == {translationOf(e) : e \in s.entries}

\* First-stage entries of guests are still there.
GuestStays(t, s) ==
  \A e \in s.entries : e.tlb = "VS1" => e \in t.entries \/ unmapped(e) \in t.entries

\* Entry e, found for page va, grants priv.
GrantsNow(e, tlb, mode, va, priv) ==
  /\ e.tlb = tlb /\ Current(e) /\ e.simASID = getSimASID(tlb) /\ va \in pagesOf(e)
  /\ priv \subseteq getEntryPriv(config, csr, tlb, mode, e)
  /\ "W" \in priv => e.D

\* Outcome r of a stage is outcome x of Mmu.
ImplementsAs(s, tlb, mode, va, need, r, x) ==
  /\ r.st.tables = Abstract!marked(s.tables, tlb, va, need, x)
  /\ keptIn(r.st) \subseteq keptIn(s) \union Abstract!gained(x)
  /\ x.t.tlb = tlb
  /\ IF r.found = {} THEN ~x.ok
     ELSE /\ x.ok
          /\ \E e \in r.st.entries : /\ r.found = {e} /\ x.t = translationOf(e)
                                     /\ GrantsNow(e, tlb, mode, va, r.priv)

\* First-stage entries of guests stay over two changes.
LEMMA GuestStaysTrans ==
  ASSUME NEW s, EntriesOK(s), NEW t, NEW u, GuestStays(t, s), GuestStays(u, t)
  PROVE  GuestStays(u, s)
<1> SUFFICES ASSUME NEW e \in s.entries, e.tlb = "VS1"
             PROVE  e \in u.entries \/ unmapped(e) \in u.entries
  BY DEF GuestStays
<1>1. unmapped(unmapped(e)) = unmapped(e) /\ unmapped(e).tlb = e.tlb
  <2>1. e \in EntryRec
    BY DEF EntriesOK, EntryOK
  <2> QED
    BY <2>1 DEF EntryRec, unmapped
<1> QED
  BY <1>1 DEF GuestStays

\* An entry that is found.
LEMMA FoundKeeps ==
  ASSUME csr \in SimASID, NEW s, StateOK(s), NEW e \in s.entries, Current(e),
         NEW mode, NEW va \in pagesOf(e)
  PROVE  LET r == Found(s, e.tlb, mode, e)
         IN  /\ StateOK(r.st) /\ r.st.tables = s.tables
             /\ keptIn(r.st) = keptIn(s)
             /\ e.tlb = "VS2" => GuestStays(r.st, s)
             /\ renewed(e) \in r.st.entries /\ r.found = {renewed(e)}
             /\ translationOf(renewed(e)) = translationOf(e)
             /\ GrantsNow(renewed(e), e.tlb, mode, va, r.priv)
<1> DEFINE n == renewed(e)
           q == unmapTLBEntryNewASID(s, e)
           r == Found(s, e.tlb, mode, e)
<1>1. EntryOK(e)
  BY DEF StateOK, EntriesOK
<1>2. /\ EntryOK(n) /\ Current(n) /\ translationOf(n) = translationOf(e)
      /\ n.simASID = getSimASID(e.tlb) /\ n.tlb = e.tlb /\ n.low = e.low /\ n.size = e.size
      /\ n.priv = e.priv /\ n.U = e.U /\ n.D = e.D
  BY <1>1, RenewedEntry
<1>3. /\ q.entry = n
      /\ IsState(q.st) /\ EntriesOK(q.st) /\ MapsOK(q.st) /\ CacheOK(q.st)
      /\ q.st.tables = s.tables
      /\ q.st.entries = (s.entries \ {e}) \union {n}
  BY RenewKeeps DEF StateOK
<1> HIDE DEF n
<1>4. /\ r.st = q.st /\ r.found = {n}
      /\ r.priv = (IF e.D THEN getEntryPriv(config, csr, e.tlb, mode, e)
                          ELSE getEntryPriv(config, csr, e.tlb, mode, e) \ {"W"})
  BY <1>3 DEF Found
<1>5. getEntryPriv(config, csr, e.tlb, mode, n) = getEntryPriv(config, csr, e.tlb, mode, e)
  BY <1>2 DEF getEntryPriv
<1>6. GrantsNow(n, e.tlb, mode, va, r.priv)
  <2> HIDE DEF r
  <2> QED
    BY <1>2, <1>4, <1>5 DEF GrantsNow, pagesOf
<1> HIDE DEF q, r
<1>7. StateOK(r.st)
  BY <1>3, <1>4 DEF StateOK, TablesOK
<1>8. keptIn(r.st) = keptIn(s)
  BY <1>2, <1>3, <1>4 DEF keptIn
<1>9. e.tlb = "VS2" => GuestStays(r.st, s)
  BY <1>3, <1>4 DEF GuestStays
<1> QED
  BY <1>2, <1>3, <1>4, <1>6, <1>7, <1>8, <1>9 DEF r, n

-----------------------------------------------------------------------------
\* The operators of Paging are the same in Mmu.
LEMMA SamePaging ==
  /\ \A c, tlb : /\ Abstract!getActiveASID(c, tlb) = getActiveASID(c, tlb)
                 /\ Abstract!getActiveVMID(c, tlb) = getActiveVMID(c, tlb)
                 /\ Abstract!activeTable(c, tlb) = activeTable(c, tlb)
                 /\ Abstract!doStage2(c, tlb) <=> doStage2(c, tlb)
  /\ \A c, mode : Abstract!getCurrentTLBId(c, mode) = getCurrentTLBId(c, mode)
  /\ \A va, size : Abstract!blockOf(va, size) = blockOf(va, size)
  /\ \A t : Abstract!pagesOf(t) = pagesOf(t)
  /\ \A c, pte, need : Abstract!markPTE(c, pte, need) = markPTE(c, pte, need)
  /\ \A table, va, pte : Abstract!writePTE(table, va, pte) = writePTE(table, va, pte)
<1>1. \A c, tlb : /\ Abstract!getActiveASID(c, tlb) = getActiveASID(c, tlb)
                  /\ Abstract!getActiveVMID(c, tlb) = getActiveVMID(c, tlb)
                  /\ Abstract!doStage2(c, tlb) <=> doStage2(c, tlb)
  BY DEF Abstract!getActiveASID, getActiveASID, Abstract!getActiveVMID, getActiveVMID,
         Abstract!doStage2, doStage2
<1>2. \A c, tlb : Abstract!activeTable(c, tlb) = activeTable(c, tlb)
  BY <1>1 DEF Abstract!activeTable, activeTable
<1>3. \A c, mode : Abstract!getCurrentTLBId(c, mode) = getCurrentTLBId(c, mode)
  BY DEF Abstract!getCurrentTLBId, getCurrentTLBId, Abstract!modeIsVirtual, modeIsVirtual
<1>4. \A va, size : Abstract!blockOf(va, size) = blockOf(va, size)
  BY DEF Abstract!blockOf, blockOf
<1>5. \A t : Abstract!pagesOf(t) = pagesOf(t)
  BY DEF Abstract!pagesOf, pagesOf
<1>6. \A c, pte, need : Abstract!markPTE(c, pte, need) = markPTE(c, pte, need)
  BY DEF Abstract!markPTE, markPTE
<1>7. \A table, va, pte : Abstract!writePTE(table, va, pte) = writePTE(table, va, pte)
  BY <1>4 DEF Abstract!writePTE, writePTE, Abstract!InvalidPTE, InvalidPTE
<1> QED
  BY <1>1, <1>2, <1>3, <1>4, <1>5, <1>6, <1>7

\* Privileges and page faults are the same in Mmu.
LEMMA SameChecks ==
  ASSUME NEW c, NEW tlb, NEW mode, NEW t
  PROVE  /\ Abstract!getEntryPriv(config, c, tlb, mode, t) = getEntryPriv(config, c, tlb, mode, t)
         /\ \A need : Abstract!walkFaults(config, c, tlb, mode, t, need)
                        <=> walkFaults(config, c, tlb, mode, t, need)
<1>1. Abstract!getEntryPriv(config, c, tlb, mode, t) = getEntryPriv(config, c, tlb, mode, t)
  BY DEF Abstract!getEntryPriv, getEntryPriv
<1>2. ASSUME NEW need
      PROVE  Abstract!walkFaults(config, c, tlb, mode, t, need)
               <=> walkFaults(config, c, tlb, mode, t, need)
  BY <1>1, SamePaging DEF Abstract!walkFaults, walkFaults
<1> QED
  BY <1>1, <1>2

\* What Mmu keeps of an entry permits what the entry grants.
LEMMA PermitsIff ==
  ASSUME NEW e, NEW mode, NEW need
  PROVE  Abstract!permits(translationOf(e), mode, need)
           <=> /\ need \in getEntryPriv(config, csr, e.tlb, mode, e)
               /\ need = "W" => e.D
<1> DEFINE t == translationOf(e)
<1>1. t.tlb = e.tlb /\ t.priv = e.priv /\ t.U = e.U /\ t.D = e.D
  BY DEF translationOf
<1> HIDE DEF t
<1>2. getEntryPriv(config, csr, e.tlb, mode, t) = getEntryPriv(config, csr, e.tlb, mode, e)
  BY <1>1 DEF getEntryPriv
<1>3. Abstract!getEntryPriv(config, csr, e.tlb, mode, t) = getEntryPriv(config, csr, e.tlb, mode, t)
  BY SameChecks
<1>4. Abstract!permits(t, mode, need) <=> /\ need \in getEntryPriv(config, csr, e.tlb, mode, e)
                                          /\ need = "W" => e.D
  BY <1>1, <1>2, <1>3 DEF Abstract!permits
<1> QED
  BY <1>4 DEF t

\* The entry a walk allocates.
newEntry(tlb, va, pte) ==
  [tlb |-> tlb, low |-> blockOf(va, pte.size), size |-> pte.size, ppn |-> pte.ppn,
   priv |-> pte.priv, U |-> pte.U, G |-> pte.G \/ tlb = "VS2", D |-> pte.D,
   simASID |-> getSimASID(tlb), mapped |-> {}]

\* It is well formed and is the translation of the PTE.
LEMMA NewEntry ==
  ASSUME csr \in SimASID, NEW tlb \in TLBId, NEW va \in config.pages, config.pages \subseteq Nat,
         NEW pte \in PTE, wholeBlocks(config, activeTable(csr, tlb), pte)
  PROVE  LET e == newEntry(tlb, va, pte)
         IN  /\ EntryOK(e) /\ Current(e) /\ e.tlb = tlb /\ e.mapped = {} /\ va \in pagesOf(e)
             /\ translationOf(e) = Abstract!translation(tlb, va, pte)
<1> DEFINE e == newEntry(tlb, va, pte)
<1>1. /\ e.tlb = tlb /\ e.low = blockOf(va, pte.size) /\ e.size = pte.size /\ e.ppn = pte.ppn
      /\ e.priv = pte.priv /\ e.U = pte.U /\ e.G = (pte.G \/ tlb = "VS2") /\ e.D = pte.D
      /\ e.simASID = getSimASID(tlb) /\ e.mapped = {}
  BY DEF newEntry
<1>2. /\ getSimASID(tlb) \in SimOf(tlb)
      /\ getEntryVMID(e) = getActiveVMID(csr, tlb) /\ getEntryASID(e) = getActiveASID(csr, tlb)
  BY <1>1, ActiveFields
<1>3. blockOf(va, pte.size) \in Nat /\ va \in blockOf(va, pte.size)..(blockOf(va, pte.size) + pte.size - 1)
  BY InBlock DEF PTE
<1>4. e \in EntryRec
  BY <1>2, <1>3 DEF newEntry, EntryRec, PTE
<1> HIDE DEF e
<1>5. pagesOf(e) \subseteq config.pages /\ va \in pagesOf(e)
  BY <1>1, <1>3 DEF wholeBlocks, pagesOf
<1>6. tlb = "VS1" => e.ppn..(e.ppn + e.size - 1) \subseteq config.pages
  BY <1>1 DEF wholeBlocks, activeTable
<1>7. EntryOK(e)
  BY <1>1, <1>2, <1>4, <1>5, <1>6 DEF EntryOK
<1>8. Current(e)
  BY <1>1, <1>2 DEF Current
<1>9. translationOf(e) = Abstract!translation(tlb, va, pte)
  BY <1>1, <1>2, SamePaging DEF translationOf, Abstract!translation
<1> QED
  BY <1>1, <1>5, <1>7, <1>8, <1>9 DEF e

\* A walk that fails.
LEMMA FaultImplements ==
  ASSUME NEW s, NEW tlb, NEW mode, NEW va, NEW need, NEW x, ~x.ok, x.t.tlb = tlb
  PROVE  ImplementsAs(s, tlb, mode, va, need, Fault(s), x)
<1>1. Fault(s).st = s /\ Fault(s).found = {}
  BY DEF Fault
<1>2. Abstract!marked(s.tables, tlb, va, need, x) = s.tables
  BY DEF Abstract!marked
<1> QED
  BY <1>1, <1>2 DEF ImplementsAs

\* A walk, and the entry allocated for it.
LEMMA WalkKeeps ==
  ASSUME csr \in SimASID, config.pages \subseteq Nat, NEW s, StateOK(s),
         NEW tlb \in TLBId, activeTable(csr, tlb) \in DOMAIN s.tables,
         NEW mode, NEW va \in config.pages, NEW need, NEW r \in walk(s, tlb, mode, va, need)
  PROVE  /\ StateOK(r.st)
         /\ tlb = "VS2" => GuestStays(r.st, s)
         /\ ImplementsAs(s, tlb, mode, va, need, r, walkOf(s, tlb, mode, va, need))
<1> DEFINE k == activeTable(csr, tlb)
           old == s.tables[k][va]
           pte == markPTE(config, old, need)
           e == newEntry(tlb, va, pte)
           s1 == IF pte = old THEN s ELSE [s EXCEPT !.tables[k] = writePTE(@, va, pte)]
           x == walkOf(s, tlb, mode, va, need)
           fault == walkFaults(config, csr, tlb, mode, old, need)
<1>1. /\ x.walked = TRUE /\ x.t = Abstract!translation(tlb, va, pte) /\ x.t.tlb = tlb
      /\ x.ok <=> ~fault
  BY DEF walkOf, Abstract!translation
<1>2. CASE fault
  <2>1. r = Fault(s)
    BY <1>2 DEF walk
  <2>2. r.st = s
    BY <2>1 DEF Fault
  <2>3. GuestStays(s, s)
    BY DEF GuestStays
  <2> QED
    BY <1>1, <1>2, <2>1, <2>2, <2>3, FaultImplements
<1>3. CASE ~fault
  <2>1. PICK s2 \in promoteASIDMRU(s1, e) : r = Found([s2 EXCEPT !.entries = @ \union {e}], tlb, mode, e)
    BY <1>3, ZenonT(60) DEF walk, newEntry
  <2>2. TableOK(k, s.tables[k]) /\ old \in PTE /\ old.V /\ wholeBlocks(config, k, old)
    BY <1>3 DEF StateOK, TablesOK, TableOK, walkFaults
  <2>3. /\ pte \in PTE /\ pte.V /\ wholeBlocks(config, k, pte)
    BY <2>2, MarkedPTE
  <2>4. /\ EntryOK(e) /\ Current(e) /\ e.tlb = tlb /\ e.mapped = {} /\ va \in pagesOf(e)
        /\ translationOf(e) = x.t
    BY <1>1, <2>3, NewEntry
  <2>5. /\ IsState(s1) /\ s1.entries = s.entries /\ s1.maps = s.maps /\ s1.cache = s.cache
        /\ s1.size = s.size
        /\ s1.tables = IF pte = old THEN s.tables
                       ELSE [s.tables EXCEPT ![k] = writePTE(s.tables[k], va, pte)]
    BY DEF StateOK, IsState
  <2>6. s1.tables = Abstract!marked(s.tables, tlb, va, need, x)
    BY <1>1, <1>3, <2>5, SamePaging DEF Abstract!marked
  <2> HIDE DEF e, pte, x, s1, old
  <2>7. TablesOK(s1)
    <3>1. CASE pte = old
      BY <2>5, <3>1 DEF StateOK, TablesOK
    <3>2. CASE pte # old
      <4>1. TableOK(k, writePTE(s.tables[k], va, pte))
        BY <2>2, <2>3, TableWritten
      <4> QED
        BY <2>5, <3>2, <4>1 DEF StateOK, TablesOK
    <3> QED
      BY <3>1, <3>2
  <2>8. EntriesOK(s1) /\ MapsOK(s1) /\ CacheOK(s1)
    BY <2>5 DEF StateOK, EntriesOK, MapsOK, CacheOK
  <2>9. /\ IsState(s2) /\ EntriesOK(s2) /\ MapsOK(s2) /\ CacheOK(s2)
        /\ s2.tables = s1.tables /\ From(s2, s1)
        /\ Stays(s2, s1, {y \in s1.entries : y.tlb = e.tlb})
        /\ s2.size[e.tlb] > 0 => idOf(e) \in ToSet(s2.cache[e.tlb])
    BY <2>1, <2>4, <2>5, <2>8, PromoteKeeps
  <2> DEFINE s3 == [s2 EXCEPT !.entries = @ \union {e}]
  <2>10. /\ IsState(s3) /\ s3.entries = s2.entries \union {e} /\ s3.maps = s2.maps
         /\ s3.cache = s2.cache /\ s3.size = s2.size /\ s3.tables = s2.tables
    BY <2>9 DEF IsState
  <2> HIDE DEF s3
  <2>11. StateOK(s3)
    <3>1. EntriesOK(s3) /\ TablesOK(s3)
      BY <2>4, <2>7, <2>9, <2>10 DEF EntriesOK, TablesOK
    <3>2. MapsOK(s3)
      BY <2>9, <2>10 DEF MapsOK, Served
    <3>3. CacheOK(s3)
      BY <2>9, <2>10 DEF CacheOK, idOf
    <3> QED
      BY <2>10, <3>1, <3>2, <3>3 DEF StateOK
  <2>12. keptIn(s3) \subseteq keptIn(s) \union {x.t}
    <3>1. ASSUME NEW y \in s2.entries PROVE translationOf(y) \in keptIn(s)
      <4>1. PICK y0 \in s.entries : y = y0 \/ y = unmapped(y0)
        BY <2>5, <2>9 DEF From
      <4> QED
        BY <4>1, UnmappedEntry DEF keptIn, StateOK, EntriesOK
    <3> QED
      BY <2>4, <2>10, <3>1 DEF keptIn
  <2>13. r = Found(s3, e.tlb, mode, e) /\ e \in s3.entries
    BY <2>1, <2>4, <2>10 DEF s3
  <2>14. /\ StateOK(r.st) /\ r.st.tables = s3.tables /\ keptIn(r.st) = keptIn(s3)
         /\ e.tlb = "VS2" => GuestStays(r.st, s3)
         /\ renewed(e) \in r.st.entries /\ r.found = {renewed(e)}
         /\ translationOf(renewed(e)) = translationOf(e)
         /\ GrantsNow(renewed(e), e.tlb, mode, va, r.priv)
    BY <2>4, <2>11, <2>13, FoundKeeps
  <2>15. tlb = "VS2" => GuestStays(s3, s)
    BY <2>4, <2>5, <2>9, <2>10 DEF Stays, GuestStays
  <2>16. tlb = "VS2" => GuestStays(r.st, s)
    BY <2>4, <2>14, <2>15, GuestStaysTrans DEF StateOK
  <2>17. Abstract!gained(x) = {x.t}
    BY <1>1, <1>3 DEF Abstract!gained, x
  <2>18. ImplementsAs(s, tlb, mode, va, need, r, x)
    <3>1. r.st.tables = Abstract!marked(s.tables, tlb, va, need, x)
      BY <2>6, <2>9, <2>10, <2>14
    <3>2. keptIn(r.st) \subseteq keptIn(s) \union Abstract!gained(x)
      BY <2>12, <2>14, <2>17
    <3>3. x.ok /\ x.t.tlb = tlb
      BY <1>1, <1>3 DEF x
    <3> QED
      BY <2>4, <2>14, <3>1, <3>2, <3>3 DEF ImplementsAs
  <2> QED
    BY <2>14, <2>16, <2>18 DEF x
<1> QED
  BY <1>2, <1>3

\* A stage of a miss is one of Mmu.
LEMMA FindKeeps ==
  ASSUME csr \in SimASID, config.pages \subseteq Nat, NEW s, StateOK(s),
         NEW tlb \in TLBId, activeTable(csr, tlb) \in DOMAIN s.tables,
         NEW mode, NEW va \in config.pages, NEW need,
         NEW r \in findOrCreateTLBEntry(s, tlb, mode, va, need)
  PROVE  /\ StateOK(r.st)
         /\ tlb = "VS2" => GuestStays(r.st, s)
         /\ \E x \in StageOf(s, tlb, mode, va, need) : ImplementsAs(s, tlb, mode, va, need, r, x)
<1> DEFINE es == findTLBEntries(s, tlb, va)
           walked == walkOf(s, tlb, mode, va, need)
<1>1. walked \in StageOf(s, tlb, mode, va, need)
  BY DEF StageOf
<1>2. CASE r \in walk(s, tlb, mode, va, need)
  <2> HIDE DEF walked
  <2>1. /\ StateOK(r.st) /\ (tlb = "VS2" => GuestStays(r.st, s))
        /\ ImplementsAs(s, tlb, mode, va, need, r, walked)
    BY <1>2, WalkKeeps DEF walked
  <2> QED
    BY <1>1, <2>1
<1>3. CASE es = {}
  BY <1>2, <1>3 DEF findOrCreateTLBEntry
<1>4. CASE es # {}
  <2>1. PICK e \in es :
          r \in IF need \notin getEntryPriv(config, csr, tlb, mode, e) THEN {Fault(s)}
                ELSE IF need = "W" /\ ~e.D
                     THEN IF ~config.updatePTED THEN {Fault(s)}
                          ELSE walk(deleteTLBEntries(s, {e}), tlb, mode, va, need)
                     ELSE {Found(s, tlb, mode, e)}
    BY <1>4, Zenon DEF findOrCreateTLBEntry
  <2>2. e \in s.entries /\ EntryOK(e) /\ e.tlb = tlb /\ va \in pagesOf(e) /\ Current(e)
    BY DEF findTLBEntries, Current, StateOK, EntriesOK
  <2> DEFINE x == useOf(e, mode, need)
  <2>3. x \in StageOf(s, tlb, mode, va, need)
    BY DEF StageOf
  <2>4. /\ x.walked = FALSE /\ x.t = translationOf(e) /\ x.t.tlb = tlb
        /\ x.ok <=> /\ need \in getEntryPriv(config, csr, tlb, mode, e)
                    /\ need = "W" => e.D
    BY <2>2, PermitsIff DEF useOf, translationOf
  <2>5. GuestStays(s, s)
    BY DEF GuestStays
  <2> HIDE DEF x, es, walked
  <2>6. CASE ~x.ok /\ r = Fault(s)
    <3>1. ImplementsAs(s, tlb, mode, va, need, r, x)
      BY <2>4, <2>6, FaultImplements
    <3>2. r.st = s
      BY <2>6 DEF Fault
    <3> QED
      BY <2>3, <2>5, <3>1, <3>2
  <2>7. CASE r \in walk(deleteTLBEntries(s, {e}), tlb, mode, va, need)
    <3> DEFINE d == deleteTLBEntries(s, {e})
    <3>1. /\ IsState(d) /\ EntriesOK(d) /\ MapsOK(d)
          /\ d.tables = s.tables /\ d.cache = s.cache /\ d.size = s.size
          /\ \A y \in d.entries : \E y0 \in s.entries \ {e} : y = y0 \/ y = unmapped(y0)
          /\ Stays(d, s, {e})
      BY <2>2, DeleteKeeps DEF StateOK
    <3> HIDE DEF d
    <3>2. StateOK(d)
      <4>1. CacheOK(d)
        BY <3>1, CacheKept DEF StateOK
      <4> QED
        BY <3>1, <4>1 DEF StateOK, TablesOK
    <3>3. tlb = "VS2" => GuestStays(d, s)
      BY <2>2, <3>1 DEF Stays, GuestStays
    <3>4. /\ StateOK(r.st) /\ (tlb = "VS2" => GuestStays(r.st, d))
          /\ ImplementsAs(d, tlb, mode, va, need, r, walkOf(d, tlb, mode, va, need))
      BY <2>7, <3>1, <3>2, WalkKeeps DEF d
    <3>5. walkOf(d, tlb, mode, va, need) = walked
      BY <3>1 DEF walkOf, walked
    <3>6. keptIn(d) \subseteq keptIn(s)
      <4> SUFFICES ASSUME NEW y \in d.entries PROVE translationOf(y) \in keptIn(s)
        BY DEF keptIn
      <4>1. PICK y0 \in s.entries : y = y0 \/ y = unmapped(y0)
        BY <3>1
      <4> QED
        BY <4>1, UnmappedEntry DEF keptIn, StateOK, EntriesOK
    <3>7. ImplementsAs(s, tlb, mode, va, need, r, walked)
      BY <3>1, <3>4, <3>5, <3>6 DEF ImplementsAs
    <3>8. tlb = "VS2" => GuestStays(r.st, s)
      BY <3>3, <3>4, GuestStaysTrans DEF StateOK
    <3> QED
      BY <1>1, <3>4, <3>7, <3>8 DEF walked
  <2>8. CASE x.ok /\ r = Found(s, tlb, mode, e)
    <3> DEFINE q == Found(s, e.tlb, mode, e)
    <3>4. /\ StateOK(q.st) /\ q.st.tables = s.tables /\ keptIn(q.st) = keptIn(s)
          /\ e.tlb = "VS2" => GuestStays(q.st, s)
          /\ renewed(e) \in q.st.entries /\ q.found = {renewed(e)}
          /\ translationOf(renewed(e)) = translationOf(e)
          /\ GrantsNow(renewed(e), e.tlb, mode, va, q.priv)
      BY <2>2, FoundKeeps
    <3>5. r = q
      BY <2>2, <2>8
    <3> HIDE DEF q
    <3>1. /\ StateOK(r.st) /\ r.st.tables = s.tables /\ keptIn(r.st) = keptIn(s)
          /\ tlb = "VS2" => GuestStays(r.st, s)
          /\ renewed(e) \in r.st.entries /\ r.found = {renewed(e)}
          /\ translationOf(renewed(e)) = translationOf(e)
          /\ GrantsNow(renewed(e), tlb, mode, va, r.priv)
      BY <2>2, <3>4, <3>5
    <3>2. Abstract!marked(s.tables, tlb, va, need, x) = s.tables
      BY <2>4 DEF Abstract!marked
    <3>3. ImplementsAs(s, tlb, mode, va, need, r, x)
      BY <2>4, <2>8, <3>1, <3>2 DEF ImplementsAs
    <3> QED
      BY <2>3, <3>1, <3>3
  <2> QED
    BY <2>1, <2>4, <2>6, <2>7, <2>8
<1> QED
  BY <1>3, <1>4

-----------------------------------------------------------------------------
(***************************************************************************)
(* Mappings.                                                               *)
(***************************************************************************)

\* The fields on which a mapping depends decide what its entry grants.
LEMMA PrivDepends ==
  ASSUME NEW e, EntryOK(e), NEW mode \in modesOf(e.tlb), NEW c1, NEW c2,
         \A f \in getEntryASIDMask(e, mode) : c1[f] = c2[f]
  PROVE  getEntryPriv(config, c1, e.tlb, mode, e) = getEntryPriv(config, c2, e.tlb, mode, e)
<1>1. e.tlb \in {"HS", "VS1", "VS2"}
  BY DEF EntryOK, EntryRec, TLBId
<1>2. c1["MXR_HS"] = c2["MXR_HS"]
  BY DEF getEntryASIDMask
<1>3. CASE e.tlb = "HS"
  <2>1. mode \in {"U", "S"}
    BY <1>3 DEF modesOf
  <2>2. e.U /\ mode = "S" => c1["SUM_HS"] = c2["SUM_HS"]
    BY <1>3 DEF getEntryASIDMask, modeIsVirtual
  <2> QED
    BY <1>2, <1>3, <2>1, <2>2 DEF getEntryPriv
<1>4. CASE e.tlb = "VS1"
  <2>1. mode \in {"VU", "VS"}
    BY <1>4 DEF modesOf
  <2>2. /\ e.U /\ mode = "VS" => c1["SUM_VS"] = c2["SUM_VS"]
        /\ c1["MXR_VS"] = c2["MXR_VS"]
    BY <1>4, <2>1 DEF getEntryASIDMask, modeIsVirtual
  <2> QED
    BY <1>2, <1>4, <2>1, <2>2 DEF getEntryPriv
<1>5. CASE e.tlb = "VS2"
  BY <1>2, <1>5 DEF getEntryPriv
<1> QED
  BY <1>1, <1>3, <1>4, <1>5

\* Second-stage entries depend on fields that first-stage ones of guests record.
LEMMA SecondMask ==
  ASSUME NEW e2, EntryOK(e2), e2.tlb = "VS2", NEW mode \in {"VU", "VS"}
  PROVE  getEntryASIDMask(e2, mode) \subseteq {"MXR_HS", "VMID", "MXR_VS", "S1", "S2"}
BY DEF EntryOK, getEntryASIDMask, modeIsVirtual

\* Entries e1 and e2 of second serve mode under the present fields.
MayMap(s, e1, second, mode, priv) ==
  /\ e1 \in s.entries /\ e1.simASID = getSimASID(e1.tlb)
  /\ mode \in modesOf(e1.tlb)
  /\ modeIsVirtual(mode) => (csr.S1 <=> e1.tlb = "VS1")
  /\ priv \subseteq getEntryPriv(config, csr, e1.tlb, mode, e1)
  /\ "W" \in priv => e1.D
  /\ IF e1.tlb = "VS1" /\ csr.S2
     THEN \E e2 \in s.entries :
            /\ second = {e2} /\ e2.tlb = "VS2" /\ getEntryVMID(e1) = getEntryVMID(e2)
            /\ priv \subseteq getEntryPriv(config, csr, "VS2", mode, e2)
            /\ "W" \in priv => e2.D
     ELSE second = {}

\* New mappings are served by the entries they were made from.
LEMMA MapKeeps ==
  ASSUME csr \in SimASID, NEW s, StateOK(s), NEW e1, NEW second, NEW mode, NEW priv,
         MayMap(s, e1, second, mode, priv)
  PROVE  LET t == mapTLBEntry(s, e1, second, mode, priv)
         IN  StateOK(t) /\ t.tables = s.tables /\ keptIn(t) = keptIn(s)
<1> DEFINE t == mapTLBEntry(s, e1, second, mode, priv)
           n == [e1 EXCEPT !.mapped = @ \union {mode}]
           asid == [f \in getEntryASIDMask(e1, mode)
                            \union UNION {getEntryASIDMask(e2, mode) : e2 \in second} |->
                      e1.simASID[f]]
           pages == {va \in pagesOf(e1) : \A e2 \in second : translate(e1, va) \in pagesOf(e2)}
           pa(va) == IF second = {} THEN translate(e1, va)
                     ELSE translate(CHOOSE e2 \in second : TRUE, translate(e1, va))
           new == {[mode |-> mode, va |-> va, pa |-> pa(va), priv |-> priv, asid |-> asid] : va \in pages}
           old == {m \in s.maps : m.mode = mode /\ m.va \in pages /\ m.asid = asid}
<1>1. EntryOK(e1) /\ e1 \in EntryRec /\ e1.tlb \in TLBId /\ e1 \in s.entries
  BY DEF MayMap, StateOK, EntriesOK, EntryOK, EntryRec
<1>2. mode \in Mode /\ mode \in modesOf(e1.tlb)
  BY <1>1 DEF MayMap, TLBId, modesOf, Mode
<1>3. /\ n \in EntryRec /\ n.mapped = e1.mapped \union {mode}
      /\ n.tlb = e1.tlb /\ n.low = e1.low /\ n.size = e1.size /\ n.ppn = e1.ppn
      /\ n.priv = e1.priv /\ n.U = e1.U /\ n.G = e1.G /\ n.D = e1.D /\ n.simASID = e1.simASID
  BY <1>1, <1>2 DEF EntryRec
<1>4. /\ IsState(t) /\ t.tables = s.tables /\ t.cache = s.cache /\ t.size = s.size
      /\ t.entries = (s.entries \ {e1}) \union {n}
      /\ t.maps = (s.maps \ old) \union new
  BY DEF mapTLBEntry, IsState, StateOK
<1> HIDE DEF t, n
<1>5. EntryOK(n)
  BY <1>1, <1>2, <1>3 DEF EntryOK, pagesOf
<1>6. /\ getEntryVMID(n) = getEntryVMID(e1) /\ getEntryASID(n) = getEntryASID(e1)
      /\ translationOf(n) = translationOf(e1) /\ pagesOf(n) = pagesOf(e1)
      /\ \A va : translate(n, va) = translate(e1, va)
      /\ \A x : getEntryASIDMask(n, x) = getEntryASIDMask(e1, x)
      /\ \A m : Grants(n, m) <=> Grants(e1, m)
  BY <1>3 DEF getEntryVMID, getEntryASID, translationOf, pagesOf, translate,
              getEntryASIDMask, Grants, getEntryPriv
<1>7. TablesOK(t) /\ EntriesOK(t) /\ keptIn(t) = keptIn(s)
  BY <1>1, <1>4, <1>5, <1>6 DEF StateOK, TablesOK, EntriesOK, keptIn
<1>8. CacheOK(t)
  BY <1>1, <1>3, <1>4, <1>6 DEF StateOK, CacheOK
<1>9. ASSUME NEW m \in s.maps PROVE Served(t.entries, m)
  <2> DEFINE sub(x) == IF x = e1 THEN n ELSE x
  <2>1. PICK x1 \in s.entries :
          /\ FirstStage(x1, m)
          /\ IF x1.tlb = "VS1" /\ m.asid.S2 THEN \E x2 \in s.entries : SecondStage(x1, x2, m)
                                            ELSE m.pa = translate(x1, m.va)
    BY <1>9 DEF StateOK, MapsOK, Served
  <2>2. FirstStage(sub(x1), m)
    BY <1>3, <1>6, <2>1 DEF FirstStage
  <2>3. /\ sub(x1) \in t.entries /\ sub(x1).tlb = x1.tlb
        /\ translate(sub(x1), m.va) = translate(x1, m.va)
    BY <1>3, <1>4, <1>6
  <2>4. ASSUME NEW x2 \in s.entries, SecondStage(x1, x2, m)
        PROVE  sub(x2) \in t.entries /\ SecondStage(sub(x1), sub(x2), m)
    BY <1>3, <1>4, <1>6, <2>4 DEF SecondStage
  <2> HIDE DEF sub
  <2>5. CASE x1.tlb = "VS1" /\ m.asid.S2
    BY <2>1, <2>2, <2>3, <2>4, <2>5 DEF Served
  <2>6. CASE ~(x1.tlb = "VS1" /\ m.asid.S2)
    BY <2>1, <2>2, <2>3, <2>6 DEF Served
  <2> QED
    BY <2>5, <2>6
<1>10. ASSUME NEW m \in new
       PROVE  m.mode = mode /\ m.va \in config.pages /\ m.priv \subseteq Priv /\ Served(t.entries, m)
  <2>1. PICK va \in pages : m = [mode |-> mode, va |-> va, pa |-> pa(va), priv |-> priv, asid |-> asid]
    OBVIOUS
  <2>2. m.mode = mode /\ m.va = va /\ m.pa = pa(va) /\ m.priv = priv /\ m.asid = asid /\ va \in pagesOf(e1)
    BY <2>1
  <2>a. second # {} => translate(e1, va) \in pagesOf(CHOOSE e2 \in second : TRUE)
    OBVIOUS
  <2> HIDE DEF pages, pa, new, old
  <2>3. e1.simASID = getSimASID(e1.tlb) /\ \A f \in fieldsOf(e1.tlb) : e1.simASID[f] = csr[f]
    BY <1>1, ActiveFields DEF MayMap
  <2>4. getEntryASIDMask(e1, mode) \subseteq fieldsOf(e1.tlb)
    BY <1>2, <1>3, <1>5, <1>6, EntryFields
  <2>5. \A f \in getEntryASIDMask(e1, mode) : f \in DOMAIN asid /\ asid[f] = e1.simASID[f] /\ asid[f] = csr[f]
    BY <2>3, <2>4
  <2>6. getEntryPriv(config, asid, e1.tlb, mode, e1) = getEntryPriv(config, csr, e1.tlb, mode, e1)
    <3> HIDE DEF asid
    <3> QED
      BY <1>1, <1>2, <2>5, PrivDepends
  <2>7. modeIsVirtual(mode) => "S1" \in getEntryASIDMask(e1, mode) /\ "S2" \in getEntryASIDMask(e1, mode)
    BY DEF getEntryASIDMask
  <2>8. modeIsVirtual(mode) <=> e1.tlb # "HS"
    BY <1>1, <1>2 DEF TLBId, modesOf, modeIsVirtual
  <2> HIDE DEF asid
  <2>9. FirstStage(n, m)
    <3>1. Grants(n, m)
      BY <1>6, <2>2, <2>6 DEF Grants, MayMap
    <3>2. modeIsVirtual(m.mode) => (m.asid.S1 <=> n.tlb = "VS1")
      BY <1>3, <2>2, <2>5, <2>7 DEF MayMap
    <3> QED
      BY <1>3, <1>6, <2>2, <2>5, <3>1, <3>2 DEF FirstStage
  <2>10. m.va \in config.pages /\ m.priv \subseteq Priv
    <3>1. getEntryPriv(config, csr, e1.tlb, mode, e1) \subseteq Priv
      BY <1>1 DEF getEntryPriv, EntryRec, Priv
    <3> QED
      BY <1>1, <2>2, <3>1 DEF EntryOK, MayMap
  <2>11. Served(t.entries, m)
    <3>1. CASE e1.tlb = "VS1" /\ csr.S2
      <4>1. PICK e2 \in s.entries :
              /\ second = {e2} /\ e2.tlb = "VS2" /\ getEntryVMID(e1) = getEntryVMID(e2)
              /\ priv \subseteq getEntryPriv(config, csr, "VS2", mode, e2)
              /\ "W" \in priv => e2.D
        BY <3>1 DEF MayMap
      <4>2. EntryOK(e2) /\ e2 \in t.entries /\ mode \in {"VU", "VS"}
        BY <1>2, <1>4, <3>1, <4>1 DEF StateOK, EntriesOK, modesOf
      <4>3. (CHOOSE x \in second : TRUE) = e2
        BY <4>1
      <4>4. translate(e1, va) \in pagesOf(e2) /\ m.pa = translate(e2, translate(e1, va))
        BY <2>2, <2>a, <4>1, <4>3 DEF pa
      <4>5. \A f \in getEntryASIDMask(e2, mode) : asid[f] = csr[f]
        <5>1. \A f \in {"MXR_HS", "VMID", "MXR_VS", "S1", "S2"} : f \in fieldsOf(e1.tlb)
          BY <3>1 DEF fieldsOf
        <5>2. \A f \in getEntryASIDMask(e2, mode) : f \in fieldsOf(e1.tlb) /\ asid[f] = e1.simASID[f]
          BY <4>1, <4>2, <5>1, SecondMask DEF asid
        <5> QED
          BY <2>3, <5>2
      <4>6. getEntryPriv(config, asid, "VS2", mode, e2) = getEntryPriv(config, csr, "VS2", mode, e2)
        BY <4>1, <4>2, <4>5, PrivDepends DEF modesOf
      <4>7. SecondStage(n, e2, m)
        BY <1>6, <2>2, <4>1, <4>4, <4>6 DEF SecondStage, Grants
      <4>8. m.asid.S2
        BY <2>2, <2>5, <2>7, <2>8, <3>1
      <4> QED
        BY <1>3, <1>4, <2>9, <3>1, <4>2, <4>7, <4>8 DEF Served
    <3>2. CASE ~(e1.tlb = "VS1" /\ csr.S2)
      <4>1. second = {}
        BY <3>2 DEF MayMap
      <4>2. m.pa = translate(n, m.va)
        BY <1>6, <2>2, <4>1 DEF pa
      <4>3. ~(n.tlb = "VS1" /\ m.asid.S2)
        BY <1>3, <2>2, <2>5, <2>7, <2>8, <3>2
      <4> QED
        BY <1>4, <2>9, <4>2, <4>3 DEF Served
    <3> QED
      BY <3>1, <3>2
  <2> QED
    BY <2>2, <2>10, <2>11
<1> HIDE DEF new, old
<1>11. MapsOK(t)
  BY <1>2, <1>4, <1>9, <1>10 DEF MapsOK, StateOK
<1> QED
  BY <1>4, <1>7, <1>8, <1>11 DEF StateOK, t

-----------------------------------------------------------------------------
(***************************************************************************)
(* Misses.                                                                 *)
(***************************************************************************)

\* The second stage of a miss finds what it would have found before the first.
LEMMA SecondBefore ==
  ASSUME NEW s, NEW t, NEW mode, NEW va, NEW gpa, NEW need, NEW x,
         t.tables = Abstract!marked(s.tables, "VS1", va, need, x),
         keptIn(t) \subseteq keptIn(s) \union Abstract!gained(x), x.t.tlb = "VS1",
         NEW x2 \in StageOf(t, "VS2", mode, gpa, need)
  PROVE  x2 \in StageOf(s, "VS2", mode, gpa, need)
<1>1. CASE x2 = walkOf(t, "VS2", mode, gpa, need)
  <2>1. activeTable(csr, "VS2") # activeTable(csr, "VS1")
    BY DEF activeTable
  <2>2. t.tables[activeTable(csr, "VS2")] = s.tables[activeTable(csr, "VS2")]
    BY <2>1, SamePaging DEF Abstract!marked
  <2>3. x2 = walkOf(s, "VS2", mode, gpa, need)
    BY <1>1, <2>2 DEF walkOf
  <2> QED
    BY <2>3 DEF StageOf
<1>2. ASSUME NEW e \in findTLBEntries(t, "VS2", gpa), x2 = useOf(e, mode, need)
      PROVE  x2 \in StageOf(s, "VS2", mode, gpa, need)
  <2>1. /\ e \in t.entries /\ e.tlb = "VS2" /\ gpa \in pagesOf(e)
        /\ getEntryVMID(e) = getActiveVMID(csr, "VS2")
        /\ e.G \/ getEntryASID(e) = getActiveASID(csr, "VS2")
    BY <1>2 DEF findTLBEntries
  <2>2. translationOf(e).tlb = "VS2"
    BY <2>1 DEF translationOf
  <2>3. translationOf(e) \in keptIn(s)
    BY <2>1, <2>2 DEF keptIn, Abstract!gained
  <2>4. PICK y \in s.entries : translationOf(y) = translationOf(e)
    BY <2>3 DEF keptIn
  <2>5. /\ y.tlb = e.tlb /\ getEntryVMID(y) = getEntryVMID(e) /\ y.G = e.G
        /\ y.low = e.low /\ y.size = e.size
        /\ ~e.G => getEntryASID(y) = getEntryASID(e)
    BY <2>4 DEF translationOf
  <2>6. y \in findTLBEntries(s, "VS2", gpa)
    BY <2>1, <2>5 DEF findTLBEntries, pagesOf
  <2>7. x2 = useOf(y, mode, need)
    BY <1>2, <2>4 DEF useOf
  <2> QED
    BY <2>6, <2>7 DEF StageOf
<1> QED
  BY <1>1, <1>2 DEF StageOf

\* A miss with outcome o does what an access of Mmu may do.
AccessBy(mode, va, need, o) ==
  LET tlb == getCurrentTLBId(csr, mode)
  IN  \E x \in StageOf(state, tlb, mode, va, need) :
        LET gpa == translate(x.t, va)
            tab == Abstract!marked(tables, tlb, va, need, x)
        IN  \/ /\ ~x.ok /\ o.st.tables = tab
               /\ keptIn(o.st) \subseteq keptIn(state) /\ o.pa = {}
            \/ /\ x.ok /\ ~doStage2(csr, tlb) /\ o.st.tables = tab
               /\ keptIn(o.st) \subseteq keptIn(state) \union Abstract!gained(x)
               /\ o.pa = {gpa}
            \/ /\ x.ok /\ doStage2(csr, tlb)
               /\ \E x2 \in StageOf(state, "VS2", mode, gpa, need) :
                    /\ o.st.tables = Abstract!marked(tab, "VS2", gpa, need, x2)
                    /\ keptIn(o.st) \subseteq keptIn(state) \union (Abstract!gained(x) \union Abstract!gained(x2))
                    /\ o.pa = IF x2.ok THEN {translate(x2.t, gpa)} ELSE {}

\* A miss keeps the invariant and is an access of Mmu.
LEMMA MissKeeps ==
  ASSUME csr \in SimASID, config.pages \subseteq Nat, StateOK(state),
         NEW mode \in Mode, NEW va \in config.pages, NEW need,
         activeTable(csr, getCurrentTLBId(csr, mode)) \in DOMAIN tables,
         doStage2(csr, getCurrentTLBId(csr, mode)) => activeTable(csr, "VS2") \in DOMAIN tables,
         NEW o \in tlbMiss(mode, va, need)
  PROVE  StateOK(o.st) /\ AccessBy(mode, va, need, o)
<1> DEFINE tlb == getCurrentTLBId(csr, mode)
           after(e, st) == IF e \in st.entries THEN e ELSE unmapped(e)
<1>1. /\ tlb \in TLBId /\ mode \in modesOf(tlb)
      /\ modeIsVirtual(mode) => (csr.S1 <=> tlb = "VS1")
      /\ doStage2(csr, tlb) <=> tlb = "VS1" /\ csr.S2
  BY DEF getCurrentTLBId, TLBId, modesOf, Mode, modeIsVirtual, doStage2
<1>2. PICK r \in findOrCreateTLBEntry(state, tlb, mode, va, need) :
        IF r.found = {} THEN o = [st |-> r.st, pa |-> {}] ELSE o \in mapFound(r, tlb, mode, va, need)
  <2> HIDE DEF tlb
  <2>1. tlbMiss(mode, va, need) =
          UNION {IF r.found = {} THEN {[st |-> r.st, pa |-> {}]} ELSE mapFound(r, tlb, mode, va, need) :
                 r \in findOrCreateTLBEntry(state, tlb, mode, va, need)}
    BY DEF tlbMiss, tlb
  <2>2. PICK r \in findOrCreateTLBEntry(state, tlb, mode, va, need) :
          o \in (IF r.found = {} THEN {[st |-> r.st, pa |-> {}]} ELSE mapFound(r, tlb, mode, va, need))
    BY <2>1
  <2> QED
    BY <2>2
<1>3. state.tables = tables
  BY DEF state
<1>4. /\ StateOK(r.st)
      /\ \E x \in StageOf(state, tlb, mode, va, need) : ImplementsAs(state, tlb, mode, va, need, r, x)
  <2> HIDE DEF tlb
  <2> QED
    BY <1>1, <1>2, <1>3, FindKeeps DEF tlb
<1>5. PICK x \in StageOf(state, tlb, mode, va, need) : ImplementsAs(state, tlb, mode, va, need, r, x)
  BY <1>4
<1> DEFINE tab == Abstract!marked(tables, tlb, va, need, x)
<1> HIDE DEF tlb
<1>6. /\ r.st.tables = tab /\ x.t.tlb = tlb
      /\ keptIn(r.st) \subseteq keptIn(state) \union Abstract!gained(x)
  BY <1>3, <1>5 DEF ImplementsAs
<1>7. CASE r.found = {}
  <2>1. ~x.ok /\ o.st = r.st /\ o.pa = {}
    BY <1>2, <1>5, <1>7 DEF ImplementsAs
  <2>2. Abstract!gained(x) = {}
    BY <2>1 DEF Abstract!gained
  <2> QED
    BY <1>4, <1>5, <1>6, <2>1, <2>2 DEF AccessBy, tlb
<1>8. CASE r.found # {}
  <2>1. PICK e1 \in r.st.entries : /\ x.ok /\ r.found = {e1} /\ x.t = translationOf(e1)
                                   /\ GrantsNow(e1, tlb, mode, va, r.priv)
    BY <1>5, <1>8 DEF ImplementsAs
  <2>2. (CHOOSE e \in r.found : TRUE) = e1
    BY <2>1
  <2> DEFINE gpa == translate(x.t, va)
  <2>3. gpa = translate(e1, va)
    BY <2>1 DEF translate, translationOf
  <2>4. EntryOK(e1) /\ e1.tlb = tlb
    BY <1>4, <2>1 DEF StateOK, EntriesOK, GrantsNow
  <2> HIDE DEF gpa
  <2>5. CASE ~doStage2(csr, tlb)
    <3>1. o = [st |-> mapTLBEntry(r.st, e1, {}, mode, r.priv), pa |-> {gpa}]
      BY <1>2, <1>8, <2>2, <2>3, <2>5 DEF mapFound
    <3>2. MayMap(r.st, e1, {}, mode, r.priv)
      BY <1>1, <2>1, <2>4, <2>5 DEF MayMap, GrantsNow
    <3>3. LET t == mapTLBEntry(r.st, e1, {}, mode, r.priv)
          IN  StateOK(t) /\ t.tables = r.st.tables /\ keptIn(t) = keptIn(r.st)
      BY <1>4, <3>2, MapKeeps
    <3>4. StateOK(o.st) /\ o.st.tables = tab /\ keptIn(o.st) = keptIn(r.st) /\ o.pa = {gpa}
      BY <1>6, <3>1, <3>3
    <3> QED
      BY <1>5, <1>6, <2>1, <2>5, <3>4 DEF AccessBy, tlb, gpa
  <2>6. CASE doStage2(csr, tlb)
    <3>1. PICK r2 \in findOrCreateTLBEntry(r.st, "VS2", mode, gpa, need) :
            o = mapStages(r, e1, r2, mode, gpa)
      BY <1>2, <1>8, <2>2, <2>3, <2>6 DEF mapFound
    <3>2. tlb = "VS1" /\ csr.S2 /\ mode \in {"VU", "VS"}
      BY <1>1, <2>6 DEF modesOf
    <3>3. gpa \in config.pages
      <4>1. e1 \in EntryRec /\ va \in e1.low..(e1.low + e1.size - 1)
        BY <2>1, <2>4 DEF EntryOK, GrantsNow, pagesOf
      <4>2. gpa \in e1.ppn..(e1.ppn + e1.size - 1)
        BY <2>3, <4>1 DEF EntryRec, translate
      <4> QED
        BY <2>4, <3>2, <4>2 DEF EntryOK
    <3>4. activeTable(csr, "VS2") \in DOMAIN r.st.tables
      <4>1. DOMAIN r.st.tables = DOMAIN config.tables /\ DOMAIN tables = DOMAIN config.tables
        BY <1>3, <1>4 DEF StateOK, TablesOK
      <4> QED
        BY <2>6, <4>1 DEF tlb
    <3>5. /\ StateOK(r2.st) /\ GuestStays(r2.st, r.st)
          /\ \E x2 \in StageOf(r.st, "VS2", mode, gpa, need) :
               ImplementsAs(r.st, "VS2", mode, gpa, need, r2, x2)
      BY <1>4, <3>1, <3>3, <3>4, FindKeeps DEF TLBId
    <3>6. PICK x2 \in StageOf(r.st, "VS2", mode, gpa, need) :
            ImplementsAs(r.st, "VS2", mode, gpa, need, r2, x2)
      BY <3>5
    <3>7. x2 \in StageOf(state, "VS2", mode, gpa, need)
      BY <1>3, <1>6, <3>2, <3>6, SecondBefore
    <3>8. /\ r2.st.tables = Abstract!marked(tab, "VS2", gpa, need, x2)
          /\ keptIn(r2.st) \subseteq keptIn(state) \union (Abstract!gained(x) \union Abstract!gained(x2))
      BY <1>6, <3>6 DEF ImplementsAs
    <3>9. SUFFICES /\ StateOK(o.st) /\ o.st.tables = r2.st.tables
                   /\ keptIn(o.st) = keptIn(r2.st)
                   /\ o.pa = IF x2.ok THEN {translate(x2.t, gpa)} ELSE {}
      BY <1>5, <2>1, <2>6, <3>7, <3>8 DEF AccessBy, tlb, gpa
    <3>10. CASE r2.found = {}
      <4>1. ~x2.ok /\ o.st = r2.st /\ o.pa = {}
        BY <3>1, <3>6, <3>10 DEF ImplementsAs, mapStages
      <4> QED
        BY <3>5, <4>1
    <3>11. CASE r2.found # {}
      <4>1. PICK e2 \in r2.st.entries : /\ x2.ok /\ r2.found = {e2} /\ x2.t = translationOf(e2)
                                        /\ GrantsNow(e2, "VS2", mode, gpa, r2.priv)
        BY <3>6, <3>11 DEF ImplementsAs
      <4>2. (CHOOSE e \in r2.found : TRUE) = e2
        BY <4>1
      <4> DEFINE f1 == after(e1, r2.st)
                 priv == r.priv \intersect r2.priv
                 t == mapTLBEntry(r2.st, f1, {e2}, mode, priv)
      <4>3. o = [st |-> t, pa |-> {translate(e2, gpa)}]
        BY <3>1, <3>11, <4>1, <4>2 DEF mapStages, unmapped
      <4>4. translate(x2.t, gpa) = translate(e2, gpa)
        BY <4>1 DEF translate, translationOf
      <4>5. /\ f1 \in r2.st.entries /\ f1.tlb = e1.tlb /\ f1.simASID = e1.simASID
            /\ f1.U = e1.U /\ f1.D = e1.D /\ f1.priv = e1.priv
            /\ getEntryVMID(f1) = getEntryVMID(e1)
        BY <2>1, <2>4, <3>2, <3>5, UnmappedEntry DEF GuestStays
      <4> HIDE DEF after
      <4>6. getEntryVMID(e1) = getEntryVMID(e2) /\ e2.tlb = "VS2"
        BY <2>1, <2>4, <3>2, <4>1 DEF GrantsNow, Current, getActiveVMID
      <4>7. getEntryPriv(config, csr, tlb, mode, f1) = getEntryPriv(config, csr, tlb, mode, e1)
        BY <4>5 DEF getEntryPriv
      <4>8. MayMap(r2.st, f1, {e2}, mode, priv)
        BY <1>1, <2>1, <2>4, <3>2, <4>1, <4>5, <4>6, <4>7 DEF MayMap, GrantsNow
      <4>9. StateOK(t) /\ t.tables = r2.st.tables /\ keptIn(t) = keptIn(r2.st)
        BY <3>5, <4>8, MapKeeps
      <4> QED
        BY <4>1, <4>3, <4>4, <4>9
    <3> QED
      BY <3>10, <3>11
  <2> QED
    BY <2>5, <2>6
<1> QED
  BY <1>7, <1>8

-----------------------------------------------------------------------------
(***************************************************************************)
(* Accesses as Mmu has them.                                               *)
(***************************************************************************)

\* The state that a miss or a fence starts from.
LEMMA StateIs ==
  /\ IsState(state) /\ state.tables = tables /\ state.entries = entries /\ state.maps = maps
  /\ state.cache = ASIDCache /\ state.size = ASIDCacheSize
  /\ keptIn(state) = keptByTLB
BY DEF state, IsState, keptIn, keptByTLB

\* The outcomes of a stage are those of Mmu.
LEMMA StageIs ==
  ASSUME NEW tlb, NEW mode, NEW va, NEW need
  PROVE  Abstract!Stage(tlb, mode, va, need) = StageOf(state, tlb, mode, va, need)
<1>1. Abstract!usable(tlb, va) = {translationOf(e) : e \in findTLBEntries(state, tlb, va)}
  <2>1. ASSUME NEW e \in entries
        PROVE  e \in findTLBEntries(state, tlb, va)
                 <=> LET t == translationOf(e)
                     IN  /\ t.tlb = tlb /\ va \in Abstract!pagesOf(t)
                         /\ t.vmid = Abstract!getActiveVMID(csr, tlb)
                         /\ t.G \/ t.asid = Abstract!getActiveASID(csr, tlb)
    <3>1. /\ translationOf(e).tlb = e.tlb /\ translationOf(e).low = e.low
          /\ translationOf(e).size = e.size /\ translationOf(e).vmid = getEntryVMID(e)
          /\ translationOf(e).G = e.G /\ (~e.G => translationOf(e).asid = getEntryASID(e))
      BY DEF translationOf
    <3> QED
      BY <3>1, StateIs, SamePaging DEF findTLBEntries, pagesOf
  <2>2. Abstract!usable(tlb, va) =
          {t \in keptByTLB : /\ t.tlb = tlb /\ va \in Abstract!pagesOf(t)
                             /\ t.vmid = Abstract!getActiveVMID(csr, tlb)
                             /\ t.G \/ t.asid = Abstract!getActiveASID(csr, tlb)}
    BY DEF Abstract!usable
  <2>3. findTLBEntries(state, tlb, va) \subseteq entries
    BY StateIs DEF findTLBEntries
  <2> QED
    BY <2>1, <2>2, <2>3 DEF keptByTLB
<1> DEFINE pte == tables[activeTable(csr, tlb)][va]
<1>2. [t |-> Abstract!translation(tlb, va, Abstract!markPTE(config, pte, need)),
       walked |-> TRUE, ok |-> ~Abstract!walkFaults(config, csr, tlb, mode, pte, need)]
        = walkOf(state, tlb, mode, va, need)
  BY StateIs, SamePaging, SameChecks DEF walkOf
<1>3. Abstract!Stage(tlb, mode, va, need) =
        {[t |-> t, walked |-> FALSE, ok |-> Abstract!permits(t, mode, need)] :
           t \in Abstract!usable(tlb, va)}
          \union {walkOf(state, tlb, mode, va, need)}
  BY <1>2, SamePaging DEF Abstract!Stage
<1>4. {[t |-> t, walked |-> FALSE, ok |-> Abstract!permits(t, mode, need)] :
         t \in Abstract!usable(tlb, va)}
        = {useOf(e, mode, need) : e \in findTLBEntries(state, tlb, va)}
  BY <1>1 DEF useOf
<1> QED
  BY <1>3, <1>4 DEF StageOf

\* An access as AccessBy describes it is one of Mmu.
LEMMA AccessIs ==
  ASSUME NEW r \in config.requests, NEW o, AccessBy(r.mode, r.va, r.need, o),
         UNCHANGED <<config, csr>>, tables' = o.st.tables, keptByTLB' = keptIn(o.st),
         out' = <<r, o.pa>>
  PROVE  Abstract!Access
<1> DEFINE tlb == getCurrentTLBId(csr, r.mode)
<1>1. PICK x \in StageOf(state, tlb, r.mode, r.va, r.need) :
        LET gpa == translate(x.t, r.va)
            tab == Abstract!marked(tables, tlb, r.va, r.need, x)
        IN  \/ /\ ~x.ok /\ o.st.tables = tab
               /\ keptIn(o.st) \subseteq keptIn(state) /\ o.pa = {}
            \/ /\ x.ok /\ ~doStage2(csr, tlb) /\ o.st.tables = tab
               /\ keptIn(o.st) \subseteq keptIn(state) \union Abstract!gained(x)
               /\ o.pa = {gpa}
            \/ /\ x.ok /\ doStage2(csr, tlb)
               /\ \E x2 \in StageOf(state, "VS2", r.mode, gpa, r.need) :
                    /\ o.st.tables = Abstract!marked(tab, "VS2", gpa, r.need, x2)
                    /\ keptIn(o.st) \subseteq keptIn(state) \union (Abstract!gained(x) \union Abstract!gained(x2))
                    /\ o.pa = IF x2.ok THEN {translate(x2.t, gpa)} ELSE {}
  BY DEF AccessBy
<1> DEFINE gpa == translate(x.t, r.va)
           tab == Abstract!marked(tables, tlb, r.va, r.need, x)
<1>2. /\ tlb = Abstract!getCurrentTLBId(csr, r.mode)
      /\ doStage2(csr, tlb) <=> Abstract!doStage2(csr, tlb)
      /\ \A t, va : Abstract!translate(t, va) = translate(t, va)
      /\ keptIn(state) = keptByTLB
  BY SamePaging, StateIs DEF Abstract!translate, translate
<1>3. x \in Abstract!Stage(tlb, r.mode, r.va, r.need)
  BY StageIs
<1> HIDE DEF tlb, gpa, tab
<1>4. \/ ~x.ok /\ tables' = tab /\ keptByTLB' \subseteq keptByTLB \union {} /\ out' = <<r, {}>>
      \/ /\ x.ok /\ ~Abstract!doStage2(csr, tlb)
         /\ tables' = tab
         /\ keptByTLB' \subseteq keptByTLB \union Abstract!gained(x) /\ out' = <<r, {gpa}>>
      \/ /\ x.ok /\ Abstract!doStage2(csr, tlb)
         /\ \E x2 \in Abstract!Stage("VS2", r.mode, gpa, r.need) :
              /\ tables' = Abstract!marked(tab, "VS2", gpa, r.need, x2)
              /\ keptByTLB' \subseteq keptByTLB \union (Abstract!gained(x) \union Abstract!gained(x2))
              /\ out' = <<r, IF x2.ok THEN {Abstract!translate(x2.t, gpa)} ELSE {}>>
  <2>1. CASE ~x.ok
    BY <1>1, <1>2, <2>1 DEF tlb, gpa, tab
  <2>2. CASE x.ok /\ ~doStage2(csr, tlb)
    BY <1>1, <1>2, <2>2 DEF tlb, gpa, tab
  <2>3. CASE x.ok /\ doStage2(csr, tlb)
    <3>1. PICK x2 \in StageOf(state, "VS2", r.mode, gpa, r.need) :
            /\ o.st.tables = Abstract!marked(tab, "VS2", gpa, r.need, x2)
            /\ keptIn(o.st) \subseteq keptIn(state) \union (Abstract!gained(x) \union Abstract!gained(x2))
            /\ o.pa = IF x2.ok THEN {translate(x2.t, gpa)} ELSE {}
      BY <1>1, <2>3 DEF tlb, gpa, tab
    <3>2. x2 \in Abstract!Stage("VS2", r.mode, gpa, r.need)
      BY <3>1, StageIs
    <3> QED
      BY <1>2, <2>3, <3>1, <3>2
  <2> QED
    BY <2>1, <2>2, <2>3
<1>5. gpa = Abstract!translate(x.t, r.va)
  BY <1>2 DEF gpa
<1>6. LET atlb == Abstract!getCurrentTLBId(csr, r.mode)
          agpa == Abstract!translate(x.t, r.va)
          atab == Abstract!marked(tables, atlb, r.va, r.need, x)
      IN  /\ x \in Abstract!Stage(atlb, r.mode, r.va, r.need)
          /\ \/ ~x.ok /\ tables' = atab /\ keptByTLB' \subseteq keptByTLB \union {} /\ out' = <<r, {}>>
             \/ /\ x.ok /\ ~Abstract!doStage2(csr, atlb)
                /\ tables' = atab
                /\ keptByTLB' \subseteq keptByTLB \union Abstract!gained(x) /\ out' = <<r, {agpa}>>
             \/ /\ x.ok /\ Abstract!doStage2(csr, atlb)
                /\ \E x2 \in Abstract!Stage("VS2", r.mode, agpa, r.need) :
                     /\ tables' = Abstract!marked(atab, "VS2", agpa, r.need, x2)
                     /\ keptByTLB' \subseteq keptByTLB \union (Abstract!gained(x) \union Abstract!gained(x2))
                     /\ out' = <<r, IF x2.ok THEN {Abstract!translate(x2.t, agpa)} ELSE {}>>
  <2>1. tlb = Abstract!getCurrentTLBId(csr, r.mode)
    BY <1>2
  <2>2. tab = Abstract!marked(tables, tlb, r.va, r.need, x)
    BY DEF tab
  <2> QED
    BY ONLY <1>3, <1>4, <1>5, <2>1, <2>2
<1> QED
  BY ONLY <1>6, r \in config.requests, UNCHANGED <<config, csr>> DEF Abstract!Access

-----------------------------------------------------------------------------
(***************************************************************************)
(* Steps.                                                                  *)
(***************************************************************************)
\* The inductive invariant: the program is one of those looked at, the CSRs
\* have values it writes, and tables, entries, mappings and identifiers agree.
IInv ==
  /\ config \in Programs
  /\ csr \in config.csrs
  /\ StateOK(state)

\* What the program of a hart brings.
LEMMA ProgramIs ==
  ASSUME IInv
  PROVE  /\ csr \in SimASID /\ config.csrs \subseteq SimASID
         /\ config.pages \subseteq Nat
         /\ DOMAIN tables = DOMAIN config.tables /\ DOMAIN config.ptes = DOMAIN tables
         /\ \A k \in DOMAIN tables : \A pte \in config.ptes[k] :
              pte \in PTE /\ wholeBlocks(config, k, pte)
         /\ \A r \in config.requests :
              /\ r.mode \in Mode /\ r.va \in config.pages
              /\ activeTable(csr, getCurrentTLBId(csr, r.mode)) \in DOMAIN tables
              /\ doStage2(csr, getCurrentTLBId(csr, r.mode)) => activeTable(csr, "VS2") \in DOMAIN tables
<1>1. config \in Programs /\ csr \in config.csrs /\ DOMAIN tables = DOMAIN config.tables
  BY StateIs DEF IInv, StateOK, TablesOK
<1>2. config.csrs \subseteq SimASID /\ config.pages \subseteq Nat /\ DOMAIN config.ptes = DOMAIN config.tables
  BY <1>1, ProgramsAssumption
<1>3. \A k \in DOMAIN config.tables : \A pte \in config.ptes[k] : pte \in PTE /\ wholeBlocks(config, k, pte)
  BY <1>1, ProgramsAssumption
<1>4. \A r \in config.requests : r.mode \in Mode /\ r.va \in config.pages
  BY <1>1, ProgramsAssumption
<1>5. \A r \in config.requests :
        /\ activeTable(csr, getCurrentTLBId(csr, r.mode)) \in DOMAIN config.tables
        /\ doStage2(csr, getCurrentTLBId(csr, r.mode)) => activeTable(csr, "VS2") \in DOMAIN config.tables
  BY <1>1, ProgramsAssumption
<1> QED
  BY <1>1, <1>2, <1>3, <1>4, <1>5

\* A hart starts without entries and mappings.
LEMMA InitIInv == Init => IInv
<1> SUFFICES ASSUME Init PROVE IInv
  OBVIOUS
<1>1. config \in Programs /\ csr \in config.csrs
  BY ProgramsAssumption DEF Init
<1>2. TablesOK(state)
  <2>1. DOMAIN tables = DOMAIN config.tables /\ tables = config.tables
    BY DEF Init
  <2>2. \A k \in DOMAIN config.tables : TableOK(k, config.tables[k])
    BY <1>1, ProgramsAssumption DEF TableOK
  <2> QED
    BY <2>1, <2>2, StateIs DEF TablesOK
<1>3. EntriesOK(state) /\ MapsOK(state)
  BY StateIs DEF Init, EntriesOK, MapsOK
<1>4. CacheOK(state)
  <2>1. config.ASID_cache_size \in Nat
    BY <1>1, ProgramsAssumption
  <2>2. /\ ASIDCache = [tlb \in TLBId |-> <<>>] /\ ASIDCacheSize = [tlb \in TLBId |-> config.ASID_cache_size]
        /\ entries = {}
    BY DEF Init
  <2>3. <<>> \in Seq(Nat \X Nat) /\ Len(<<>>) = 0
    OBVIOUS
  <2> QED
    BY <2>1, <2>2, <2>3, StateIs DEF CacheOK
<1> QED
  BY <1>1, <1>2, <1>3, <1>4, StateIs DEF IInv, StateOK

\* What a step leaves satisfies the invariant, and the abstract hart keeps what
\* the new entries translate.
LEMMA Become ==
  ASSUME NEW s, StateOK(s), become(s), UNCHANGED config
  PROVE  StateOK(state)' /\ keptByTLB' = keptIn(s)
<1>1. /\ tables' = s.tables /\ entries' = s.entries /\ maps' = s.maps
      /\ ASIDCache' = s.cache /\ ASIDCacheSize' = s.size
  BY DEF become
<1>2. /\ IsState(state') /\ state'.tables = s.tables /\ state'.entries = s.entries
      /\ state'.maps = s.maps /\ state'.cache = s.cache /\ state'.size = s.size
  BY <1>1 DEF state, IsState
<1>4. \A e, m : Grants(e, m)' <=> Grants(e, m)
  BY DEF Grants
<1>5. /\ \A e : EntryOK(e)' <=> EntryOK(e)
      /\ \A e, m : FirstStage(e, m)' <=> FirstStage(e, m)
      /\ \A e1, e2, m : SecondStage(e1, e2, m)' <=> SecondStage(e1, e2, m)
      /\ \A k, table : TableOK(k, table)' <=> TableOK(k, table)
  BY <1>4 DEF EntryOK, FirstStage, SecondStage, TableOK
<1>6. TablesOK(state)' /\ EntriesOK(state)' /\ CacheOK(state)'
  BY <1>2, <1>5 DEF StateOK, TablesOK, EntriesOK, CacheOK
<1>7. MapsOK(state)'
  BY <1>2, <1>5 DEF StateOK, MapsOK, Served
<1>3. StateOK(state)'
  BY <1>2, <1>6, <1>7 DEF StateOK, IsState
<1> QED
  BY <1>1, <1>3 DEF keptByTLB, keptIn, translationOf, getEntryVMID, getEntryASID

\* A write of a CSR field changes nothing the invariant is about.
LEMMA SetASIDStep ==
  ASSUME IInv, NEW new \in config.csrs, riscvVMSetASID(new)
  PROVE  IInv' /\ Abstract!WriteCSR
<1>1. /\ UNCHANGED <<config, tables, entries, maps, ASIDCache, ASIDCacheSize>>
      /\ csr' = new /\ out' = NoAccess
  BY DEF riscvVMSetASID
<1>2. StateOK(state) /\ become(state)
  BY <1>1, StateIs DEF IInv, become
<1>3. StateOK(state)' /\ keptByTLB' = keptIn(state)
  BY <1>1, <1>2, Become
<1>4. IInv'
  BY <1>1, <1>3 DEF IInv
<1>5. Abstract!WriteCSR
  BY <1>1, <1>3, StateIs DEF Abstract!WriteCSR, Abstract!NoAccess, NoAccess
<1> QED
  BY <1>4, <1>5

\* A write of a page table.
LEMMA WritePTEStep ==
  ASSUME IInv, NEW k \in DOMAIN tables, NEW va \in config.pages, NEW pte \in config.ptes[k],
         WritePTE(k, va, pte)
  PROVE  IInv' /\ Abstract!WritePTE
<1> DEFINE s == [state EXCEPT !.tables = [tables EXCEPT ![k] = writePTE(@, va, pte)]]
<1>1. /\ UNCHANGED <<config, csr, entries, maps, ASIDCache, ASIDCacheSize>>
      /\ tables' = [tables EXCEPT ![k] = writePTE(tables[k], va, pte)] /\ out' = NoAccess
  BY DEF WritePTE
<1>2. /\ IsState(s) /\ s.tables = [tables EXCEPT ![k] = writePTE(tables[k], va, pte)]
      /\ s.entries = entries /\ s.maps = maps /\ s.cache = ASIDCache /\ s.size = ASIDCacheSize
  BY StateIs DEF IsState
<1> HIDE DEF s
<1>3. pte \in PTE /\ wholeBlocks(config, k, pte) /\ DOMAIN config.ptes = DOMAIN tables
  BY ProgramIs
<1>4. TableOK(k, writePTE(tables[k], va, pte))
  <2>1. TableOK(k, tables[k])
    BY StateIs DEF IInv, StateOK, TablesOK
  <2> QED
    BY <1>3, <2>1, TableWritten
<1>5. StateOK(s)
  <2>1. TablesOK(s)
    BY <1>2, <1>4, StateIs DEF IInv, StateOK, TablesOK
  <2>2. EntriesOK(s) /\ MapsOK(s) /\ CacheOK(s)
    BY <1>2, StateIs DEF IInv, StateOK, EntriesOK, MapsOK, CacheOK
  <2> QED
    BY <1>2, <2>1, <2>2 DEF StateOK
<1>6. become(s)
  BY <1>1, <1>2 DEF become
<1>7. StateOK(state)' /\ keptByTLB' = keptIn(s)
  BY <1>1, <1>5, <1>6, Become
<1>8. IInv'
  BY <1>1, <1>7 DEF IInv
<1>9. keptByTLB' = keptByTLB
  BY <1>2, <1>7 DEF keptIn, keptByTLB
<1>10. tables' = [tables EXCEPT ![k] = Abstract!writePTE(tables[k], va, pte)]
  BY <1>1, SamePaging
<1>11. pte \in UNION {config.ptes[j] : j \in DOMAIN tables}
  OBVIOUS
<1>12. Abstract!WritePTE
  BY <1>1, <1>9, <1>10, <1>11 DEF Abstract!WritePTE, Abstract!NoAccess, NoAccess
<1> QED
  BY <1>8, <1>12

\* A fence leaves no translation it covers.
LEMMA FenceStep ==
  ASSUME IInv, NEW f \in config.fences, Fence(f)
  PROVE  IInv' /\ Abstract!Fence
<1> DEFINE mask == deleteTLBEntryMask(f, entries)
           s1 == deleteTLBEntries(state, mask)
           guests == guestEntries(f, s1.entries)
           s2 == deleteTLBEntries(s1, guests)
<1>1. UNCHANGED <<config, csr>> /\ out' = NoAccess /\ become(s2)
  BY StateIs DEF Fence, deleteTLBEntriesMask
<1>2. mask \subseteq entries
  BY DEF deleteTLBEntryMask
<1>3. guests \subseteq s1.entries
  BY DEF guestEntries
<1>a. StateOK(state)
  BY DEF IInv
<1>b. \A e \in entries \ mask : ~Abstract!covers(f, translationOf(e))
  <2> SUFFICES ASSUME NEW e \in entries, Abstract!covers(f, translationOf(e))
               PROVE  e \in mask
    OBVIOUS
  <2> DEFINE t == translationOf(e)
  <2>1. /\ t.tlb = e.tlb /\ t.low = e.low /\ t.size = e.size /\ t.vmid = getEntryVMID(e)
        /\ t.G = e.G /\ (~e.G => t.asid = getEntryASID(e)) /\ e.tlb \in {"HS", "VS1", "VS2"}
    BY <1>a, StateIs DEF translationOf, StateOK, EntriesOK, EntryOK, EntryRec, TLBId
  <2> HIDE DEF t
  <2>2. /\ e.tlb = f.tlb
        /\ f.va = {} \/ f.va \intersect pagesOf(e) # {}
        /\ f.id = {} \/ (IF f.tlb = "VS2" THEN getEntryVMID(e) \in f.id
                                          ELSE ~e.G /\ getEntryASID(e) \in f.id)
        /\ f.tlb = "VS1" => getEntryVMID(e) = csr.VMID
    BY <2>1, SamePaging DEF Abstract!covers, t, pagesOf
  <2> QED
    BY <2>1, <2>2 DEF deleteTLBEntryMask
<1> HIDE DEF mask
<1>4. /\ IsState(s1) /\ EntriesOK(s1) /\ MapsOK(s1)
      /\ s1.tables = tables /\ s1.cache = ASIDCache /\ s1.size = ASIDCacheSize
      /\ \A e \in s1.entries : \E e0 \in entries \ mask : e = e0 \/ e = unmapped(e0)
  BY <1>2, <1>a, StateIs, DeleteKeeps DEF StateOK
<1>5. CacheOK(s1)
  BY <1>4, <1>a, StateIs, CacheKept DEF StateOK
<1> HIDE DEF s1, guests
<1>6. /\ IsState(s2) /\ EntriesOK(s2) /\ MapsOK(s2)
      /\ s2.tables = s1.tables /\ s2.cache = s1.cache /\ s2.size = s1.size
      /\ \A e \in s2.entries : \E e0 \in s1.entries \ guests : e = e0 \/ e = unmapped(e0)
  BY <1>3, <1>4, DeleteKeeps
<1> HIDE DEF s2
<1>7. CacheOK(s2)
  BY <1>4, <1>5, <1>6, CacheKept
<1>8. StateOK(s2)
  BY <1>4, <1>6, <1>7, <1>a, StateIs DEF StateOK, TablesOK
<1>9. keptIn(s2) \subseteq {t \in keptByTLB : ~Abstract!covers(f, t)}
  <2> SUFFICES ASSUME NEW e \in s2.entries
               PROVE  translationOf(e) \in keptByTLB /\ ~Abstract!covers(f, translationOf(e))
    BY DEF keptIn
  <2>1. PICK e1 \in s1.entries : e = e1 \/ e = unmapped(e1)
    BY <1>6
  <2>2. PICK e0 \in entries \ mask : e1 = e0 \/ e1 = unmapped(e0)
    BY <1>4
  <2>3. translationOf(e) = translationOf(e1)
    BY <1>4, <2>1, UnmappedEntry DEF EntriesOK
  <2>4. translationOf(e1) = translationOf(e0)
    BY <1>a, <2>2, StateIs, UnmappedEntry DEF StateOK, EntriesOK
  <2> QED
    BY <1>b, <2>2, <2>3, <2>4 DEF keptByTLB
<1>10. StateOK(state)' /\ keptByTLB' = keptIn(s2)
  BY <1>1, <1>8, Become
<1>11. tables' = tables
  BY <1>1, <1>4, <1>6 DEF become
<1>12. IInv'
  BY <1>1, <1>10 DEF IInv
<1>13. Abstract!Fence
  BY <1>1, <1>9, <1>10, <1>11 DEF Abstract!Fence, Abstract!NoAccess, NoAccess
<1> QED
  BY <1>12, <1>13

\* An access that comes to the model.
LEMMA MissStep ==
  ASSUME IInv, NEW r \in config.requests, Miss(r)
  PROVE  IInv' /\ Abstract!Access
<1>1. PICK o \in tlbMiss(r.mode, r.va, r.need) : become(o.st) /\ out' = <<r, o.pa>>
  BY DEF Miss
<1>2. UNCHANGED <<config, csr>>
  BY DEF Miss
<1>3. StateOK(o.st) /\ AccessBy(r.mode, r.va, r.need, o)
  BY ProgramIs, MissKeeps DEF IInv
<1>4. StateOK(state)' /\ keptByTLB' = keptIn(o.st) /\ tables' = o.st.tables
  BY <1>1, <1>2, <1>3, Become DEF become
<1>5. IInv'
  BY <1>2, <1>4 DEF IInv
<1>6. Abstract!Access
  BY <1>1, <1>2, <1>3, <1>4, AccessIs
<1> QED
  BY <1>5, <1>6

\* An access that a mapping serves is one that its entries could serve: the
\* fields it carries are the present ones.
LEMMA HitStep ==
  ASSUME IInv, NEW r \in config.requests, Hit(r)
  PROVE  IInv' /\ Abstract!Access
<1>1. PICK m \in granting(r) : out' = <<r, {m.pa}>>
  BY DEF Hit
<1>2. UNCHANGED <<config, csr, tables, entries, maps, ASIDCache, ASIDCacheSize>>
  BY DEF Hit
<1>3. /\ m \in maps /\ m.mode = r.mode /\ m.va = r.va /\ r.need \in m.priv
      /\ \A f \in DOMAIN m.asid : m.asid[f] = csr[f]
  BY DEF granting, inForce
<1>4. StateOK(state) /\ r.mode \in Mode /\ csr \in SimASID
  BY ProgramIs DEF IInv
<1>5. PICK e1 \in entries :
        /\ FirstStage(e1, m)
        /\ IF e1.tlb = "VS1" /\ m.asid.S2 THEN \E e2 \in entries : SecondStage(e1, e2, m)
                                          ELSE m.pa = translate(e1, m.va)
  BY <1>3, <1>4, StateIs DEF StateOK, MapsOK, Served
<1>6. EntryOK(e1) /\ e1.tlb \in {"HS", "VS1", "VS2"} /\ r.mode \in modesOf(e1.tlb)
  BY <1>3, <1>4, <1>5, StateIs DEF StateOK, EntriesOK, EntryOK, EntryRec, TLBId, FirstStage
<1>7. modeIsVirtual(r.mode) <=> e1.tlb # "HS"
  BY <1>6 DEF modesOf, modeIsVirtual
<1>8. \A f \in getEntryASIDMask(e1, r.mode) : m.asid[f] = csr[f] /\ e1.simASID[f] = csr[f]
  BY <1>3, <1>5 DEF FirstStage
<1>9. e1.tlb # "HS" => m.asid.S1 = csr.S1 /\ m.asid.S2 = csr.S2 /\ e1.simASID.VMID = csr.VMID
  BY <1>7, <1>8 DEF getEntryASIDMask
<1> DEFINE tlb == getCurrentTLBId(csr, r.mode)
<1>10. e1.tlb = tlb
  BY <1>3, <1>5, <1>6, <1>7, <1>9 DEF FirstStage, getCurrentTLBId
<1>11. e1 \in findTLBEntries(state, tlb, r.va)
  <2>1. getEntryVMID(e1) = getActiveVMID(csr, tlb)
    BY <1>6, <1>9, <1>10 DEF getEntryVMID, getActiveVMID
  <2>2. e1.G \/ getEntryASID(e1) = getActiveASID(csr, tlb)
    BY <1>6, <1>7, <1>8, <1>10 DEF getEntryASIDMask, getEntryASID, getActiveASID
  <2> HIDE DEF tlb
  <2> QED
    BY <1>3, <1>5, <1>10, <2>1, <2>2, StateIs DEF findTLBEntries, FirstStage
<1> DEFINE x == useOf(e1, r.mode, r.need)
           o == [st |-> state, pa |-> {m.pa}]
           gpa == translate(x.t, r.va)
<1>12. /\ x \in StageOf(state, tlb, r.mode, r.va, r.need)
       /\ x.t = translationOf(e1) /\ ~x.walked
  BY <1>11 DEF StageOf, useOf
<1> HIDE DEF tlb
<1>13. x.ok
  <2>1. getEntryPriv(config, m.asid, e1.tlb, r.mode, e1) = getEntryPriv(config, csr, e1.tlb, r.mode, e1)
    BY <1>6, <1>8, PrivDepends
  <2>2. r.need \in getEntryPriv(config, csr, e1.tlb, r.mode, e1) /\ (r.need = "W" => e1.D)
    BY <1>3, <1>5, <2>1 DEF FirstStage, Grants
  <2> QED
    BY <2>2, PermitsIff DEF useOf
<1>14. gpa = translate(e1, m.va)
  BY <1>3, <1>12 DEF translate, translationOf
<1> HIDE DEF gpa, x
<1>15. /\ Abstract!marked(tables, tlb, r.va, r.need, x) = tables
       /\ o.st = state /\ o.st.tables = tables /\ keptIn(o.st) = keptIn(state) /\ o.pa = {m.pa}
  BY <1>12, StateIs DEF Abstract!marked
<1> HIDE DEF o
<1>16. AccessBy(r.mode, r.va, r.need, o)
  <2>1. CASE ~doStage2(csr, tlb)
    <3>1. m.pa = gpa
      BY <1>5, <1>9, <1>10, <1>14, <2>1 DEF doStage2
    <3> QED
      BY <1>12, <1>13, <1>15, <2>1, <3>1 DEF AccessBy, tlb, gpa
  <2>2. CASE doStage2(csr, tlb)
    <3>1. e1.tlb = "VS1" /\ m.asid.S2 /\ r.mode \in modesOf("VS2")
      BY <1>6, <1>9, <1>10, <2>2 DEF doStage2, modesOf
    <3>2. PICK e2 \in entries : SecondStage(e1, e2, m)
      BY <1>5, <3>1
    <3>3. EntryOK(e2) /\ e2.tlb = "VS2"
      BY <1>4, <3>2, StateIs DEF StateOK, EntriesOK, SecondStage
    <3>4. e2 \in findTLBEntries(state, "VS2", gpa)
      <4>1. getEntryVMID(e2) = getActiveVMID(csr, "VS2")
        BY <1>9, <3>1, <3>2 DEF SecondStage, getEntryVMID, getActiveVMID
      <4> QED
        BY <1>14, <3>2, <3>3, <4>1, StateIs DEF findTLBEntries, SecondStage, EntryOK
    <3> DEFINE x2 == useOf(e2, r.mode, r.need)
    <3>5. /\ x2 \in StageOf(state, "VS2", r.mode, gpa, r.need)
          /\ x2.t = translationOf(e2) /\ ~x2.walked
      BY <3>4 DEF StageOf, useOf
    <3>6. x2.ok
      <4>1. \A f \in getEntryASIDMask(e2, r.mode) : m.asid[f] = csr[f]
        <5>1. r.mode \in {"VU", "VS"} /\ "VS1" = e1.tlb
          BY <3>1 DEF modesOf
        <5>2. {"MXR_HS", "VMID", "MXR_VS", "S1", "S2"} \subseteq getEntryASIDMask(e1, r.mode)
          BY <5>1 DEF getEntryASIDMask, modeIsVirtual
        <5> QED
          BY <1>8, <3>3, <5>1, <5>2, SecondMask
      <4>2. getEntryPriv(config, m.asid, "VS2", r.mode, e2) = getEntryPriv(config, csr, "VS2", r.mode, e2)
        BY <3>1, <3>3, <4>1, PrivDepends
      <4>3. r.need \in getEntryPriv(config, csr, e2.tlb, r.mode, e2) /\ (r.need = "W" => e2.D)
        BY <1>3, <3>2, <3>3, <4>2 DEF SecondStage, Grants
      <4> QED
        BY <4>3, PermitsIff DEF useOf
    <3>7. m.pa = translate(x2.t, gpa)
      BY <1>14, <3>2, <3>5 DEF SecondStage, translate, translationOf
    <3> HIDE DEF x2
    <3>8. Abstract!marked(tables, "VS2", gpa, r.need, x2) = tables
      BY <3>5 DEF Abstract!marked
    <3> QED
      BY <1>12, <1>13, <1>15, <2>2, <3>5, <3>6, <3>7, <3>8 DEF AccessBy, tlb, gpa
  <2> QED
    BY <2>1, <2>2
<1>17. become(state)
  BY <1>2, StateIs DEF become
<1>18. StateOK(state)' /\ keptByTLB' = keptIn(o.st) /\ tables' = o.st.tables
  BY <1>2, <1>4, <1>15, <1>17, Become
<1>19. IInv'
  BY <1>2, <1>18 DEF IInv
<1>20. Abstract!Access
  BY <1>1, <1>2, <1>15, <1>16, <1>18, AccessIs
<1> QED
  BY <1>19, <1>20

\* Every step keeps the invariant and is one of Mmu or changes nothing there.
LEMMA NextStep == IInv /\ [Next]_vars => IInv' /\ [Abstract!Next]_(Abstract!vars)
<1> SUFFICES ASSUME IInv, [Next]_vars
             PROVE  IInv' /\ [Abstract!Next]_(Abstract!vars)
  OBVIOUS
<1>1. ASSUME NEW r \in config.requests, Hit(r) \/ Miss(r)
      PROVE  IInv' /\ Abstract!Access
  BY <1>1, HitStep, MissStep
<1>2. ASSUME NEW f \in config.fences, Fence(f)
      PROVE  IInv' /\ Abstract!Fence
  BY <1>2, FenceStep
<1>3. ASSUME NEW new \in config.csrs, riscvVMSetASID(new)
      PROVE  IInv' /\ Abstract!WriteCSR
  BY <1>3, SetASIDStep
<1>4. ASSUME NEW k \in DOMAIN tables, NEW va \in config.pages, NEW pte \in config.ptes[k],
             WritePTE(k, va, pte)
      PROVE  IInv' /\ Abstract!WritePTE
  BY <1>4, WritePTEStep
<1>5. CASE UNCHANGED vars
  <2>1. UNCHANGED <<config, csr, tables, entries, maps, ASIDCache, ASIDCacheSize, out>>
    BY <1>5 DEF vars
  <2>2. become(state) /\ StateOK(state)
    BY <2>1, StateIs DEF become, IInv
  <2>3. StateOK(state)' /\ keptByTLB' = keptByTLB
    BY <2>1, <2>2, StateIs, Become
  <2> QED
    BY <2>1, <2>3 DEF IInv, Abstract!vars
<1> QED
  BY <1>1, <1>2, <1>3, <1>4, <1>5 DEF Next, Abstract!Next

\* The invariant of the translations, entries and mappings of a hart.
THEOREM AlwaysIInv == Spec => []IInv
<1>1. IInv /\ [Next]_vars => IInv'
  BY NextStep
<1> QED
  BY <1>1, InitIInv, PTL DEF Spec

\* For any hart and program, TLB entries and mappings are well formed, and no
\* TLB knows more identifiers than its cache has room for (insertMRU).
THEOREM TypeCorrect == Spec => []TypeOK
<1>1. IInv => TypeOK
  <2> SUFFICES ASSUME IInv PROVE TypeOK
    OBVIOUS
  <2>1. \A f \in DOMAIN csr : csr[f] \in {c[f] : c \in config.csrs}
    BY DEF IInv
  <2>2. \A k \in DOMAIN tables : tables[k] \in [config.pages -> PTE]
    BY StateIs DEF IInv, StateOK, TablesOK, TableOK
  <2>3. ASSUME NEW e \in entries
        PROVE  /\ DOMAIN e = {"tlb", "low", "size", "ppn", "priv", "U", "G", "D", "simASID", "mapped"}
               /\ e.tlb \in TLBId /\ e.mapped \subseteq modesOf(e.tlb)
               /\ DOMAIN e.simASID = fieldsOf(e.tlb)
    <3>1. EntryOK(e)
      BY StateIs DEF IInv, StateOK, EntriesOK
    <3>2. DOMAIN e = {"tlb", "low", "size", "ppn", "priv", "U", "G", "D", "simASID", "mapped"}
      BY <3>1 DEF EntryOK, EntryRec
    <3> QED
      BY <3>1, <3>2, EntryFields DEF EntryOK, EntryRec
  <2>4. \A m \in maps : m.mode \in Mode /\ m.va \in config.pages /\ m.priv \subseteq Priv
    BY StateIs DEF IInv, StateOK, MapsOK
  <2>5. \A tlb \in TLBId : Len(ASIDCache[tlb]) <= ASIDCacheSize[tlb]
    BY StateIs DEF IInv, StateOK, CacheOK
  <2> QED
    BY <2>1, <2>2, <2>3, <2>4, <2>5 DEF TypeOK
<1> QED
  BY <1>1, AlwaysIInv, PTL

\* For any hart and program, every installed mapping has the live entries that
\* translate it, and is found from them when they are deleted.
THEOREM NoMappingOrphaned == Spec => []NoOrphanMapping
<1>1. IInv => NoOrphanMapping
  <2> SUFFICES ASSUME IInv, NEW m \in maps
               PROVE  \E e1 \in entries :
                        /\ owns(e1, m)
                        /\ IF e1.tlb = "VS1" /\ m.asid.S2
                           THEN \E e2 \in entries :
                                  /\ e2.tlb = "VS2" /\ usesS2(e1, e2)
                                  /\ translate(e1, m.va) \in pagesOf(e2)
                                  /\ m.pa = translate(e2, translate(e1, m.va))
                           ELSE m.pa = translate(e1, m.va)
    BY DEF NoOrphanMapping
  <2>1. PICK e1 \in entries :
          /\ FirstStage(e1, m)
          /\ IF e1.tlb = "VS1" /\ m.asid.S2 THEN \E e2 \in entries : SecondStage(e1, e2, m)
                                            ELSE m.pa = translate(e1, m.va)
    BY StateIs DEF IInv, StateOK, MapsOK, Served
  <2>2. owns(e1, m)
    BY <2>1 DEF owns, aliases, FirstStage
  <2>3. \A e \in entries : EntryOK(e)
    BY StateIs DEF IInv, StateOK, EntriesOK
  <2>4. CASE e1.tlb = "VS1" /\ m.asid.S2
    <3>1. PICK e2 \in entries : SecondStage(e1, e2, m)
      BY <2>1, <2>4
    <3>2. usesS2(e1, e2)
      BY <2>1, <2>3, <2>4, <3>1, FoundFromSecond
    <3> QED
      BY <2>2, <2>4, <3>1, <3>2 DEF SecondStage
  <2>5. CASE ~(e1.tlb = "VS1" /\ m.asid.S2)
    BY <2>1, <2>2, <2>5
  <2> QED
    BY <2>4, <2>5
<1> QED
  BY <1>1, AlwaysIInv, PTL

\* For any hart and program, the identifier of an entry that is not global is
\* in the cache of its TLB (promoteASIDMRU).
THEOREM EntriesAreCached == Spec => []EntriesCached
<1>1. IInv => EntriesCached
  <2> SUFFICES ASSUME IInv, NEW e \in entries, ~e.G, ASIDCacheSize[e.tlb] > 0
               PROVE  \E i \in DOMAIN ASIDCache[e.tlb] :
                        ASIDCache[e.tlb][i] = <<getEntryVMID(e), getEntryASID(e)>>
    BY DEF EntriesCached
  <2>1. <<getEntryVMID(e), getEntryASID(e)>> \in ToSet(ASIDCache[e.tlb])
    BY StateIs DEF IInv, StateOK, CacheOK
  <2> QED
    BY <2>1 DEF ToSet
<1> QED
  BY <1>1, AlwaysIInv, PTL

\* For any hart and program, the TLBs, mappings, tags and ASID caches implement
\* Mmu: each access, also one a mapping serves, uses what a walk yielded since
\* the last fence that covers it, under the present CSRs.
THEOREM ImplementsMmu == Spec => FenceContract
<1>1. Init => Abstract!Init
  BY DEF Init, Abstract!Init, keptByTLB, Abstract!NoAccess, NoAccess
<1>2. IInv /\ [Next]_vars => [Abstract!Next]_(Abstract!vars)
  BY NextStep
<1> QED
  BY <1>1, <1>2, AlwaysIInv, PTL DEF Spec, FenceContract, Abstract!Spec
=============================================================================
