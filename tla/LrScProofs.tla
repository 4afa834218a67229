----------------------------- MODULE LrScProofs -----------------------------
(***************************************************************************)
(* Proofs about LR/SC, for any harts, granules, accesses and               *)
(* configurations.                                                         *)
(***************************************************************************)
EXTENDS LrScProperties, TLAPS

(***************************************************************************)
(* Types                                                                   *)
(***************************************************************************)

\* What a configuration holds.
LEMMA ConfigType ==
  ASSUME TypeOK
  PROVE  /\ config.grain \in Nat \ {0} /\ config.offset \in Nat
         /\ config.match_size \in BOOLEAN /\ config.amo_aborts \in BOOLEAN
         /\ config.trap_preserves \in BOOLEAN /\ config.xret_preserves \in BOOLEAN
<1>1. config \in Config
  BY LrScAssumption DEF TypeOK
<1> QED
  BY <1>1 DEF Config

\* Granule addresses and tags are natural numbers.
LEMMA TagType ==
  ASSUME TypeOK, NEW a \in Accesses
  PROVE  /\ granuleLow(a[1]) \in Nat
         /\ generateEATag(a) \in Nat
<1>1. a[1] \in Nat
  BY LrScAssumption
<1>2. granuleLow(a[1]) \in Nat
  BY <1>1, ConfigType, SMT DEF granuleLow
<1> QED
  BY <1>2 DEF generateEATag

\* Watches are well formed.
LEMMA WatchType ==
  ASSUME TypeOK, NEW m \in {"M", "S"}, NEW t \in Nat
  PROVE  watchOf(m, t) \in Watch
<1>1. t + config.grain - 1 \in Nat
  BY ConfigType
<1> QED
  BY <1>1 DEF watchOf, Watch

\* Physical bytes are natural numbers.
LEMMA PhysType ==
  ASSUME TypeOK, NEW m, NEW bs \in SUBSET Nat
  PROVE  phys(m, bs) \subseteq Nat
<1>1. \A b \in bs : b + config.offset \in Nat
  BY ConfigType
<1> QED
  BY <1>1 DEF phys

\* A store preserves the types.
LEMMA StoreType ==
  ASSUME TypeOK, NEW h \in Harts, NEW bs,
         NEW tags \in [Harts -> Nat \union {NoTag}], NEW t \in Nat \union {NoTag},
         store(h, bs, tags, t)
  PROVE  TypeOK'
<1> USE DEF TypeOK
<1> DEFINE hs == {x \in triggered(bs) : tags[x] # NoTag}
<1>1. /\ exclusiveTag' = [x \in Harts |-> IF x \in hs THEN NoTag ELSE IF x = h THEN t ELSE tags[x]]
      /\ watch' = [x \in Harts |-> IF x \in hs THEN watch[x] \ {watchOf(mode[x], tags[x])}
                                   ELSE watch[x]]
      /\ waiting' = [x \in Harts |-> waiting[x] /\ x \notin hs]
      /\ written' = [x \in Harts |-> written[x] \/ (x # h /\ granule[x] \intersect bs # {})]
      /\ UNCHANGED <<config, running, mode, granule>>
  BY DEF store
<1> HIDE DEF hs
<1>2. exclusiveTag' \in [Harts -> Nat \union {NoTag}]
  BY <1>1
<1>3. waiting' \in [Harts -> BOOLEAN] /\ written' \in [Harts -> BOOLEAN]
  BY <1>1, Zenon
<1>4. watch' \in [Harts -> SUBSET Watch]
  BY <1>1
<1>5. \A x \in running' : ~waiting'[x]
  BY <1>1
<1>6. config' \in Configs /\ (\E x \in Harts : running' \subseteq {x}) /\ mode' \in [Harts -> {"M", "S"}]
  BY <1>1
<1>7. granule' \in [Harts -> SUBSET Nat]
  BY <1>1
<1> QED
  BY <1>2, <1>3, <1>4, <1>5, <1>6, <1>7

\* Installing a watch preserves its type.
LEMMA InstalledType ==
  ASSUME TypeOK, NEW h \in Harts, watch' = installed(h)
  PROVE  watch' \in [Harts -> SUBSET Watch]
<1>1. CASE exclusiveTag[h] = NoTag
  BY <1>1 DEF TypeOK, installed
<1>2. CASE exclusiveTag[h] # NoTag
  <2>1. watchOf(mode[h], exclusiveTag[h]) \in Watch
    BY <1>2, WatchType DEF TypeOK
  <2>2. watch' = [watch EXCEPT ![h] = @ \union {watchOf(mode[h], exclusiveTag[h])}]
    BY <1>2 DEF installed
  <2> QED
    BY <2>1, <2>2 DEF TypeOK
<1> QED
  BY <1>1, <1>2

\* Every step preserves the types.
LEMMA NextType ==
  ASSUME TypeOK, [Next]_vars
  PROVE  TypeOK'
<1>1. CASE UNCHANGED vars
  BY <1>1 DEF vars, TypeOK
<1>2. ASSUME NEW h \in Harts, NEW a \in Accesses, LR(h, a)
      PROVE  TypeOK'
  <2>1. generateEATag(a) \in Nat /\ granuleLow(a[1]) \in Nat
    BY TagType
  <2>2. granuleLow(a[1])..(granuleLow(a[1]) + config.grain - 1) \in SUBSET Nat
    BY <2>1, ConfigType
  <2>3. phys(mode[h], granuleLow(a[1])..(granuleLow(a[1]) + config.grain - 1)) \in SUBSET Nat
    BY <2>2, PhysType
  <2> QED
    BY <1>2, <2>1, <2>3 DEF LR, TypeOK
<1>3. ASSUME NEW h \in Harts, NEW a \in Accesses, SC(h, a)
      PROVE  TypeOK'
  <2>1. CASE store(h, phys(mode[h], bytesOf(a)), exclusiveTag, NoTag)
    <3>1. exclusiveTag \in [Harts -> Nat \union {NoTag}]
      BY DEF TypeOK
    <3> QED
      BY <2>1, <3>1, StoreType
  <2>2. CASE /\ exclusiveTag' = [exclusiveTag EXCEPT ![h] = NoTag]
             /\ UNCHANGED <<config, running, mode, watch, waiting, granule, written>>
    BY <2>2 DEF TypeOK
  <2> QED
    BY <1>3, <2>1, <2>2 DEF SC
<1>4. ASSUME NEW h \in Harts, NEW a \in Accesses, Store(h, a)
      PROVE  TypeOK'
  <2>1. exclusiveTag \in [Harts -> Nat \union {NoTag}] /\ exclusiveTag[h] \in Nat \union {NoTag}
    BY DEF TypeOK
  <2> QED
    BY <1>4, <2>1, StoreType DEF Store
<1>5. ASSUME NEW h \in Harts, NEW a \in Accesses, AMO(h, a)
      PROVE  TypeOK'
  <2> DEFINE tags == IF config.amo_aborts THEN [exclusiveTag EXCEPT ![h] = NoTag] ELSE exclusiveTag
  <2>1. tags \in [Harts -> Nat \union {NoTag}] /\ tags[h] \in Nat \union {NoTag}
    BY DEF TypeOK
  <2>2. store(h, phys(mode[h], bytesOf(a)), tags, tags[h])
    BY <1>5 DEF AMO
  <2> HIDE DEF tags
  <2> QED
    BY <2>1, <2>2, StoreType
<1>6. ASSUME NEW h \in Harts, Trap(h) \/ XRET(h) \/ SCValidPortCB(h)
      PROVE  TypeOK'
  BY <1>6 DEF Trap, XRET, SCValidPortCB, TypeOK
<1>7. ASSUME NEW h \in Harts, Suspend(h)
      PROVE  TypeOK'
  <2>1. watch' \in [Harts -> SUBSET Watch]
    BY <1>7, InstalledType DEF Suspend
  <2> QED
    BY <1>7, <2>1 DEF Suspend, TypeOK
<1>8. ASSUME NEW h \in Harts, Resume(h)
      PROVE  TypeOK'
  <2>1. watch' \in [Harts -> SUBSET Watch]
    BY <1>8 DEF Resume, TypeOK
  <2> QED
    BY <1>8, <2>1 DEF Resume, TypeOK
<1>9. ASSUME NEW h \in Harts, WRS(h)
      PROVE  TypeOK'
  <2>1. watch' \in [Harts -> SUBSET Watch]
    BY <1>9, InstalledType DEF WRS
  <2>2. waiting' \in [Harts -> BOOLEAN]
    BY <1>9 DEF WRS, TypeOK
  <2> QED
    BY <1>9, <2>1, <2>2 DEF WRS, TypeOK
<1>10. ASSUME NEW h \in Harts, WaitEnds(h) \/ riscvReset(h)
      PROVE  TypeOK'
  <2>1. waiting' \in [Harts -> BOOLEAN] /\ \A x \in Harts : waiting'[x] => waiting[x]
    BY <1>10 DEF WaitEnds, riscvReset, TypeOK
  <2>2. /\ config' = config /\ running' = running /\ watch' = watch
        /\ granule' = granule /\ written' = written
        /\ mode' \in [Harts -> {"M", "S"}] /\ exclusiveTag' \in [Harts -> Nat \union {NoTag}]
    BY <1>10 DEF WaitEnds, riscvReset, TypeOK
  <2> QED
    BY <2>1, <2>2 DEF TypeOK
<1> QED
  BY <1>1, <1>2, <1>3, <1>4, <1>5, <1>6, <1>7, <1>8, <1>9, <1>10 DEF Next

\* LR/SC keeps its types: tags and watches are addresses, at most one hart runs
\* and it does not wait.
THEOREM TypeCorrect == Spec => []TypeOK
<1>1. Init => TypeOK
  <2> SUFFICES ASSUME Init PROVE TypeOK
    OBVIOUS
  <2>1. \E h \in Harts : running \subseteq {h}
    BY LrScAssumption DEF Init
  <2> QED
    BY <2>1 DEF Init, TypeOK
<1>2. TypeOK /\ [Next]_vars => TypeOK'
  BY NextType
<1> QED
  BY <1>1, <1>2, PTL DEF Spec

----------------------------------------------------------------------------
(***************************************************************************)
(* Reservations                                                            *)
(***************************************************************************)

\* A reservation stands for the granule of its LR: the tag still denotes the
\* bytes reserved, and the watch that protects them is in place whenever
\* another hart could run.
Protected(h) ==
  /\ granule[h] = watched(watchOf(mode[h], exclusiveTag[h]))
  /\ h \notin running => watchOf(mode[h], exclusiveTag[h]) \in watch[h]
  /\ ~written[h]

\* The inductive invariant.
ReservationInv ==
  watchesGranule => \A h \in Harts : exclusiveTag[h] # NoTag => Protected(h)

\* Physical bytes do not depend on the mode where page tables displace nothing.
LEMMA PhysSame ==
  ASSUME NEW t \in Nat, config.grain \in Nat \ {0}, config.offset = 0
  PROVE  watched(watchOf("M", t)) = watched(watchOf("S", t))
<1> DEFINE bs == t..(t + config.grain - 1)
<1>1. {b + config.offset : b \in bs} = bs
  OBVIOUS
<1> QED
  BY <1>1 DEF watched, watchOf, phys

\* A store keeps what it does not take away protected.
LEMMA StoreProtects ==
  ASSUME TypeOK, ReservationInv, watchesGranule,
         NEW h \in Harts, h \in running, NEW bs,
         NEW tags \in [Harts -> Nat \union {NoTag}], NEW t \in Nat \union {NoTag},
         \A x \in Harts \ {h} : tags[x] = exclusiveTag[x],
         tags[h] \in {exclusiveTag[h], NoTag}, t \in {tags[h], NoTag},
         store(h, bs, tags, t)
  PROVE  ReservationInv'
<1> DEFINE hs == {x \in triggered(bs) : tags[x] # NoTag}
<1>1. /\ exclusiveTag' = [x \in Harts |-> IF x \in hs THEN NoTag ELSE IF x = h THEN t ELSE tags[x]]
      /\ watch' = [x \in Harts |-> IF x \in hs THEN watch[x] \ {watchOf(mode[x], tags[x])}
                                   ELSE watch[x]]
      /\ written' = [x \in Harts |-> written[x] \/ (x # h /\ granule[x] \intersect bs # {})]
      /\ UNCHANGED <<config, running, mode, granule>>
  BY DEF store
<1> SUFFICES ASSUME NEW x \in Harts, exclusiveTag'[x] # NoTag
             PROVE  Protected(x)'
  BY DEF ReservationInv
<1>2. x \notin hs
  BY <1>1
<1>3. exclusiveTag'[x] = exclusiveTag[x] /\ exclusiveTag[x] # NoTag
  BY <1>1, <1>2
<1>4. Protected(x)
  BY <1>3 DEF ReservationInv
<1>5. watch'[x] = watch[x] /\ granule'[x] = granule[x] /\ mode'[x] = mode[x] /\ running' = running
  BY <1>1, <1>2
<1>6. watched(watchOf(mode[x], exclusiveTag[x]))' = watched(watchOf(mode[x], exclusiveTag[x]))
  BY <1>1, <1>3, ZenonT(60) DEF watched, watchOf, phys
<1>7. ~written'[x]
  <2>1. CASE x = h
    BY <1>1, <1>4, <2>1 DEF Protected
  <2>2. CASE x # h
    <3>1. x \notin running
      BY <2>2 DEF TypeOK
    <3>2. watchOf(mode[x], exclusiveTag[x]) \in watch[x]
      BY <3>1, <1>4 DEF Protected
    <3>3. x \notin triggered(bs)
      BY <1>2, <1>3, <2>2
    <3>4. granule[x] \intersect bs = {}
      BY <3>2, <3>3, <1>4 DEF triggered, Protected
    <3> QED
      BY <1>1, <1>4, <3>4 DEF Protected
  <2> QED
    BY <2>1, <2>2
<1>8. watchOf(mode[x], exclusiveTag[x])' = watchOf(mode[x], exclusiveTag[x])
  BY <1>1, <1>3 DEF watchOf
<1> QED
  BY <1>3, <1>4, <1>5, <1>6, <1>7, <1>8 DEF Protected

\* Every step preserves the invariant.
LEMMA NextProtects ==
  ASSUME TypeOK, ReservationInv, [Next]_vars
  PROVE  ReservationInv'
<1>0. UNCHANGED config /\ (watchesGranule' <=> watchesGranule)
  <2>1. UNCHANGED config
    BY ZenonT(60) DEF Next, vars, LR, SC, Store, AMO, store, Trap, XRET, Suspend, Resume, WRS, WaitEnds,
           SCValidPortCB, riscvReset
  <2> QED
    BY <2>1 DEF watchesGranule
<1> SUFFICES ASSUME watchesGranule PROVE ReservationInv'
  BY <1>0 DEF ReservationInv
<1>c. config.grain \in Nat \ {0}
  BY ConfigType
\* A hart whose state a step leaves alone stays protected.
<1>u. ASSUME NEW x \in Harts, exclusiveTag[x] # NoTag, exclusiveTag'[x] = exclusiveTag[x],
             mode'[x] = mode[x], watch'[x] = watch[x], granule'[x] = granule[x],
             written'[x] = written[x], x \in running => x \in running'
      PROVE  Protected(x)'
  <2>1. Protected(x)
    BY <1>u DEF ReservationInv
  <2>2. watchOf(mode[x], exclusiveTag[x])' = watchOf(mode[x], exclusiveTag[x])
    BY <1>0, <1>u DEF watchOf
  <2>3. watched(watchOf(mode[x], exclusiveTag[x]))' = watched(watchOf(mode[x], exclusiveTag[x]))
    BY <1>0, <1>u DEF watched, watchOf, phys
  <2> QED
    BY <1>u, <2>1, <2>2, <2>3 DEF Protected
<1>1. CASE UNCHANGED vars
  BY <1>0, <1>1, <1>u DEF vars, ReservationInv
<1>2. ASSUME NEW h \in Harts, NEW a \in Accesses, LR(h, a)
      PROVE  ReservationInv'
  <2> SUFFICES ASSUME NEW x \in Harts, exclusiveTag'[x] # NoTag PROVE Protected(x)'
    BY DEF ReservationInv
  <2>1. CASE x # h
    BY <1>2, <1>u, <2>1 DEF LR, TypeOK
  <2>2. CASE x = h
    <3>1. exclusiveTag'[h] = granuleLow(a[1])
      <4>1. ~config.match_size
        BY DEF watchesGranule
      <4>2. granuleLow(a[1]) \in Nat
        BY TagType
      <4> QED
        BY <1>2, <4>1, <4>2 DEF LR, TypeOK, generateEATag
    <3>2. granule'[h] = phys(mode[h], granuleLow(a[1])..(granuleLow(a[1]) + config.grain - 1))
      BY <1>2 DEF LR, TypeOK
    <3>3. h \in running' /\ mode'[h] = mode[h] /\ ~written'[h]
      BY <1>2 DEF LR, TypeOK
    <3>4. granule'[h] = watched(watchOf(mode[h], exclusiveTag[h]))'
      BY <1>0, <3>1, <3>2, <3>3 DEF watched, watchOf, phys
    <3> QED
      BY <2>2, <3>3, <3>4 DEF Protected
  <2> QED
    BY <2>1, <2>2
<1>3. ASSUME NEW h \in Harts, NEW a \in Accesses, SC(h, a)
      PROVE  ReservationInv'
  <2>1. CASE store(h, phys(mode[h], bytesOf(a)), exclusiveTag, NoTag)
    <3>1. exclusiveTag \in [Harts -> Nat \union {NoTag}] /\ h \in running
      BY <1>3 DEF TypeOK, SC
    <3> QED
      BY <2>1, <3>1, StoreProtects
  <2>2. CASE /\ exclusiveTag' = [exclusiveTag EXCEPT ![h] = NoTag]
             /\ UNCHANGED <<config, running, mode, watch, waiting, granule, written>>
    <3> SUFFICES ASSUME NEW x \in Harts, exclusiveTag'[x] # NoTag PROVE Protected(x)'
      BY DEF ReservationInv
    <3> QED
      BY <2>2, <1>u DEF TypeOK
  <2> QED
    BY <1>3, <2>1, <2>2 DEF SC
<1>4. ASSUME NEW h \in Harts, NEW a \in Accesses, Store(h, a)
      PROVE  ReservationInv'
  <2>1. /\ exclusiveTag \in [Harts -> Nat \union {NoTag}]
        /\ exclusiveTag[h] \in Nat \union {NoTag} /\ h \in running
    BY <1>4 DEF TypeOK, Store
  <2> QED
    BY <1>4, <2>1, StoreProtects DEF Store
<1>5. ASSUME NEW h \in Harts, NEW a \in Accesses, AMO(h, a)
      PROVE  ReservationInv'
  <2> DEFINE tags == IF config.amo_aborts THEN [exclusiveTag EXCEPT ![h] = NoTag] ELSE exclusiveTag
  <2>1. /\ tags \in [Harts -> Nat \union {NoTag}] /\ tags[h] \in Nat \union {NoTag}
        /\ \A x \in Harts \ {h} : tags[x] = exclusiveTag[x]
        /\ tags[h] \in {exclusiveTag[h], NoTag}
    BY DEF TypeOK
  <2>2. h \in running /\ store(h, phys(mode[h], bytesOf(a)), tags, tags[h])
    BY <1>5 DEF AMO
  <2> HIDE DEF tags
  <2> QED
    BY <2>1, <2>2, StoreProtects
<1>6. ASSUME NEW h \in Harts, Trap(h) \/ XRET(h)
      PROVE  ReservationInv'
  <2> SUFFICES ASSUME NEW x \in Harts, exclusiveTag'[x] # NoTag PROVE Protected(x)'
    BY DEF ReservationInv
  <2>1. CASE x # h
    BY <1>6, <1>u, <2>1 DEF Trap, XRET, TypeOK
  <2>2. CASE x = h
    <3>1. /\ exclusiveTag'[h] = exclusiveTag[h] /\ exclusiveTag[h] # NoTag
          /\ config.trap_preserves \/ config.xret_preserves
      BY <1>6, <2>2 DEF Trap, XRET, TypeOK
    <3>2. config.offset = 0
      BY <3>1 DEF watchesGranule
    <3>3. Protected(h) /\ exclusiveTag[h] \in Nat
      BY <3>1 DEF ReservationInv, TypeOK
    <3>4. h \in running' /\ granule'[h] = granule[h] /\ written'[h] = written[h]
      BY <1>6 DEF Trap, XRET
    <3>5. mode[h] \in {"M", "S"} /\ mode'[h] \in {"M", "S"}
      BY <1>6 DEF Trap, XRET, TypeOK
    <3>6. watched(watchOf(mode'[h], exclusiveTag[h])) = watched(watchOf(mode[h], exclusiveTag[h]))
      BY <1>c, <3>2, <3>3, <3>5, PhysSame
    <3>7. watched(watchOf(mode[h], exclusiveTag[h]))' = watched(watchOf(mode'[h], exclusiveTag[h]))
      BY <1>0, <3>1 DEF watched, watchOf, phys
    <3> QED
      BY <2>2, <3>3, <3>4, <3>6, <3>7 DEF Protected
  <2> QED
    BY <2>1, <2>2
<1>7. ASSUME NEW h \in Harts, Suspend(h) \/ WRS(h)
      PROVE  ReservationInv'
  <2> SUFFICES ASSUME NEW x \in Harts, exclusiveTag'[x] # NoTag PROVE Protected(x)'
    BY DEF ReservationInv
  <2>0. /\ exclusiveTag' = exclusiveTag /\ mode' = mode /\ granule' = granule /\ written' = written
        /\ watch' = installed(h) /\ running' = {} /\ h \in running
    BY <1>7 DEF Suspend, WRS
  <2>1. CASE x # h
    <3>1. x \notin running /\ watch'[x] = watch[x]
      BY <2>0, <2>1 DEF TypeOK, installed
    <3> QED
      BY <2>0, <3>1, <1>u
  <2>2. CASE x = h
    <3>1. watchOf(mode[h], exclusiveTag[h]) \in watch'[h]
      BY <2>0, <2>2 DEF TypeOK, installed
    <3>2. Protected(h)
      BY <2>0, <2>2 DEF ReservationInv
    <3>3. watchOf(mode[h], exclusiveTag[h])' = watchOf(mode[h], exclusiveTag[h])
      BY <1>0, <2>0 DEF watchOf
    <3>4. watched(watchOf(mode[h], exclusiveTag[h]))' = watched(watchOf(mode[h], exclusiveTag[h]))
      BY <1>0, <2>0 DEF watched, watchOf, phys
    <3> QED
      BY <2>0, <2>2, <3>1, <3>2, <3>3, <3>4 DEF Protected
  <2> QED
    BY <2>1, <2>2
<1>8. ASSUME NEW h \in Harts, Resume(h)
      PROVE  ReservationInv'
  <2> SUFFICES ASSUME NEW x \in Harts, exclusiveTag'[x] # NoTag PROVE Protected(x)'
    BY DEF ReservationInv
  <2>0. /\ exclusiveTag' = exclusiveTag /\ mode' = mode /\ granule' = granule /\ written' = written
        /\ running = {} /\ running' = {h}
    BY <1>8 DEF Resume
  <2>1. CASE x # h
    <3>1. watch'[x] = watch[x]
      BY <1>8, <2>1 DEF Resume, TypeOK
    <3> QED
      BY <2>0, <3>1, <1>u
  <2>2. CASE x = h
    <3>2. Protected(h)
      BY <2>0, <2>2 DEF ReservationInv
    <3>4. watched(watchOf(mode[h], exclusiveTag[h]))' = watched(watchOf(mode[h], exclusiveTag[h]))
      BY <1>0, <2>0 DEF watched, watchOf, phys
    <3> QED
      BY <2>0, <2>2, <3>2, <3>4 DEF Protected
  <2> QED
    BY <2>1, <2>2
<1>9. ASSUME NEW h \in Harts, WaitEnds(h) \/ SCValidPortCB(h) \/ riscvReset(h)
      PROVE  ReservationInv'
  <2> SUFFICES ASSUME NEW x \in Harts, exclusiveTag'[x] # NoTag PROVE Protected(x)'
    BY DEF ReservationInv
  <2>1. /\ exclusiveTag'[x] = exclusiveTag[x] /\ mode'[x] = mode[x] /\ watch'[x] = watch[x]
        /\ granule'[x] = granule[x] /\ written'[x] = written[x] /\ running' = running
    BY <1>9 DEF WaitEnds, SCValidPortCB, riscvReset, TypeOK
  <2> QED
    BY <2>1, <1>u
<1> QED
  BY <1>1, <1>2, <1>3, <1>4, <1>5, <1>6, <1>7, <1>8, <1>9 DEF Next

\* No store of another hart to a reserved granule is missed, for any number of
\* harts, any accesses and any granule size, where sizes need not match and
\* reservations outlive changes of mode only without displacement.
THEOREM ReservationsHold == Spec => []ReservationUntouched
<1>1. Init => ReservationInv
  BY DEF Init, ReservationInv
<1>2. TypeOK /\ ReservationInv /\ [Next]_vars => ReservationInv'
  BY NextProtects
<1>3. ReservationInv => ReservationUntouched
  BY DEF ReservationInv, ReservationUntouched, Protected
<1> QED
  BY <1>1, <1>2, <1>3, TypeCorrect, PTL DEF Spec

\* A store wakes each protected hart that waits and whose granule it touches.
LEMMA StoreWakes ==
  ASSUME TypeOK, ReservationInv, watchesGranule,
         NEW h \in Harts, h \in running, NEW bs,
         NEW tags, \A x \in Harts \ {h} : tags[x] = exclusiveTag[x], NEW t,
         store(h, bs, tags, t),
         NEW x \in Harts, waiting[x], exclusiveTag[x] # NoTag, ~written[x], written'[x]
  PROVE  ~waiting'[x]
<1>1. x # h /\ granule[x] \intersect bs # {}
  BY DEF store, TypeOK
<1>2. x \notin running
  BY DEF TypeOK
<1>3. Protected(x)
  BY DEF ReservationInv
<1>4. x \in triggered(bs)
  BY <1>1, <1>2, <1>3 DEF triggered, Protected
<1> QED
  BY <1>1, <1>4 DEF store

\* A store to the granule of a hart that waits in WRS wakes it, for any harts,
\* accesses and granule size.
THEOREM WaitersWoken == Spec => WaiterWoken
<1>1. ASSUME TypeOK, ReservationInv, [Next]_vars, watchesGranule,
             NEW x \in Harts, waiting[x], exclusiveTag[x] # NoTag, ~written[x], written'[x]
      PROVE  ~waiting'[x]
  <2>1. ASSUME NEW h \in Harts, NEW a \in Accesses, SC(h, a) \/ Store(h, a) \/ AMO(h, a)
        PROVE  ~waiting'[x]
    <3>1. CASE written' = written
      BY <1>1, <3>1
    <3>2. CASE written' # written
      <4> DEFINE bs == phys(mode[h], bytesOf(a))
      <4>1. h \in running
        BY <2>1 DEF SC, Store, AMO
      <4>2. \E tags, t : (\A y \in Harts \ {h} : tags[y] = exclusiveTag[y]) /\ store(h, bs, tags, t)
        <5>1. CASE SC(h, a)
          BY <3>2, <5>1 DEF SC
        <5>2. CASE Store(h, a)
          BY <5>2 DEF Store
        <5>3. CASE AMO(h, a)
          <6> DEFINE tg == IF config.amo_aborts THEN [exclusiveTag EXCEPT ![h] = NoTag] ELSE exclusiveTag
          <6>1. \A y \in Harts \ {h} : tg[y] = exclusiveTag[y]
            BY <1>1 DEF TypeOK
          <6>2. store(h, bs, tg, tg[h])
            BY <5>3 DEF AMO
          <6> HIDE DEF tg
          <6> QED
            BY <6>1, <6>2
        <5> QED
          BY <2>1, <5>1, <5>2, <5>3
      <4> HIDE DEF bs
      <4> QED
        BY <1>1, <4>1, <4>2, StoreWakes
    <3> QED
      BY <3>1, <3>2
  <2>2. ASSUME NEW h \in Harts, NEW a \in Accesses, LR(h, a)
        PROVE  ~waiting'[x]
    BY <1>1, <2>2 DEF LR, TypeOK
  <2>3. ASSUME NEW h \in Harts, Trap(h) \/ XRET(h) \/ Suspend(h) \/ Resume(h) \/ WRS(h) \/ WaitEnds(h)
                                \/ SCValidPortCB(h) \/ riscvReset(h)
        PROVE  ~waiting'[x]
    BY <1>1, <2>3 DEF Trap, XRET, Suspend, Resume, WRS, WaitEnds, SCValidPortCB, riscvReset
  <2>4. CASE UNCHANGED vars
    BY <1>1, <2>4 DEF vars
  <2> QED
    BY <1>1, <2>1, <2>2, <2>3, <2>4 DEF Next
<1>2. TypeOK /\ ReservationInv /\ [Next]_vars
        => [watchesGranule =>
              \A h \in Harts : (waiting[h] /\ exclusiveTag[h] # NoTag /\ ~written[h] /\ written'[h])
                               => ~waiting'[h]]_vars
  BY <1>1
<1>3. Init => ReservationInv
  BY DEF Init, ReservationInv
<1>4. TypeOK /\ ReservationInv /\ [Next]_vars => ReservationInv'
  BY NextProtects
<1> QED
  BY <1>2, <1>3, <1>4, TypeCorrect, PTL DEF Spec, WaiterWoken
=============================================================================
