--------------------------------- MODULE LrSc ---------------------------------
(***************************************************************************)
(* LR/SC reservations of harts that share memory (riscvUtils.c, emitLR,    *)
(* emitSC and AMOs of riscvMorph.c).  The simulator runs one hart at a     *)
(* time.  A hart's reservation is a tag; stores of other harts cancel it   *)
(* through a write watch on its data domain, which exists only while the   *)
(* hart is suspended.                                                      *)
(*                                                                         *)
(* Left out: values stored, external locking (LR_address and SC_address),  *)
(* save and restore, derived models, and tags that wrap at the address     *)
(* width.                                                                  *)
(***************************************************************************)
EXTENDS Integers, FiniteSets

CONSTANTS
  Harts,
  Configs,        \* configurations of the processor
  Accesses        \* first byte and size of the accesses programs make

VARIABLES
  config,         \* configuration, never changed
  running,        \* harts that simulate: at most one
  mode,           \* "S": addresses are translated; "M": they are physical
  exclusiveTag,
  watch,          \* write watches installed for each hart
  waiting,        \* hart waits in WRS (RVD_WRS)
  granule,        \* physical bytes of the granule the last LR reserved
  written         \* another hart stored to that granule since

vars == <<config, running, mode, exclusiveTag, watch, waiting, granule, written>>

(***************************************************************************)
(* A configuration: lr_sc_grain; lr_sc_match_size; amo_aborts_lr_sc;       *)
(* trap_preserves_lr; xret_preserves_lr; and the offset by which the page  *)
(* tables of S mode displace addresses.                                    *)
(***************************************************************************)
Config == [grain : Nat \ {0}, match_size : BOOLEAN, amo_aborts : BOOLEAN,
           trap_preserves : BOOLEAN, xret_preserves : BOOLEAN, offset : Nat]

ASSUME LrScAssumption ==
  /\ Harts # {}
  /\ Configs \subseteq Config
  /\ Accesses \subseteq Nat \X (Nat \ {0})

NoTag == -1

bytesOf(a) == a[1]..(a[1] + a[2] - 1)

\* Physical bytes of bytes bs in the data domain of a mode.
phys(m, bs) == IF m = "S" THEN {b + config.offset : b \in bs} ELSE bs

granuleLow(a) == a - (a % config.grain)

\* Tag of an access: its granule, and its size if sizes must match (memBits/64).
generateEATag(a) ==
  granuleLow(a[1]) + (IF config.match_size /\ a[2] = 8 THEN 1 ELSE 0)

\* Watch for tag t in the data domain of mode m.
watchOf(m, t) == [mode |-> m, low |-> t, high |-> t + config.grain - 1]

watched(w) == phys(w.mode, w.low..w.high)

\* Harts with a watch that a store to bytes bs (physical) triggers, abortEA.
triggered(bs) == {h \in Harts : \E w \in watch[h] : watched(w) \intersect bs # {}}

----------------------------------------------------------------------------
\* Mutant: a cancelled reservation does not end the wait.
storeNoRestart(h, bs, tags, t) ==
  LET hs == {x \in triggered(bs) : tags[x] # NoTag}
  IN  /\ exclusiveTag' = [x \in Harts |-> IF x \in hs THEN NoTag ELSE IF x = h THEN t ELSE tags[x]]
      /\ watch' = [x \in Harts |-> IF x \in hs THEN watch[x] \ {watchOf(mode[x], tags[x])}
                                   ELSE watch[x]]
      /\ UNCHANGED waiting
      /\ written' = [x \in Harts |-> written[x] \/ (x # h /\ granule[x] \intersect bs # {})]
      /\ UNCHANGED <<config, running, mode, granule>>

\* A store by hart h to physical bytes bs, at which the tags are tags; h's own
\* becomes t when the instruction ends.  Each triggered hart with a reservation
\* loses it and the watch it has now, and ends its wait
\* (riscvAbortExclusiveAccess).
store(h, bs, tags, t) ==
  LET hs == {x \in triggered(bs) : tags[x] # NoTag}
  IN  /\ exclusiveTag' = [x \in Harts |-> IF x \in hs THEN NoTag ELSE IF x = h THEN t ELSE tags[x]]
      /\ watch' = [x \in Harts |-> IF x \in hs THEN watch[x] \ {watchOf(mode[x], tags[x])}
                                   ELSE watch[x]]
      /\ waiting' = [x \in Harts |-> waiting[x] /\ x \notin hs]
      /\ written' = [x \in Harts |-> written[x] \/ (x # h /\ granule[x] \intersect bs # {})]
      /\ UNCHANGED <<config, running, mode, granule>>

\* LR (startEA): the tag is set once the load succeeded.
LR(h, a) ==
  /\ h \in running
  /\ exclusiveTag' = [exclusiveTag EXCEPT ![h] = generateEATag(a)]
  /\ granule' = [granule EXCEPT ![h] =
                   phys(mode[h], granuleLow(a[1])..(granuleLow(a[1]) + config.grain - 1))]
  /\ written' = [written EXCEPT ![h] = FALSE]
  /\ UNCHANGED <<config, running, mode, watch, waiting>>

\* SC: stores if the tags match (validateEA), and ends the reservation (endEA).
SC(h, a) ==
  /\ h \in running
  /\ \/ /\ exclusiveTag[h] = generateEATag(a)
        /\ store(h, phys(mode[h], bytesOf(a)), exclusiveTag, NoTag)
     \/ /\ exclusiveTag[h] # generateEATag(a)
        /\ exclusiveTag' = [exclusiveTag EXCEPT ![h] = NoTag]
        /\ UNCHANGED <<config, running, mode, watch, waiting, granule, written>>

Store(h, a) ==
  /\ h \in running
  /\ store(h, phys(mode[h], bytesOf(a)), exclusiveTag, exclusiveTag[h])

\* AMO; where it aborts LR/SC pairs it drops the hart's own reservation before
\* it stores (clearEAMT).
AMO(h, a) ==
  LET tags == IF config.amo_aborts THEN [exclusiveTag EXCEPT ![h] = NoTag] ELSE exclusiveTag
  IN  /\ h \in running
      /\ store(h, phys(mode[h], bytesOf(a)), tags, tags[h])

\* A trap enters M mode, an xRET leaves it.
Trap(h) ==
  /\ h \in running /\ mode[h] = "S"
  /\ mode' = [mode EXCEPT ![h] = "M"]
  /\ exclusiveTag' = [exclusiveTag EXCEPT ![h] = IF config.trap_preserves THEN @ ELSE NoTag]
  /\ UNCHANGED <<config, running, watch, waiting, granule, written>>

XRET(h) ==
  /\ h \in running /\ mode[h] = "M"
  /\ mode' = [mode EXCEPT ![h] = "S"]
  /\ exclusiveTag' = [exclusiveTag EXCEPT ![h] = IF config.xret_preserves THEN @ ELSE NoTag]
  /\ UNCHANGED <<config, running, watch, waiting, granule, written>>

----------------------------------------------------------------------------
\* Mutant: no watch is installed.
installedNone(h) == watch

\* riscvContextSwitchCB: the watch is installed when a hart stops running and
\* removed when it runs again.
installed(h) ==
  IF exclusiveTag[h] = NoTag THEN watch
  ELSE [watch EXCEPT ![h] = @ \union {watchOf(mode[h], exclusiveTag[h])}]

Suspend(h) ==
  /\ h \in running
  /\ running' = {}
  /\ watch' = installed(h)
  /\ UNCHANGED <<config, mode, exclusiveTag, waiting, granule, written>>

\* Mutant: a waiting hart is resumed.
ResumeWaiting(h) ==
  /\ running = {}
  /\ running' = {h}
  /\ UNCHANGED <<config, mode, exclusiveTag, watch, waiting, granule, written>>

Resume(h) ==
  /\ running = {} /\ ~waiting[h]
  /\ running' = {h}
  /\ watch' = IF exclusiveTag[h] = NoTag THEN watch
              ELSE [watch EXCEPT ![h] = @ \ {watchOf(mode[h], exclusiveTag[h])}]
  /\ UNCHANGED <<config, mode, exclusiveTag, waiting, granule, written>>

\* WRS with a valid reservation halts the hart, which stops running.
WRS(h) ==
  /\ h \in running
  /\ exclusiveTag[h] # NoTag
  /\ waiting' = [waiting EXCEPT ![h] = TRUE]
  /\ running' = {}
  /\ watch' = installed(h)
  /\ UNCHANGED <<config, mode, exclusiveTag, granule, written>>

\* An interrupt or a time limit ends the wait.
WaitEnds(h) ==
  /\ waiting[h]
  /\ waiting' = [waiting EXCEPT ![h] = FALSE]
  /\ UNCHANGED <<config, running, mode, exclusiveTag, watch, granule, written>>

\* Net SC_valid goes low, at any time (clearEA).
SCValidPortCB(h) ==
  /\ exclusiveTag[h] # NoTag
  /\ exclusiveTag' = [exclusiveTag EXCEPT ![h] = NoTag]
  /\ UNCHANGED <<config, running, mode, watch, waiting, granule, written>>

\* Net reset, at any time: M mode, no reservation, no wait.
riscvReset(h) ==
  /\ <<mode[h], exclusiveTag[h], waiting[h]>> # <<"M", NoTag, FALSE>>
  /\ mode' = [mode EXCEPT ![h] = "M"]
  /\ exclusiveTag' = [exclusiveTag EXCEPT ![h] = NoTag]
  /\ waiting' = [waiting EXCEPT ![h] = FALSE]
  /\ UNCHANGED <<config, running, watch, granule, written>>

----------------------------------------------------------------------------
Init ==
  /\ config \in Configs
  /\ running = {}
  /\ mode = [h \in Harts |-> "M"]
  /\ exclusiveTag = [h \in Harts |-> NoTag]
  /\ watch = [h \in Harts |-> {}]
  /\ waiting = [h \in Harts |-> FALSE]
  /\ granule = [h \in Harts |-> {}]
  /\ written = [h \in Harts |-> FALSE]

Next ==
  \E h \in Harts :
    \/ \E a \in Accesses : LR(h, a) \/ SC(h, a) \/ Store(h, a) \/ AMO(h, a)
    \/ Trap(h) \/ XRET(h)
    \/ Suspend(h) \/ Resume(h) \/ WRS(h) \/ WaitEnds(h)
    \/ SCValidPortCB(h) \/ riscvReset(h)

Spec == Init /\ [][Next]_vars
=============================================================================
