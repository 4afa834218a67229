# Verification of the OVP RISC-V processor model

The repository holds an instruction-set simulator model of a RISC-V processor
(`src/riscv-ovpsim/source`, about 88 000 lines of C), the architectural test
suite it runs and the glue between them. The program's own logic is the
processor model; the rest is assembly tests, reference signatures and make files.
This directory specifies in TLA+ the parts of the model that are hardest to test:
the state machine of a hart that takes traps, interrupts, NMIs and debug events
while nets, timers, other harts and a debugger act on it; its time comparators and
counters; the interrupt controller; the triggers; LR/SC across harts; and the two
caches of the memory system, lazily mapped PMP regions and the TLB.

## The system

The simulator runs each hart by calling the model: `riscvIFetchExcept` before
every instruction (it may take an event instead), the translated code of the
instruction itself, and between instructions the callbacks of nets, timers,
memory watches and debugger register writes. Everything runs on one host thread,
so a callback is atomic; what varies is the order of callbacks and instructions.

| Component | State | Operations | Hard behaviour |
| --- | --- | --- | --- |
| Traps and interrupts (riscvExceptions.c) | mode, status CSRs, mie, mip, delegation, cached `pendEnab` | trap entry, xRET, NMI, interrupt nets, reset | a cache of the interrupt to take, refreshed only where code calls for it |
| Waiting (riscvExceptions.c) | `disable` reasons, inWFI net, twTimer | WFI, WRS, time limits, wake-ups | lost wake-ups, limits of an earlier wait |
| Debug mode (riscvExceptions.c, riscvCSR.c, riscvDebug.c) | DM, dcsr, stepTimer, stepICount, DMStall | haltreq, resethaltreq, ebreak, step, DRET, DM writes | a step that runs two instructions, or none; halting a waiting hart |
| LR/SC (riscvMorph.c, riscvUtils.c) | exclusiveTag, write watch | LR, SC, abort, context switch | the watch exists only while the hart is suspended |
| CLINT and timers (riscvCLINT.c, riscvExceptions.c) | mtime, mtimecmp, stimecmp, vstimecmp, msip | register writes, timer expiry | 64-bit wrap, one timer for three comparators |
| CLIC (riscvCLIC.c) | per-interrupt registers, pending-and-enabled mask, selection | register writes, refresh, acknowledge | the mask duplicates the registers |
| PMP, MPU (riscvVM.c) | pmpcfg, pmpaddr, mapped regions | CSR writes, lazy mapping, reset | invalidation of neighbours, locking, priorities |
| TLB (riscvVM.c) | entries of HS, VS1, VS2, simulated ASIDs | miss, sfence, hfence, ASID switch | stale mappings, two stages |
| Triggers (riscvTrigger.c) | tdata, pending after-actions | match, chain, icount, action | competes with all other events at fetch |
| Counters (riscvCSR.c) | bases of mcycle and minstret, mcountinhibit, stopcount | reads, writes, start and stop | the base changes meaning when a counter stops |
| CSRs (riscvCSR.c) | 300 registers | masked reads and writes | write side effects on the above |
| Decode, translate, B, K, vector | none or data | pure functions of operands | large, no interleaving |

What makes each correct: the interrupt taken is the one the registers call for
and none is missed; a waiting hart wakes when it should; privilege rises only
with the old mode saved; a step runs one instruction; a halt request is served;
a reservation is lost on any conflicting store; a timer interrupt is pending
exactly when its comparator says so; a mapping never outlives the PMP entry or
page table entry it came from; a step by trigger runs one instruction; a counter
reads what retired.

## Modules

- `RiscvModes` - the modes of riscvMode.h, which of them a configuration has,
  and the two orders on them (`mode5Priority` for interrupts, `priMap` for
  exceptions).
- `Hart` - one hart. Variables carry the names of the C state (table below), and
  each action is one callback, instruction or CSR write, with all the calls it
  makes. Operators with the comment "Mutant", here and in the other modules, are wrong
  variants of the definition after them, used to show that the properties can fail.
- `HartProperties` - the type invariant and the properties.
- `HartProofs` - its proofs: types, waiting and single stepping; then the interrupt
  cache, and what mode changes save and clear.
- `Timer` - the sources of timer and software interrupts of one hart: mtime, the
  comparators mtimecmp, stimecmp and vstimecmp, htimedelta, msip, and the stored
  mip composed from them. `Hart` takes mip as the union of what ports and software
  pend; `Timer` looks at how the code keeps that register current.
- `TimerProperties`, `TimerProofs` - its properties and their proofs.
- `Pmp`, `PmpProperties`, `PmpProofs`, `MCPmp` - physical memory protection of one hart.
- `Paging` - page table entries, walks and permissions; `Mmu` - the abstract
  specification of address translation; `Tlb` - the translation the code has;
  `TlbProperties`, `TlbProofs` - its properties, and that `Tlb` implements `Mmu`;
  `MCTlb` - the harts and programs of the run (`Programs`).
- `LrSc`, `LrScProperties`, `MCLrSc`, `LrScProofs` - reservations of several harts.
- `Clic`, `ClicProperties`, `ClicProofs`, `MCClic` - the internal CLIC with the part of
  the harts that presents, takes and returns from its interrupts.
- `Trigger`, `TriggerProperties`, `TriggerProofs`, `MCTrigger` - the trigger module of one hart.
- `Counters`, `CountersProperties`, `CountersProofs`, `MCCounters` - mcycle and minstret
  of one hart.

In the modules after `Timer` a run covers several configurations of the processor:
the variable `config` holds the one looked at and never changes, and `Configs` is the
set of them, given by the MC module. State that handlers pass on to each other is a
record, and a C function is an operator from record to record.

### Hart and Timer

| Variable | C state |
| --- | --- |
| `mode` | `riscv->mode` as a five-state mode |
| `mstatus`, `hstatus`, `vsstatus`, `mnstatus`, `dcsr` | the CSR fields that steer control flow |
| `DM`, `halted` | `riscv->DM`; `riscv->disable` with the inWFI output |
| `mie`, `ip`, `swip`, `mideleg`, `hideleg`, `medeleg`, `hedeleg` | sets of interrupt or exception numbers |
| `pendEnab` | `riscv->pendEnab` (id and target mode) |
| `net` | `riscv->netValue` |
| `step`, `twTimer` | stepTimer with stepICount; twTimer |
| `EA` | `exclusiveTag # RISCV_NO_TAG` |

`Timer` keeps `fired` for the comparators last seen to have passed (bit MTIP of
`riscv->ip`, `riscv->stimecmp`, `riscv->vstimecmp`), `timecmp` for their values, `mip`
for the stored CSR and `timer` for the ticks left on `riscv->mtime`. Its actions are
`Tick` (the simulator), `mtimeCB`, the writes of mtime (a CLINT store, or the mtime
port where mtime is external), of each comparator, of htimedelta, msip, mip/hvip and
the STCE fields, and reset. The CLINT writes mtime hart by hart and a store may cover
two msip or two halves of a register; for one hart each is a write of some value,
which is what the actions offer.

Actions of `Hart`: the four diversions of `riscvIFetchExcept` (`FetchHalt`, `FetchStep`,
`FetchNMI`, `FetchInterrupt`), instructions (`Nop`, `Exception`, `riscvECALL`,
`riscvEBREAK`, the returns, the waits, `LR`, `SC`), CSR writes, net port
callbacks, debugger writes, timer callbacks. An operator such as
`riscvTestInterrupt` reads the primed state its caller assigns, as the C function
reads what its caller has stored.

Decisions a reader should know:

- Time is counted in instructions. A cycle passes when an instruction executes
  or an exception is taken at fetch, and a timer due is run before the next
  fetch. The step timer set by DRET therefore counts the next instruction.
- `step.moved` says that `stepICount` differs from the instruction count, which
  is all that `riscvStepExcept` asks of it.
- A CSR write chooses a value for the fields in `CSRFields` and keeps the other
  fields, so a configuration names the fields it wants varied. WARL rules decide
  what is stored. Which fields a program may write in which mode is checked as in
  `riscvValidateCSRAccess`; an access that fails is an `Exception`.
- A port that is not connected is left out through `Ports`. A debugger writes
  DMStall and dcsr only in Debug mode.
- Debug specification 0.14 and privileged specification 1.12 or later are assumed
  where the code depends on the version. There is no internal CLINT or CLIC and
  no Smaia; `disableMask` is empty.
- An SC clears the reservation whether it stores or not; what it stores is data.

### Memory protection

`Pmp` has the registers `pmpcfg`, `pmpaddr` and `mseccfg`, and `mapped`: the privileges
granted to each byte in each PMP domain (`riscv->pmpDomains`), which is what a later
access meets before the model is called. Actions are the writes of pmpcfg (a
register of several entries, in order), pmpaddr and mseccfg, reset, and an access
that misses (`mapPMP`, which refines the region by every entry of higher priority
and refuses one that straddles). The properties compare `mapped` with the privileges
of the matching entry of highest priority, defined from the registers alone.

### Address translation

`Mmu` says what the architecture promises: translations read from the tables may be
kept and used until a fence that covers them, CSR changes take effect at once.
`Tlb` is the code: three tables of `entries` (HS, VS1, VS2), `maps` for the mappings
installed in the virtual domains with the CSR fields they are tagged with (the
simulated ASID), and the list of recently used identifiers with its size, which
`monitorASIDCacheEjectRate` doubles. An access that a mapping in force grants is
`Hit`; it does not look at entries or tables. `Abstract == INSTANCE Mmu WITH kept <-
keptByTLB` maps the entries to kept translations; installed mappings have no
counterpart, so the refinement fails if one of them ever serves an access that no
entry would.

### LR/SC

`LrSc` runs one hart at a time, as the simulator does. `watch` is the write watch of
`riscvContextSwitchCB`, an address range in the domain of the mode the hart had.
`granule` and `written` are history: the bytes reserved, and whether another hart
stored there since.

### CLIC

One record per hart holds the interrupt registers, the line, `ipe` (pending and
enabled), `sel` (the selection cached by `riscvRefreshPendingAndEnabledInternalCLIC`),
`pendEnab`, and the status, level, threshold and cause registers. `cliccfg` is shared
by the cluster. Actions are writes of clicint registers, cliccfg, thresholds,
status, cause and xnxti, edges of lines, taking an interrupt or an exception,
returns and reset.

### Triggers

Each step is a fetch, `riscvIFetchExcept` with all its priorities, followed by what it
leads to: an action due, an NMI, an interrupt, or an instruction. What addresses,
values and causes match is data; each event matches an arbitrary set of the
triggers that compare. `ran` and `trapped` are history for the properties.

### Counters

The simulator's counts are external: they include the instruction that executes,
and whether a fetch diverted by an event counts as a cycle is a parameter.
`count` is history, what the counter has to read; `stale` marks counters about which
nothing is claimed (below).

## Runs

All runs are exhaustive, under `Spec` and with deadlock checked.

| Run | Configuration | Shows |
| --- | --- | --- |
| `HartInterrupts` | M, S, U; interrupts 1 (delegable) and 7; RNMI 0.4; Debug mode entry and exit | `InterruptJustified`, `NoInterruptMissed` |
| `HartWait` | M, S, U; A and Zawrs; TW limit; restartwfi, illegal_instr, stores of other harts | `NoMissedWakeup`, `WrsHoldsReservation`, `WaitLimitCurrent`, `BoundedWaitEnds` |
| `HartHypervisor` | all five modes; VS software interrupt; one delegable exception | `TypeOK`, `InterruptJustified`, `MPRVOnlyInM`, `RiseSavesMode` |
| `HartDebug` | M, U; haltreq, reset, resethaltreq, deferint; step and stepie; program buffer | `SingleStep`, `StepCompletes`, `HaltreqServed` |
| `LostWakeup` | M, U; debugger writes DM in WFI | fails: `NoMissedWakeup` |
| `Timer` | CLINT, Sstc and H; counters of two bits | `TimerExact`, `MipCurrent` |
| `Pmp` | two entries, 16 bytes; with and without Smepmp, a grain, a page limit, decomposition, code domains | `TypeOK`, `MappedWithinPMP`, `StraddleMisses`, `LockedStays` |
| `Tlb` | HS: three ASIDs, cache of two, SUM and MXR; VS: both stages, blocks of two pages, two VMIDs | `TypeOK`, `NoOrphanMapping`, `EntriesCached`, `FenceContract` |
| `LrSc` | two harts, two granules, S mode translated | `TypeOK`, `ReservationUntouched`, `WaiterWoken` |
| `Clic` | one or two harts, one or two interrupts, two levels, two or three modes | `TypeOK`, `SelectionCurrent`, `EdgePendingExact`, `NonePresentedMissed`, `EdgeReported`, `PreemptedByHigher` |
| `Trigger` | two triggers of each type, software and debugger, every debug_priority | `TypeOK`, `StepBounded`, `NoNestedBreakpoint`, `DebuggerKeeps`, `DebugDelivered` |
| `Counters` | counters of two bits in halves of one; alone and in a cluster, with and without Debug mode | `CountersExact`, `InhibitedStays` |

Bounds. The state is finite without counters, so each run is exhaustive for its
constants; what is bounded is the configuration.

- `Hart`: two interrupts are enough to have one outrank the other and one delegated
  and the other not, in any combination. One VS interrupt exercises relocation and
  the third delegation level. One delegable exception code exercises every path of
  `getModeX`; the time limit is only compared with zero. Features are split over
  runs where they do not meet in the code; Debug mode meets interrupts, waiting and
  stepping, so it is in two of them. `HartInterrupts` writes SIE and lets returns
  raise MIE, `HartWait` and `HartDebug` write MIE; all of these go through
  `postStatusW` or `riscvTestInterrupt`.
- `Timer`, `Counters`: counters wrap at `TimeMod` and `Half`^2, 2^64 in the code and 4
  in the runs. Values are only added, split and compared, and four of them allow
  each to be ahead of, at and behind another, at 0 and at the wrap.
- `Pmp`: two entries have a neighbour and a priority; four words give regions that
  nest, meet, overlap and are empty; accesses of 4 and 8 bytes cross each boundary.
- `Tlb`: one or two pages per table; a third ASID ejects the oldest of two. Blocks
  of two pages are what makes entries overlap and mappings be subsets of entries.
- `LrSc`: the proofs hold for any number of harts and granules.
- `Clic`: two interrupts are enough for one to hide the other; features that share
  no code are in different members of `Configs`.
- `Trigger`: two triggers make the longest chain with a first and a last member.

`LostWakeup` documents a disagreement between the code and its own statements:
`leaveDM` tests interrupts before it removes the DEBUG stall. The test ignores a hart
with a stall reason other than WFI, and nothing tests again.

## What the checks do not cover

Where a property is stated with a condition, this is what happens without it. The
first list was found by removing the condition and running TLC; the code offers
no statement that makes each a plain error, but a maintainer should know them.

- Reset rewrites mode and mstatus but not `pendEnab` (riscvExceptions.c:4586), so an
  interrupt cached before reset is taken with mstatus.MIE clear at the first fetch
  after it. A CLINT or CLIC inside the model hides this: resetting them refreshes
  the cache. deferint and illegal_instr reach the same state. `InterruptJustified`
  is checked and proved without these ports.
- haltreq is a level: a pulse that ends before a fetch is forgotten
  (riscvExceptions.c:4973), where riscvDoc.c:5042 describes a pulse.
- `clearEA` on SC_valid does not wake a hart in WRS (riscvExceptions.c:5002), where
  `riscvAbortExclusiveAccess` does.
- A comparator that has passed asks for a timeout of `-time`. At time 0 this is 0,
  the least of all timeouts, and `timeout ? : -1` takes it for none, dropping the
  deadlines of the other comparators (riscvExceptions.c:2492). `TimerExact` holds for
  a comparator while the others are not 0.
- With mseccfg.MMWP set and MML clear, disabling or moving an unlocked PMP entry
  leaves its bytes mapped with all privileges for M mode (riscvVM.c:666), though
  `mapPMP` gives M mode none where no entry matches. In the same way, with MML clear,
  bounds between regions are not kept unmapped for M mode when an entry above them
  is disabled; `StraddleMisses` is for S mode, and for M mode with MML.
- PMP_max_page is only required to be a power of two (riscvMain.c:840). With 1 or 2 and
  decomposed unaligned accesses (PMP_decompose), a word is mapped in parts and the
  privileges beyond a bound are not taken back, so an aligned access across the bound
  may hit. `StraddleMisses` excludes the combination.
- With lr_sc_match_size the size is a bit of the tag, and the watch starts at the tag,
  so a store to the first byte of the granule is missed (riscvMorph.c:3508,
  riscvUtils.c:971; riscvDoc.c:4797 describes the parameter). With trap_preserves_lr
  or xret_preserves_lr the watch is installed in the domain of the mode at the
  context switch, which is another address if page tables displace. Both are the
  condition `watchesGranule`.
- For level-triggered CLIC interrupts the mask may differ from the registers: a write
  of clicintip sets or clears the bit whatever the line is (riscvCLIC.c:340), though
  "level-triggered pending values are not latched" (riscvCLIC.c:269).
  `EdgePendingExact` is for interrupts with a fixed edge trigger.
- Reset keeps the interrupt a hart with a CLIC has registered as well, since it leaves
  `pendEnab` alone. One registered in a lower mode, where the threshold of M mode did
  not apply, may be taken in M mode after the reset though it is not above that
  threshold. `PreemptedByHigher` is for harts that are not reset.
- A breakpoint due after an instruction, when Debug mode is entered first, is
  taken at the first fetch inside Debug mode (riscvTrigger.c:713) and the step it
  stood for is lost. `StepBounded` is for harts that no debugger stops.
- `enterDM` and `leaveDM` convert counters as if an instruction were executing at both
  (riscvExceptions.c:2219, 2280). The two errors cancel, but in between a counter
  that stopcount stops reads one less than it should, and if it, mcountinhibit or
  dcsr.stopcount is written there the difference remains after resuming. `stale` in
  `Counters` marks such counters until they are written again.

Known from reading only: the slot search of `insertMRU` reads before its list when
ASID_cache_size is 1 (riscvVM.c:4516; the model is for other sizes); reset of PMP with
non-zero reset values does not unmap; `riscvResetCLIC` in a cluster writes the hart's
own cliccfg and not the root's (riscvCLIC.c:1839); a CLIC interrupt for a higher mode is
presented only if that mode's IE is set; raising a CLIC threshold or clearing xIE
leaves a cached interrupt; `mayWriteChain` looks only at the previous trigger;
exception triggers with a breakpoint action never fire on traps to M mode; tcontrol
is not reset; `riscvMNRET` neither clears MPRV nor checks for Debug mode as the other
returns do; inWFI is not updated when one of several stall reasons changes. The model
has the code's behaviour in each of these cases that it covers.

## Fairness

`Fairness` is weak fairness of the processor, of the step timer and of the
bounded-wait timer. The simulator keeps executing a hart that is not halted, and
its timers run in simulated time, which advances while harts are halted. Nothing
makes a port, a debugger or a program act. `StepCompletes` and `HaltreqServed` need
only the processor and the step timer; `BoundedWaitEnds` needs the wait timer.
`StepCompletes` excuses a reset, and `HaltreqServed` a request withdrawn, deferint
and reset: while reset is high the hart is stalled, and nobody is obliged to
lower it. The other modules state safety only and their `Spec` has no fairness.

## Proofs

Eight modules hold the proofs. All of them assume only what the modules assume of
their constants (`ArchAssumption`, `ConfigAssumption`, `PriorityAssumption`,
`TimerAssumption`, `PmpAssumption`, `LrScAssumption`, `ProgramsAssumption` and so on, which TLC evaluates in every
run), so they hold for any number of interrupts, harts, entries and triggers and for
any width; a theorem with a further hypothesis states it with ASSUME, and the table
names it. Where `Spec` or a property is of the form `[]` or `[][...]_vars`, the proof
has three parts: the initial state has the invariant, each action keeps it, and the
invariant gives the property.

| Theorem | Property | Hypothesis | Invariant |
| --- | --- | --- | --- |
| `HartProofs!TypeCorrect` | `TypeOK` | | inductive as it stands |
| `NoWakeupMissed`, `WaitLimitIsCurrent` | `NoMissedWakeup`, `WaitLimitCurrent` | no debugger write of DM | `WaitInv` |
| `WrsHolds` | `WrsHoldsReservation` | no SC_valid port | with `TypeOK` |
| `StepIsSingle` | `SingleStep` | `NoAsyncException` | `StepInv` |
| `TakenAreJustified`, `NoneOverlooked` | `InterruptJustified`, `NoInterruptMissed` | `NoStalePorts` | `IInv` of `HartProofs` |
| `RisesSaveMode` | `RiseSavesMode` | | `TypeOK` |
| `MPRVStaysInM` | `MPRVOnlyInM` | `NoStalePorts`, no RNMI | the same `IInv` |
| `ComparatorsExact`, `MipAlwaysCurrent` | `TimerExact`, `MipCurrent` | | `TimerInv` |
| `LrScProofs!TypeCorrect`, `ReservationsHold`, `WaitersWoken` | `TypeOK`, `ReservationUntouched`, `WaiterWoken` | | `ReservationInv` |
| `PmpProofs!TypeCorrect`, `MappedIsWithinPMP`, `LockedEntriesStay` | `TypeOK`, `MappedWithinPMP`, `LockedStays` | | `TypeOK /\ MappedWithinPMP` |
| `StraddlesMiss` | `StraddleMisses` | | `BoundInv`, with the other |
| `ClicProofs!TypeCorrect`, `SelectionIsCurrent`, `EdgePendingIsExact`, `NoneMissed`, `EdgesReported`, `OnlyHigherPreempts` | all of `ClicProperties` | | `HartInv` of each hart |
| `TriggerProofs!TypeCorrect`, `NoBreakpointNests`, `DebuggerIsKept`, `DebugIsDelivered`, `StepIsBounded` | all of `TriggerProperties` | | `Good`, and `Stepped` of each trigger |
| `CountersAreExact`, `InhibitedStay` | `CountersExact`, `InhibitedStays` | | `Exact` of each counter |
| `TlbProofs!TypeCorrect`, `NoMappingOrphaned`, `EntriesAreCached` | `TypeOK`, `NoOrphanMapping`, `EntriesCached` | | `IInv` of `TlbProofs` |
| `ImplementsMmu` | `FenceContract` | | the same `IInv` |

**Hart, types.** What is not bookkeeping in `TypeOK`: the current mode, mstatus.MPP and
mnstatus.MNPP name modes the hart has, and dcsr.prv with dcsr.v does too, which
depends on the WARL handling in `statusW`, `mnstatusW` and `dcsrWInt` and on the mode
computations of every return.

**Hart, waiting.** `NoMissedWakeup` is about a hart that waits in WFI; that a CSR write
or a callback cannot find it waiting in any other condition is `WaitKnown`: a hart does
not wait, or it is stalled for WFI, not for DEBUG, outside Debug mode and without
dcsr.step. The hypothesis that no debugger writes DM is what the run `LostWakeup`
refutes the property without. `WrsHolds` excludes the SC_valid port, whose callback
drops the reservation without ending the wait.

**Hart, stepping.** `SingleStep` with `twTimer = "off"`. An exception taken while the hart is
stalled, by the illegal_instr port or a time limit, counts a step before an
instruction has executed; `NoAsyncException` excludes them, as the run `HartDebug` does.

**Hart, interrupts.** `NoStalePorts` excludes the ports reset, deferint and illegal_instr,
the three ways (see above) in which the code lets the cache go stale. The properties
are not inductive: they speak only of states in which the cached interrupt may be
taken. The invariant has three parts.

- `TypeOK`.
- `CacheExact`: whenever interrupts are open, a cached interrupt is the one a
  refresh would compute now, and if none is cached then none is enabled in the
  current mode (`Quiet`). This is the reason why a write of mstatus that clears an
  enable, or an exception that raises the mode, needs no refresh: an instruction
  executes only when nothing may be taken, and lowering enables or raising the
  mode keeps it so.
- `WaitQuiet`: a hart in WFI has no interrupt it may take, so the traps that end
  bounded waits, which do not refresh the cache, find none in it.

`MPRVOnlyInM` needs the same invariant: an interrupt taken in M mode must not lead out
of it, and which mode it leads to was decided when it was cached.
`PriorityAssumption` (every nonempty set of interrupts has one that outranks the
others) is evaluated by TLC on each configuration; it is an assumption because its
proof for all finite sets is an induction over sets.

**Timer.** `TimerExact` is not inductive: it says nothing of when the timer will call
back. `IInv` in `TimerProofs` adds that the timer is never further away than the next
change of a comparator whose companions are not 0 (`inTime`), and that a timer never
set means no comparator was written (`offAtReset`). `NextTimeoutInTime` is the core: the
least timeout, 0 replaced by the maximum, is still in time for that comparator.
`RefreshRestores` then shows that any write followed by `riscvUpdateTimer` restores
`IInv`, and `TickPreserves` that time passing keeps it.

**LR/SC.** Nothing in `ReservationUntouched` makes a store notice a reservation.
`ReservationInv` adds `Protected`: a hart that holds a tag has the granule recorded with
it, and, while it is suspended, a watch on exactly those bytes in the domain of its
mode. `StoreProtects` shows that a store keeps this for the other harts, since a
suspended hart whose granule it touches is triggered and loses its tag; the context
switch, the mode changes and the cancellations each have a step.

**PMP.** Types and `MappedWithinPMP` together are inductive, but two facts behind the steps
are not obvious. `mapAt` follows the entries of higher priority and refines the region
at each: the region it ends with lies within every entry that contains the byte
accessed and outside the others, so the privileges are right for all of its bytes. And
an entry that changes has its old and its new bytes unmapped, as far as a mode could
have had more than it now gets (`invalidatePMPEntry`); the other bytes keep their
matching entry. Both, and the bounds of regions built from powers of two (`pow2`), need
an induction over numbers. The induction theorems of the library take an operator as
parameter and cannot be instantiated, so the proofs argue by least counterexample:
`LeastNat`, from the well-foundedness of `<`, gives the first number at which the claim
fails, and the defining equation of the recursive function contradicts it there.

`StraddlesMiss` needs an invariant that is not about privileges: `BoundInv` says that in
a domain checked against all entries the two words on the sides of a bound between
regions are never both mapped across the bound (`NotSplit`). The ranges `mapAt` ends
with divide the address space (`SameRange`), so a grant that reaches a bound stops there
and takes back the byte beyond; an access decomposed across a bound takes back the
inner bytes of both parts; and a bound that appears because an entry changes has the
bytes of that entry unmapped. An aligned access of up to 4 bytes lies within a word,
which no region splits; one of 8 bytes has a bound only in its middle. The constants
have accesses wider than 4 bytes only on harts with `straddle`, as pmpStraddle is
defined (riscvMain.c:1410).

**CLIC.** `HartInv` says of each hart, under the one shared cliccfg: the mask is exact for
interrupts with a fixed edge trigger, the selection is what a refresh would compute
from the mask, and the selection is registered if it may be presented in the present
mode, with the present enables, level and threshold. Each operator on the record has
a lemma that says which of these it keeps and which it restores; a write of cliccfg
has to restore the selection of every hart of the cluster. What the proof of
`OnlyHigherPreempts` showed about reset is listed above.

**Triggers.** `Good` holds what the tests and writes of triggers rely on: the types, only
the debugger's triggers enter Debug mode and only a hart with a debugger has any,
only ICOUNT triggers are pending, only address triggers are chained, and after a trap
breakpoints are off in M mode until software turns them on. A fetch is a sequence of
tests of which each either is quiet (`Quiet`: only hits, matches and actions due
change) or acts (`Acted`: Debug mode, or M mode with the ICOUNT triggers that covered the
mode pending or disarmed), and `FetchIs` goes through them in the order of the code.
`StepBounded` is far from inductive. `Stepped` says of a trigger under which an
instruction has run that it is pending, or (`Waiting`) that the hart is in U mode, the
breakpoint is due, the trigger's match is of the count just past and no trigger has
matched since. In the second case the fetch that follows takes the breakpoint
(`DueTaken`), whatever the priorities and the other triggers; in the first the next
instruction of U mode is ended before it executes (`AccessWatched`).

**Counters.** `Exact` says how the base, whose meaning changes when a counter stops,
stands to the value the counter has to read: inhibited, the base is the value; stopped
by Debug mode, one less (the conversion listed above); running, the difference to the
simulator's count is the value. All modulo the width, which is a constant.

**TLB.** `NoOrphanMapping` and `EntriesCached` are consequences of an invariant that says
more of each mapping. `Served`: there is a live first-stage entry under which the
mapping would be removed if the entry were unmapped, and, if the mapping carries the
enable of the second stage, a live second-stage entry that the first leads to; together
they translate its page to its physical page; and by the CSR fields the mapping
carries, each of them grants at least what the mapping grants. The last part is about
`getEntryASIDMask`: the privileges of an entry depend on the fields of the mask only
(`PrivDepends`), and the mask of the second stage is part of that of the first
(`SecondMask`).

Whatever removes or changes an entry keeps this: deletion and the unmapping of the
first-stage entries that used a deleted one (`DeleteKeeps`), an entry found under other
fields (`RenewKeeps`), the ejection of an identifier (`PromoteKeeps`); and a new mapping
has it (`MapKeeps`). The order inside a miss matters: the second stage may delete or
unmap entries after the first stage was found. It never deletes the first-stage entry,
only unmaps it (`GuestStays`), so the mapping made at the end has its first stage.

`ImplementsMmu` takes the steps of `Next` one by one. `Hit` is the interesting one,
because it reads neither tables nor entries: the entries that serve the mapping
are found by the current identifiers, since the mapping in force carries the present
fields, and Mmu may use their translations with the same outcome (`HitStep`). In a miss
each stage is a use of an entry or a walk (`FindKeeps`, `WalkKeeps`), and the second stage
has the outcome that it would have had before the first changed the tables and the
entries, as Mmu asks (`SecondBefore`). A fence leaves no entry that `covers` selects
(`FenceStep`). The specification of `Mmu` has no fairness, so the refinement is a
matter of steps alone.

`ProgramsAssumption` is what a program brings: its CSR values have tables, the tables
translate whole naturally aligned blocks, as `fillTLBEntry` makes them, guest physical
pages are pages, and ASID_cache_size is not 1 (see above).

Only model-checked: the liveness properties `BoundedWaitEnds`, `StepCompletes` and
`HaltreqServed`. They hold under fairness, which is out of the prover's reach. That every
nonempty finite set of interrupts has one that outranks the others is assumed
(`PriorityAssumption`) and evaluated by TLC, as said above. `LostWakeup` is refuted and
not proved.

## Not modelled

See the component list of `PROJECT.json`. Most of the source is tables and emitters:
decode (riscvDecode.c, riscvInstructionInfo.h), code generation (riscvMorph.c),
parameters, variants and documentation are two thirds of the lines, have no state
that callbacks share, and compute functions of one instruction word or one
parameter list; the modules cover about a tenth of all lines. The bit manipulation and
cryptographic operations are pure functions on words. The MPU (Ssmpu) is compiled out
(riscvFeatures.h:25). Save and restore serialise a quiescent processor.

Within the modelled components: the N extension in `Hart` (it is in `Clic`), cause, epc
and tval, vectored handlers, guest external interrupts, Smaia priorities,
derived-model callbacks, the interrupt acknowledge timer; and what the header of each
module lists as left out.

## Plan

Done: the hart, its timers and the CLINT, PMP, TLB, LR/SC, CLIC, triggers, counters;
theorems of all their safety properties and of the refinement of `Mmu`. Next, in order:

1. `Timer` composed with `Hart`: interrupts of the comparators reach a waiting hart.
2. The bit manipulation operations against reference definitions; vector
   configuration (vl, vtype, vstart).
