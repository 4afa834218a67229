---------------------------- MODULE LrScProperties ----------------------------
(***************************************************************************)
(* Properties of LR/SC.                                                    *)
(***************************************************************************)
EXTENDS LrSc

Watch == [mode : {"M", "S"}, low : Nat, high : Nat]

\* Types of the state.  Harts are simulated one at a time, and the one running
\* is not stalled in WRS: whatever aborts its reservation restarts it.
TypeOK ==
  /\ config \in Configs
  /\ \E h \in Harts : running \subseteq {h}
  /\ mode \in [Harts -> {"M", "S"}]
  /\ exclusiveTag \in [Harts -> Nat \union {NoTag}]
  /\ waiting \in [Harts -> BOOLEAN]
  /\ written \in [Harts -> BOOLEAN]
  /\ watch \in [Harts -> SUBSET Watch]
  /\ granule \in [Harts -> SUBSET Nat]
  /\ \A h \in running : ~waiting[h]

\* Tags are granule addresses, and a reservation outlives changes of mode only
\* where addresses mean the same in both.
watchesGranule ==
  /\ ~config.match_size
  /\ (config.trap_preserves \/ config.xret_preserves) => config.offset = 0

\* No store of another hart to a reserved granule is missed: as long as a hart
\* holds a reservation (so that SC may store), nobody else wrote to the granule
\* since the LR, whatever was switched, trapped, cancelled or reset meanwhile.
\* This needs the watch of riscvContextSwitchCB in the right place at the right
\* time.
ReservationUntouched ==
  watchesGranule => \A h \in Harts : exclusiveTag[h] # NoTag => ~written[h]

\* A store that touches the granule of a hart waiting in WRS wakes it
\* (riscvAbortExclusiveAccess), unless SC_valid already took the reservation.
WaiterWoken ==
  [][watchesGranule =>
       \A h \in Harts : (waiting[h] /\ exclusiveTag[h] # NoTag /\ ~written[h] /\ written'[h])
                        => ~waiting'[h]]_vars
=============================================================================
