-------------------------------- MODULE MCLrSc --------------------------------
(***************************************************************************)
(* Two harts and two granules of 8 bytes.                                  *)
(***************************************************************************)
EXTENDS LrScProperties

cfgOf(match, amo, preserve, offset) ==
  [grain |-> 8, match_size |-> match, amo_aborts |-> amo,
   trap_preserves |-> preserve, xret_preserves |-> preserve, offset |-> offset]

MCConfigs == {cfgOf(FALSE, TRUE, FALSE, 8), cfgOf(FALSE, FALSE, TRUE, 0)}

MCAccesses == {<<0, 8>>, <<12, 4>>}
=============================================================================
