------------------------------ MODULE MCCounters ------------------------------
(***************************************************************************)
(* Counters of two bits, in halves of one bit: harts with and without      *)
(* Debug mode, alone and in a cluster.                                     *)
(***************************************************************************)
EXTENDS CountersProperties

cfgOf(debug, parent, XLEN32, countsFetch) ==
  [debug |-> debug, parent |-> parent, XLEN32 |-> XLEN32, countsFetch |-> countsFetch]

MCConfigs ==
  {cfgOf(FALSE, FALSE, TRUE, TRUE), cfgOf(TRUE, FALSE, FALSE, TRUE), cfgOf(TRUE, TRUE, TRUE, FALSE)}
=============================================================================
