-------------------------------- MODULE MCPmp --------------------------------
(***************************************************************************)
(* Instance of PmpProperties for TLC.                                      *)
(***************************************************************************)
EXTENDS PmpProperties

cfgOf(p, mode, l) == [priv |-> p, mode |-> mode, L |-> l]

\* Entries of each mode, locked and not, with privileges that MML changes.
MCCfgValues ==
  {cfgOf({}, "OFF", FALSE), cfgOf({"R"}, "TOR", TRUE), cfgOf({"W"}, "TOR", FALSE),
   cfgOf({"R", "W"}, "NAPOT", FALSE)}

base == [grain |-> 0, max_page |-> 0, unaligned |-> FALSE, decompose |-> FALSE,
         straddle |-> TRUE, Smepmp |-> TRUE, separate |-> FALSE]

MCConfigs ==
  {base,
   [base EXCEPT !.unaligned = TRUE, !.decompose = TRUE, !.max_page = 8, !.Smepmp = FALSE],
   [base EXCEPT !.unaligned = TRUE, !.grain = 1, !.separate = TRUE, !.Smepmp = FALSE]}

\* Aligned accesses of 4 and 8 bytes and unaligned ones over each boundary.
MCAccesses ==
  {<<"R", 0, 7>>, <<"W", 4, 7>>, <<"R", 6, 9>>}
=============================================================================
