-------------------------------- MODULE MCClic --------------------------------
(***************************************************************************)
(* Small CLICs.  Interrupt 0 is fixed edge-triggered; one bit of           *)
(* clicintctl is implemented, so that there are two levels.                *)
(***************************************************************************)
EXTENDS ClicProperties, TLC

CONSTANTS h1, h2

cfgOf(mbits, ops) ==
  [harts |-> {h1}, ints |-> {0, 1}, MBITS |-> mbits, LBITS |-> 1, CTLBITS |-> 1,
   valid |-> 0..8, mayPendLevel |-> FALSE, perMode |-> FALSE, xretClears |-> FALSE,
   SHV |-> TRUE, N |-> FALSE, posedge |-> {0}, poslevel |-> {}, threshOnes |-> 0,
   ops |-> ops, attrs |-> {}, ctls |-> {}, ths |-> {}, pils |-> {}]

attr(edge, low, shv, mode) == [edge |-> edge, low |-> low, shv |-> shv, mode |-> mode]

(***************************************************************************)
(* Claims by xnxti and by hardware vectoring; levels, thresholds and       *)
(* nesting; interrupts for two modes; a cluster with a cliccfg per mode.   *)
(***************************************************************************)
MCConfigs ==
  { [cfgOf(0, {"status", "xret", "ie", "ip", "nxti"}) EXCEPT !.mayPendLevel = TRUE,
       !.attrs = {attr(FALSE, FALSE, TRUE, M), attr(TRUE, TRUE, FALSE, 2)}],
    [cfgOf(0, {"status", "xret", "ie", "cfg"}) EXCEPT !.ctls = {0, 255},
       !.ths = {0, 127}, !.pils = {0, 127}, !.ints = {0}],
    [cfgOf(2, {"status", "xret", "ie", "cfg", "nxti", "exception"}) EXCEPT !.LBITS = 0,
       !.ints = {0}, !.attrs = {attr(TRUE, FALSE, FALSE, S)}],
    [cfgOf(2, {"status", "xret", "ie", "cfg"}) EXCEPT !.LBITS = 0, !.xretClears = TRUE,
       !.ints = {0}, !.threshOnes = 127, !.ths = {0, 255}, !.attrs = {attr(TRUE, FALSE, FALSE, S)}],
    [cfgOf(1, {"status", "xret", "ie", "cfg", "reset"}) EXCEPT !.N = TRUE, !.LBITS = 0,
       !.ints = {0}, !.attrs = {attr(FALSE, FALSE, TRUE, U)}],
    [cfgOf(2, {"ie", "cfg", "reset"}) EXCEPT !.N = TRUE, !.perMode = TRUE, !.harts = {h1, h2},
       !.ints = {0}, !.ctls = {0, 255}, !.attrs = {attr(FALSE, FALSE, TRUE, S)}] }
=============================================================================
