---------------------------- MODULE ClicProperties ----------------------------
(***************************************************************************)
(* What the CLIC promises: the cached views of its registers are current,  *)
(* and an interrupt is neither lost nor taken over a more important one.   *)
(***************************************************************************)
EXTENDS Clic

CfgRec == [nlbits : [Modes -> 0..config.LBITS], nmbits : 0..config.MBITS]

SelRec == [id : Ints \cup {NoInt}, priv : Modes, level : Levels, shv : BOOLEAN]

PendRec == [id : Ints \cup {NoInt}, priv : Modes, level : Levels]

HartRec ==
  [line : SUBSET Ints, ip : SUBSET Ints, ie : SUBSET Ints, ipe : SUBSET Ints,
   attr : [Ints -> Attr], ctl : [Ints -> Levels], sel : SelRec, pendEnab : PendRec,
   mode : Modes, IE : SUBSET Modes, PIE : SUBSET Modes, PP : [Modes -> Modes],
   il : [Modes -> Levels], pil : [Modes -> Levels], th : [Modes -> Levels],
   cause : [Modes -> Ints \cup {NoInt}]]

(***************************************************************************)
(* Types of the state.                                                     *)
(***************************************************************************)
TypeOK ==
  /\ config \in Configs
  /\ cliccfg \in CfgRec
  /\ hart \in [Harts -> HartRec]

(***************************************************************************)
(* The selected interrupt (clic.sel) of every hart is the one that its     *)
(* registers and cliccfg give now, whichever hart wrote them: it is read   *)
(* by xnxti and, for hardware vectoring, by a trap without a refresh.      *)
(***************************************************************************)
SelectionCurrent ==
  \A h \in Harts :
    hart[h].sel = riscvRefreshPendingAndEnabledInternalCLIC(hart[h], cliccfg)

(***************************************************************************)
(* The pending+enabled bits (clic.ipe) are updated incrementally by writes *)
(* of clicintip and clicintie, edges of the line, traps and xnxti.  For an *)
(* interrupt that is fixed edge-triggered they are what refreshCLICIPE     *)
(* would rebuild from the registers.                                       *)
(***************************************************************************)
EdgePendingExact ==
  \A h \in Harts, i \in config.posedge :
    i \in hart[h].ipe <=> i \in refreshCLICIPE(hart[h])

(***************************************************************************)
(* An interrupt that the hart would present is registered in pendEnab, so  *)
(* that it is taken before the next instruction: no write of a threshold,  *)
(* status or configuration register, return or acknowledgement leaves one  *)
(* behind.                                                                 *)
(***************************************************************************)
NonePresentedMissed ==
  \A h \in Harts :
    LET p == presented(hart[h], hart[h].sel)
    IN p.id # NoInt => hart[h].pendEnab = p

(***************************************************************************)
(* An edge stays pending until software clears it, or a trap or xnxti      *)
(* reports that very interrupt as the cause.                               *)
(***************************************************************************)
EdgeReported ==
  [][\A h \in Harts, i \in Ints :
       (i \in hart[h].ip /\ i \notin hart'[h].ip /\ hart[h].attr[i].edge) =>
         \/ \E m \in Modes : hart'[h].cause[m] = i
         \/ WriteInt(h)]_vars

(***************************************************************************)
(* A handler is interrupted in its own mode only by an interrupt of higher *)
(* level, above the threshold; the level of the handler is then kept in    *)
(* xcause.pil.  (Not the first one after a reset, which keeps an interrupt *)
(* registered in a lower mode, where the threshold did not apply.)         *)
(***************************************************************************)
PreemptedByHigher ==
  [][~does("reset") => \A h \in Harts :
       LET s == hart[h]
           p == s.pendEnab
       IN (p.id # NoInt /\ p.priv = s.mode /\ TakeInterrupt(h)) =>
            /\ hart'[h].il[s.mode] > s.il[s.mode]
            /\ hart'[h].il[s.mode] > s.th[s.mode]
            /\ hart'[h].pil[s.mode] = s.il[s.mode]]_vars
=============================================================================
