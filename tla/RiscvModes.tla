----------------------------- MODULE RiscvModes -----------------------------
(***************************************************************************)
(* Privilege modes of a hart (riscvMode.h, riscvUtils.c).  A mode is the   *)
(* number the model uses for it: the virtual modes are the base modes plus *)
(* RISCV_MODE_V.                                                           *)
(***************************************************************************)
EXTENDS Integers

CONSTANT Arch            \* the mode letters of misa that are configured

RISCV_MODE_U  == 0
RISCV_MODE_S  == 1
RISCV_MODE_H  == 2       \* invalid: what a bad dcsr.prv/v pair decodes to
RISCV_MODE_M  == 3
RISCV_MODE_V  == 4
RISCV_MODE_VU == 4
RISCV_MODE_VS == 5

Mode5 == {RISCV_MODE_U, RISCV_MODE_S, RISCV_MODE_M, RISCV_MODE_VU, RISCV_MODE_VS}

(***************************************************************************)
(* Configurations: fixArch (riscvParameters.c) adds U to S, and riscvMain.c *)
(* adds S and U to H.                                                      *)
(***************************************************************************)
ASSUME ArchAssumption ==
  /\ Arch \subseteq {"U", "S", "H"}
  /\ "S" \in Arch => "U" \in Arch
  /\ "H" \in Arch => "S" \in Arch

getBaseMode(mode) == mode % 4

modeIsVirtual(mode) == mode >= RISCV_MODE_V

riscvHasMode(mode) ==
  \/ mode = RISCV_MODE_M
  \/ mode = RISCV_MODE_U /\ "U" \in Arch
  \/ mode = RISCV_MODE_S /\ "S" \in Arch
  \/ mode \in {RISCV_MODE_VU, RISCV_MODE_VS} /\ "H" \in Arch

Modes == {m \in Mode5 : riscvHasMode(m)}

riscvGetMinMode ==
  IF "U" \in Arch THEN RISCV_MODE_U
  ELSE IF "S" \in Arch THEN RISCV_MODE_S
  ELSE RISCV_MODE_M

(***************************************************************************)
(* Order of modes for interrupt enabling: virtual modes rank below U.      *)
(***************************************************************************)
mode5Priority(mode) ==
  CASE mode = RISCV_MODE_VU -> 1
    [] mode = RISCV_MODE_VS -> 2
    [] mode = RISCV_MODE_U  -> 3
    [] mode = RISCV_MODE_S  -> 4
    [] mode = RISCV_MODE_M  -> 5

(***************************************************************************)
(* Order of modes for exceptions (priMap): here U ranks with VU.           *)
(***************************************************************************)
priMap(mode) ==
  CASE mode = RISCV_MODE_VU -> 0
    [] mode = RISCV_MODE_U  -> 0
    [] mode = RISCV_MODE_VS -> 1
    [] mode = RISCV_MODE_S  -> 2
    [] mode = RISCV_MODE_M  -> 3

\* The mode an exception return lands in when the saved one does not exist.
getERETMode(newMode) ==
  IF riscvHasMode(newMode) THEN newMode ELSE riscvGetMinMode

=============================================================================
