-------------------------------- MODULE MCTlb --------------------------------
(***************************************************************************)
(* Two small programs: one in S and U modes with three ASIDs and a cache   *)
(* of two, one in a virtual machine with both stages, blocks of two pages  *)
(* and two VMIDs.                                                          *)
(***************************************************************************)
EXTENDS TlbProperties

pteOf(priv, U, G, A, D, size, ppn) ==
  [V |-> TRUE, priv |-> priv, U |-> U, G |-> G, A |-> A, D |-> D, size |-> size, ppn |-> ppn]

csr0 == [ASID_HS |-> 0, ASID_VS |-> 0, VMID |-> 0, MXR_HS |-> FALSE, SUM_HS |-> FALSE,
         MXR_VS |-> FALSE, SUM_VS |-> FALSE, S1 |-> FALSE, S2 |-> FALSE]

\* U-mode page that is executable only; U-mode data not yet dirty; global.
X1 == pteOf({"X"}, TRUE, FALSE, TRUE, TRUE, 1, 1)
D0 == pteOf({"R", "W"}, TRUE, FALSE, TRUE, FALSE, 1, 2)
G3 == pteOf({"R", "W"}, FALSE, TRUE, TRUE, TRUE, 1, 3)

HSTables(asids) ==
  [k \in {<<"HS", 0, a>> : a \in asids} |->
     [p \in {0} |-> CASE k[3] = 1 -> X1 [] k[3] = 2 -> G3 [] OTHER -> D0]]

\* Status bits vary under two ASIDs, or three ASIDs share a cache of two.
HSProgram(update, asids, bits) ==
  [updatePTEA |-> FALSE, updatePTED |-> update, version_1_11 |-> update,
   fence_g_preserves_vs |-> FALSE, ASID_cache_size |-> 2, max_cache |-> 4,
   pages |-> {0}, csr |-> [csr0 EXCEPT !.ASID_HS = 1], tables |-> HSTables(asids),
   csrs |-> {[csr0 EXCEPT !.ASID_HS = a, !.MXR_HS = x, !.SUM_HS = s] :
               a \in asids, x \in bits, s \in bits},
   ptes |-> [k \in DOMAIN HSTables(asids) |-> IF k[3] = 1 THEN {X1, D0} ELSE {}],
   requests |-> [mode : {"U", "S"}, va : {0}, need : {"R"}]
                  \union [mode : {"U"}, va : {0}, need : {"W"}],
   fences |-> [tlb : {"HS"}, va : {{0}}, id : {{}, {1}}]]

\* Guest pages of one VM: small pages, or one block of two.
S1p == pteOf({"R", "W"}, FALSE, FALSE, TRUE, TRUE, 1, 1)
S1u == pteOf({"X"}, TRUE, FALSE, TRUE, TRUE, 1, 1)
S1b == pteOf({"R"}, FALSE, TRUE, TRUE, TRUE, 2, 0)
S2p == pteOf({"R", "W"}, TRUE, FALSE, FALSE, FALSE, 1, 2)
S2b == pteOf({"R", "X"}, TRUE, FALSE, TRUE, TRUE, 2, 4)

VSTables == [k \in {<<"VS1", 1, 1>>, <<"VS1", 2, 1>>, <<"VS2", 1, 0>>, <<"VS2", 2, 0>>} |->
               [p \in {0, 1} |-> IF k[1] = "VS1" THEN S1b ELSE S2b]]

\* stages: values of VMID and of the enables of the two stages.
VSProgram(preserve, stages, bits) ==
  [updatePTEA |-> TRUE, updatePTED |-> TRUE, version_1_11 |-> TRUE,
   fence_g_preserves_vs |-> preserve, ASID_cache_size |-> 0, max_cache |-> 0,
   pages |-> {0, 1}, csr |-> [csr0 EXCEPT !.ASID_VS = 1, !.VMID = 1, !.S1 = TRUE, !.S2 = TRUE],
   tables |-> VSTables,
   csrs |-> {[csr0 EXCEPT !.ASID_VS = 1, !.VMID = v[1], !.S1 = v[2], !.S2 = v[3], !.MXR_VS = x, !.SUM_VS = x] :
               v \in stages, x \in bits},
   ptes |-> [k \in DOMAIN VSTables |->
               CASE k = <<"VS1", 1, 1>> -> IF bits = {FALSE} THEN {S1p} ELSE {S1u} [] k = <<"VS2", 1, 0>> -> {S2p}
                 [] OTHER -> {}],
   requests |-> {[mode |-> "VS", va |-> 0, need |-> "R"], [mode |-> "VS", va |-> 1, need |-> "R"],
                 [mode |-> "VS", va |-> 1, need |-> "W"]},
   fences |-> IF ~preserve
              THEN [tlb : {"VS1"}, va : {{0}}, id : {{}, {1}}]
                     \union [tlb : {"VS2"}, va : {{0}}, id : {{}}]
              ELSE {[tlb |-> "VS1", va |-> {}, id |-> {}], [tlb |-> "VS2", va |-> {0}, id |-> {1}]}]

MCPrograms == {HSProgram(FALSE, {1, 2}, BOOLEAN), HSProgram(TRUE, {1, 2, 3}, {FALSE}),
             VSProgram(TRUE, {<<1, TRUE, TRUE>>, <<1, FALSE, TRUE>>, <<2, TRUE, TRUE>>}, {FALSE}),
             VSProgram(FALSE, {<<1, TRUE, TRUE>>, <<1, TRUE, FALSE>>}, BOOLEAN)}
=============================================================================
