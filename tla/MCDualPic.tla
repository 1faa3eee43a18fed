----------------------------- MODULE MCDualPic -----------------------------
(* DualPic with three inputs per chip: master input 1 carries the slave.    *)
EXTENDS DualPic

MC_Guests ==
  {{}, {"mask"}, {"specific"}, {"rotate"}, {"specialMask", "mask"}, {"poll"},
   {"aeoi"}, {"sfnm"}, {"noIcw4", "ltim", "single"}, {"elcr"}, {"reinit"}, {"drop"}}
MC_ElcrMasks ==
  [master : {{}, {2}}, slave : {{}, {0, 1}}]
MC_MasterIcw3 == {{1}}
MC_MasterImr == {{}, {1}}
MC_SlaveImr == {{}, {0}}
=============================================================================
