--------------------------- MODULE MCIrqDelivery ---------------------------
(* IrqDelivery with a timer and a keyboard on the master and a clock on the *)
(* slave, four inputs per chip.                                             *)
EXTENDS IrqDelivery

MC_PollOrder == <<"pit", "kbd", "cmos">>
MC_LineOf ==
  [pit  |-> [chip |-> "master", line |-> 0],
   kbd  |-> [chip |-> "master", line |-> 1],
   cmos |-> [chip |-> "slave", line |-> 0]]
MC_MasterImrs == {{}, {1}}
=============================================================================
