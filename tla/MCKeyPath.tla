----------------------------- MODULE MCKeyPath -----------------------------
(* KeyPath with four inputs per interrupt controller, the slave on input 2. *)
EXTENDS KeyPath

MC_Configs ==
  {[int1 |-> TRUE, int12 |-> TRUE, kbdOff |-> FALSE, auxOff |-> FALSE, translate |-> TRUE],
   [int1 |-> TRUE, int12 |-> FALSE, kbdOff |-> FALSE, auxOff |-> TRUE, translate |-> FALSE],
   [int1 |-> FALSE, int12 |-> TRUE, kbdOff |-> TRUE, auxOff |-> TRUE, translate |-> FALSE]}

MC_Guests ==
  {{"keys", "bios", "breaks", "host"}, {"bios", "irq", "barge"},
   {"keys", "clock", "config", "breaks"}, {"keys", "keyboard", "clock"},
   {"mouse", "config"}, {"keys", "mouse", "clock"}, {"keys", "dump", "a20"},
   {"keys", "irq", "breaks"}, {"keys", "barge", "irq"},
   {"keys", "barge", "bios", "host"}}
=============================================================================
