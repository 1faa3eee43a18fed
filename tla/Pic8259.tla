------------------------------ MODULE Pic8259 ------------------------------
(***************************************************************************)
(* The 8259A interrupt controllers of crates/devices/src/pic.rs.           *)
(*                                                                         *)
(* A chip is a record (struct Pic8259), registers are sets of IR numbers,  *)
(* and every method is an operator from a chip to a chip.  The pair of     *)
(* chips (struct DualPic) is a record [master, slave].  Vector bases and   *)
(* the IRR/ISR read-back select are data nothing here depends on and are   *)
(* left out: an acknowledged vector is named by its chip and its line.     *)
(***************************************************************************)
EXTENDS Integers

CONSTANTS
  NIR,               (* IR inputs per chip: 8 in the code                   *)
  MasterEdgeOnly,    (* master inputs whose ELCR bit is hardwired to edge   *)
  SlaveEdgeOnly      (* slave inputs whose ELCR bit is hardwired to edge    *)

IR == 0 .. NIR - 1

ASSUME PicAssumption ==
  /\ NIR \in Nat \ {0}
  /\ MasterEdgeOnly \subseteq IR
  /\ SlaveEdgeOnly \subseteq IR

(* The line a DEFAULT (spurious) acknowledge reports: IR7 in the code.      *)
DefaultIR == NIR - 1

(* "No vector": the None of acknowledge().                                  *)
NoVector == [chip |-> "none", line |-> 0]

Vectors == {NoVector} \cup [chip : {"master", "slave"}, line : IR]

Phases == {"idle", "icw2", "icw3", "icw4"}

Chip ==
  [isMaster : BOOLEAN, initialized : BOOLEAN, phase : Phases,
   expectIcw4 : BOOLEAN, single : BOOLEAN, levelTriggered : BOOLEAN,
   elcr : SUBSET IR, slaveMask : SUBSET IR, slaveId : IR,
   autoEoi : BOOLEAN, specialFullyNested : BOOLEAN,
   imr : SUBSET IR, irr : SUBSET IR, isr : SUBSET IR, pins : SUBSET IR,
   pollArmed : BOOLEAN, specialMask : BOOLEAN,
   lowest : IR, rotateOnAutoEoi : BOOLEAN]

Pair == [master : Chip, slave : Chip]

ResetRole(isMaster) ==
  [isMaster |-> isMaster, initialized |-> FALSE, phase |-> "idle",
   expectIcw4 |-> FALSE, single |-> FALSE, levelTriggered |-> FALSE,
   elcr |-> {}, slaveMask |-> {}, slaveId |-> 0,
   autoEoi |-> FALSE, specialFullyNested |-> FALSE,
   imr |-> IR, irr |-> {}, isr |-> {}, pins |-> {},
   pollArmed |-> FALSE, specialMask |-> FALSE,
   lowest |-> NIR - 1, rotateOnAutoEoi |-> FALSE]

ResetPair == [master |-> ResetRole(TRUE), slave |-> ResetRole(FALSE)]

----------------------------------------------------------------------------
(* Request lines.                                                           *)

IsLevel(c, ir) == c.levelTriggered \/ ir \in c.elcr

(* set_irq_line: an edge input latches on the rise and keeps the latch when *)
(* the pin falls; a level input's request is its pin.                       *)
SetLine(c, ir, high) ==
  IF high
  THEN [c EXCEPT !.pins = @ \cup {ir},
                 !.irr  = IF IsLevel(c, ir) \/ ir \notin c.pins
                          THEN @ \cup {ir} ELSE @]
  ELSE [c EXCEPT !.pins = @ \ {ir},
                 !.irr  = IF IsLevel(c, ir) THEN @ \ {ir} ELSE @]

RefreshLevelIrr(c) ==
  [c EXCEPT !.irr = {ir \in IR : IF IsLevel(c, ir) THEN ir \in c.pins
                                                   ELSE ir \in c.irr}]

(* Mutant: an ELCR write that does not resample the pins.                   *)
SetElcrNoRefresh(c, mask) == [c EXCEPT !.elcr = mask]

SetElcr(c, mask) == RefreshLevelIrr([c EXCEPT !.elcr = mask])

----------------------------------------------------------------------------
(* The priority resolver.                                                   *)

(* 0 is the highest priority; the input after the lowest one has it.        *)
Rank(c, ir) == (ir - (c.lowest + 1)) % NIR

(* Does the in-service input hp keep a request on ir from being recognised? *)
InServiceBlocks(c, hp, ir) ==
  IF c.specialMask
  THEN hp \notin c.imr /\ Rank(c, hp) <= Rank(c, ir)
  ELSE IF c.specialFullyNested /\ c.isMaster /\ hp \in c.slaveMask
       THEN Rank(c, hp) < Rank(c, ir)
       ELSE Rank(c, hp) <= Rank(c, ir)

Requests(c) ==
  {ir \in c.irr \ c.imr : /\ c.initialized
                          /\ \A hp \in c.isr : ~InServiceBlocks(c, hp, ir)}

IntPending(c) == Requests(c) # {}

Highest(c, S) == CHOOSE i \in S : \A j \in S : Rank(c, i) <= Rank(c, j)

----------------------------------------------------------------------------
(* Acknowledge, end of interrupt, rotation.                                 *)

(* An input a slave hangs on is never remapped to the DEFAULT line.         *)
CascadeInput(c, ir) == c.isMaster /\ ~c.single /\ ir \in c.slaveMask

Spurious(c, ir) == ir \notin c.pins /\ ~CascadeInput(c, ir)

AckLine(c, ir) == IF Spurious(c, ir) THEN DefaultIR ELSE ir

AckIr(c, ir) ==
  IF Spurious(c, ir)
  THEN [c EXCEPT !.irr = @ \ {ir}]
  ELSE [c EXCEPT
          !.irr    = IF IsLevel(c, ir) /\ ir \in c.pins
                     THEN @ \cup {ir} ELSE @ \ {ir},
          !.isr    = IF c.autoEoi THEN @ \ {ir} ELSE @ \cup {ir},
          !.lowest = IF c.autoEoi /\ c.rotateOnAutoEoi THEN ir ELSE @]

(* Which in-service inputs a non-specific EOI considers: Special Mask Mode  *)
(* skips the masked ones.                                                   *)
EoiCandidates(c) == IF c.specialMask THEN c.isr \ c.imr ELSE c.isr

(* Mutant: the scan for the input to end runs from the lowest priority up.  *)
NonSpecificEoiLowest(c, rotate) ==
  IF EoiCandidates(c) = {} THEN c
  ELSE LET ir == CHOOSE i \in EoiCandidates(c) :
                   \A j \in EoiCandidates(c) : Rank(c, j) <= Rank(c, i)
       IN  [c EXCEPT !.isr = @ \ {ir}, !.lowest = IF rotate THEN ir ELSE @]

NonSpecificEoi(c, rotate) ==
  IF EoiCandidates(c) = {} THEN c
  ELSE LET ir == Highest(c, EoiCandidates(c))
       IN  [c EXCEPT !.isr = @ \ {ir}, !.lowest = IF rotate THEN ir ELSE @]

Ocw2Commands ==
  {"eoi", "rotateEoi", "specificEoi", "rotateSpecificEoi", "setPriority",
   "setRotateAeoi", "clearRotateAeoi", "nop"}

Ocw2(c, command, level) ==
  CASE command = "eoi"               -> NonSpecificEoi(c, FALSE)
    [] command = "rotateEoi"         -> NonSpecificEoi(c, TRUE)
    [] command = "specificEoi"       -> [c EXCEPT !.isr = @ \ {level}]
    [] command = "rotateSpecificEoi" -> [c EXCEPT !.isr = @ \ {level},
                                                  !.lowest = level]
    [] command = "setPriority"       -> [c EXCEPT !.lowest = level]
    [] command = "setRotateAeoi"     -> [c EXCEPT !.rotateOnAutoEoi = TRUE]
    [] command = "clearRotateAeoi"   -> [c EXCEPT !.rotateOnAutoEoi = FALSE]
    [] OTHER                         -> c

(* mask: "keep" (ESMM=0), "set" or "clear"; poll: the P bit.                *)
Ocw3(c, mask, poll) ==
  [c EXCEPT !.specialMask = IF mask = "keep" THEN @ ELSE mask = "set",
            !.pollArmed   = @ \/ poll]

----------------------------------------------------------------------------
(* Initialization command words.  ICW1 keeps the IMR and the ELCR mask.     *)

BeginIcw1(c, word) ==
  [ResetRole(c.isMaster) EXCEPT
     !.phase = "icw2", !.expectIcw4 = word.ic4, !.single = word.single,
     !.levelTriggered = word.ltim, !.elcr = c.elcr, !.imr = c.imr]

FinishInit(c) == [c EXCEPT !.phase = "idle", !.initialized = TRUE]

Icw4OrFinish(c) ==
  IF c.expectIcw4 THEN [c EXCEPT !.phase = "icw4"] ELSE FinishInit(c)

WriteIcw2(c) ==
  IF c.single THEN Icw4OrFinish(c) ELSE [c EXCEPT !.phase = "icw3"]

WriteIcw3(c, mask, id) ==
  Icw4OrFinish(IF c.isMaster THEN [c EXCEPT !.slaveMask = mask]
                             ELSE [c EXCEPT !.slaveId = id])

WriteIcw4(c, aeoi, sfnm) ==
  FinishInit([c EXCEPT !.autoEoi = aeoi,
                       !.specialFullyNested = c.isMaster /\ sfnm])

(* Mutant: masking an input discards its request.                           *)
WriteImrDropsMasked(c, mask) == [c EXCEPT !.imr = mask, !.irr = @ \ mask]

WriteImr(c, mask) == [c EXCEPT !.imr = mask]

----------------------------------------------------------------------------
(* The cascaded pair.                                                       *)

CascadeActive(d) ==
  /\ d.master.initialized /\ ~d.master.single
  /\ d.slave.initialized  /\ ~d.slave.single
  /\ d.slave.slaveId \in d.master.slaveMask

(* sync_cascade: the slave's INT output drives the master's cascade input.  *)
SyncCascade(d) ==
  IF CascadeActive(d)
  THEN [d EXCEPT !.master =
          SetLine(d.master, d.slave.slaveId, IntPending(d.slave))]
  ELSE d

SetElcrLevelMask(d, master, slave) ==
  SyncCascade([master |-> SetElcr(d.master, master \ MasterEdgeOnly),
               slave  |-> SetElcr(d.slave, slave \ SlaveEdgeOnly)])

SetMasterLine(d, ir, high) ==
  [d EXCEPT !.master = SetLine(d.master, ir, high)]

(* Mutants: the global IRQ number used as the slave's input number, and a   *)
(* slave line that does not reach the master.                               *)
SetSlaveLineGlobal(d, ir, high) ==
  SyncCascade([d EXCEPT !.slave = SetLine(d.slave, ir + NIR, high)])

SetSlaveLineUnsynced(d, ir, high) ==
  [d EXCEPT !.slave = SetLine(d.slave, ir, high)]

SetSlaveLine(d, ir, high) ==
  SyncCascade([d EXCEPT !.slave = SetLine(d.slave, ir, high)])

(* The slave's half of an acknowledge the master sent it.                   *)
SlaveAck(s) == IF IntPending(s) THEN AckIr(s, Highest(s, Requests(s))) ELSE s

SlaveAckLine(s) ==
  IF IntPending(s) THEN AckLine(s, Highest(s, Requests(s))) ELSE DefaultIR

(* Mutant: no sync_cascade once the slave's request is in service.          *)
AckUnsynced(d) ==
  LET ir == Highest(d.master, Requests(d.master))
  IN  IF ~IntPending(d.master) THEN d
      ELSE IF CascadeInput(d.master, ir)
           THEN [master |-> AckIr(d.master, ir), slave |-> SlaveAck(d.slave)]
           ELSE [d EXCEPT !.master = AckIr(d.master, ir)]

(* acknowledge() after its leading sync_cascade.                            *)
AckSynced(d) ==
  LET ir == Highest(d.master, Requests(d.master))
  IN  IF ~IntPending(d.master) THEN d
      ELSE IF CascadeInput(d.master, ir)
           THEN SyncCascade([master |-> AckIr(d.master, ir),
                             slave  |-> SlaveAck(d.slave)])
           ELSE [d EXCEPT !.master = AckIr(d.master, ir)]

(* The vector it returns; a slave in its ICW sequence has none to give.     *)
AckVectorSynced(d) ==
  LET ir == Highest(d.master, Requests(d.master))
  IN  IF ~IntPending(d.master) THEN NoVector
      ELSE IF CascadeInput(d.master, ir)
           THEN IF d.slave.initialized
                THEN [chip |-> "slave", line |-> SlaveAckLine(d.slave)]
                ELSE NoVector
           ELSE [chip |-> "master", line |-> AckLine(d.master, ir)]

Acknowledge(d) == AckSynced(SyncCascade(d))

AckVector(d) == AckVectorSynced(SyncCascade(d))

(* take_poll_command_byte: an armed command-port read acknowledges on the   *)
(* addressed chip alone.                                                    *)
TakePoll(c) ==
  LET disarmed == [c EXCEPT !.pollArmed = FALSE]
  IN  IF IntPending(c) THEN AckIr(disarmed, Highest(c, Requests(c)))
                       ELSE disarmed

PollCommandRead(d, chip) ==
  LET e == SyncCascade(d)
  IN  SyncCascade([e EXCEPT ![chip] = TakePoll(e[chip])])

----------------------------------------------------------------------------
(* A chip as a guest's driver programs it: ICW1-4, then all inputs open.    *)
Programmed(c, cascade) ==
  WriteImr(
    WriteIcw4(
      WriteIcw3(
        WriteIcw2(
          BeginIcw1(c, [ic4 |-> TRUE, single |-> FALSE, ltim |-> FALSE])),
        {cascade}, cascade),
      FALSE, FALSE),
    {})
=============================================================================
