------------------------------ MODULE DualPic ------------------------------
(***************************************************************************)
(* The cascaded 8259A pair as the machine drives it: guest port writes and *)
(* reads, device lines, ELCR writes and the CPU's acknowledge, in any      *)
(* order.  What a guest's driver uses of the chip is a set of features, a  *)
(* guest, fixed from the start: the properties say for which guests they   *)
(* hold.                                                                   *)
(***************************************************************************)
EXTENDS Pic8259, Sequences

CONSTANTS
  Guests,            (* the guests considered, each a set of Features       *)
  MasterLines,       (* master inputs devices drive                         *)
  SlaveLines,        (* slave inputs devices drive                          *)
  MasterIcw3,        (* slave masks the guest writes to the master          *)
  SlaveIcw3,         (* cascade ids the guest writes to the slave           *)
  MasterImr,         (* OCW1 values the guest writes to the master          *)
  SlaveImr,          (* OCW1 values the guest writes to the slave           *)
  ElcrMasks          (* [master, slave] ELCR values the guest writes        *)

Features ==
  {"mask",           \* OCW1 after the chip is initialized
   "specific",       \* specific EOI
   "rotate",         \* rotation and set-priority commands
   "specialMask",    \* OCW3 Special Mask Mode
   "poll",           \* OCW3 poll command
   "aeoi",           \* ICW4 automatic EOI
   "sfnm",           \* ICW4 special fully nested mode
   "noIcw4",         \* an ICW1 without ICW4
   "ltim",           \* ICW1 level-triggered mode
   "single",         \* ICW1 single mode
   "elcr",           \* ELCR writes
   "reinit",         \* ICW1 to a chip in use
   "drop"}           \* devices may drop an edge request before its acknowledge

Chips == {"master", "slave"}

ASSUME DualPicAssumption ==
  /\ Guests \subseteq SUBSET Features
  /\ MasterLines \subseteq IR /\ SlaveLines \subseteq IR
  /\ MasterIcw3 \subseteq SUBSET IR
  /\ SlaveIcw3 \subseteq IR
  /\ \A mask \in MasterIcw3 : mask \cap MasterLines = {}
  /\ MasterImr \subseteq SUBSET IR /\ SlaveImr \subseteq SUBSET IR
  /\ ElcrMasks \subseteq [master : SUBSET IR, slave : SUBSET IR]

VARIABLES
  pic,               (* the pair of chips                                   *)
  guest,             (* the features this behaviour's guest and devices use *)
  served             (* history: per chip, the inputs in service, oldest    *)
                     (* first (kept for guests that only nest)              *)

vars == <<pic, guest, served>>

Init ==
  /\ pic = ResetPair
  /\ guest \in Guests
  /\ served = [chip \in Chips |-> <<>>]

(* Guests that leave the priority order alone and end interrupts with the   *)
(* plain non-specific EOI.                                                  *)
NestsOnly ==
  guest \cap {"specific", "rotate", "specialMask", "aeoi", "sfnm"} = {}

----------------------------------------------------------------------------
(* History: what an acknowledge puts in service is pushed, an EOI pops.     *)

PushNew(stack, old, new) ==
  IF new \subseteq old THEN stack
  ELSE Append(stack, CHOOSE ir \in new \ old : TRUE)

Pop(stack) == IF stack = <<>> THEN stack ELSE SubSeq(stack, 1, Len(stack) - 1)

RecordAck ==
  served' = IF NestsOnly
            THEN [chip \in Chips |->
                    PushNew(served[chip], pic[chip].isr, pic'[chip].isr)]
            ELSE served

----------------------------------------------------------------------------
(* Guest port accesses.  Every write ends in sync_cascade.                  *)

WriteChip(chip, c) == pic' = SyncCascade([pic EXCEPT ![chip] = c])

Icw1Words == [ic4 : BOOLEAN, single : BOOLEAN, ltim : BOOLEAN]

WriteIcw1(chip) ==
  /\ "reinit" \in guest \/ (~pic[chip].initialized /\ pic[chip].phase = "idle")
  /\ \E word \in Icw1Words :
       /\ word.ltim => "ltim" \in guest
       /\ word.single => "single" \in guest
       /\ ~word.ic4 => "noIcw4" \in guest
       /\ WriteChip(chip, BeginIcw1(pic[chip], word))
  /\ served' = [served EXCEPT ![chip] = <<>>]
  /\ UNCHANGED guest

WriteData2(chip) ==
  /\ pic[chip].phase = "icw2"
  /\ WriteChip(chip, WriteIcw2(pic[chip]))
  /\ UNCHANGED <<guest, served>>

WriteData3(chip) ==
  /\ pic[chip].phase = "icw3"
  /\ \E mask \in MasterIcw3, id \in SlaveIcw3 :
       WriteChip(chip, WriteIcw3(pic[chip], mask, id))
  /\ UNCHANGED <<guest, served>>

WriteData4(chip) ==
  /\ pic[chip].phase = "icw4"
  /\ \E aeoi, sfnm \in BOOLEAN :
       /\ aeoi => "aeoi" \in guest
       /\ sfnm => "sfnm" \in guest
       /\ WriteChip(chip, WriteIcw4(pic[chip], aeoi, sfnm))
  /\ UNCHANGED <<guest, served>>

WriteOcw1(chip) ==
  /\ pic[chip].phase = "idle"
  /\ pic[chip].initialized => "mask" \in guest
  /\ \E mask \in IF chip = "master" THEN MasterImr ELSE SlaveImr :
       WriteChip(chip, WriteImr(pic[chip], mask))
  /\ UNCHANGED <<guest, served>>

EndOfInterrupt(chip) ==
  /\ pic[chip].phase = "idle"
  /\ WriteChip(chip, Ocw2(pic[chip], "eoi", 0))
  /\ served' = [served EXCEPT ![chip] = Pop(@)]
  /\ UNCHANGED guest

SpecificEoi(chip) ==
  /\ pic[chip].phase = "idle"
  /\ "specific" \in guest
  /\ \E level \in IR : WriteChip(chip, Ocw2(pic[chip], "specificEoi", level))
  /\ UNCHANGED <<guest, served>>

Rotate(chip) ==
  /\ pic[chip].phase = "idle"
  /\ "rotate" \in guest
  /\ \E command \in {"rotateEoi", "rotateSpecificEoi", "setPriority",
                     "setRotateAeoi", "clearRotateAeoi"}, level \in IR :
       WriteChip(chip, Ocw2(pic[chip], command, level))
  /\ UNCHANGED <<guest, served>>

WriteOcw3(chip) ==
  /\ pic[chip].phase = "idle"
  /\ \E mask \in {"keep", "set", "clear"}, poll \in BOOLEAN :
       /\ mask # "keep" => "specialMask" \in guest
       /\ poll => "poll" \in guest
       /\ WriteChip(chip, Ocw3(pic[chip], mask, poll))
  /\ UNCHANGED <<guest, served>>

(* A command-port read with the poll command armed.                         *)
PollRead(chip) ==
  /\ pic[chip].pollArmed
  /\ pic' = PollCommandRead(pic, chip)
  /\ RecordAck
  /\ UNCHANGED guest

WriteElcr ==
  /\ "elcr" \in guest
  /\ \E masks \in ElcrMasks :
       pic' = SetElcrLevelMask(pic, masks.master, masks.slave)
  /\ UNCHANGED <<guest, served>>

----------------------------------------------------------------------------
(* Device lines and the CPU's acknowledge.                                  *)

(* A device that holds an edge request until it is acknowledged, unless the *)
(* guest's devices drop requests.                                           *)
MayDrop(c, ir) == "drop" \in guest \/ IsLevel(c, ir) \/ ir \notin c.irr

MasterLine(ir) ==
  /\ \E high \in BOOLEAN :
       /\ ~high => MayDrop(pic.master, ir)
       /\ pic' = SetMasterLine(pic, ir, high)
  /\ UNCHANGED <<guest, served>>

SlaveLine(ir) ==
  /\ \E high \in BOOLEAN :
       /\ ~high => MayDrop(pic.slave, ir)
       /\ pic' = SetSlaveLine(pic, ir, high)
  /\ UNCHANGED <<guest, served>>

CpuAcknowledge ==
  /\ pic' = Acknowledge(pic)
  /\ RecordAck
  /\ UNCHANGED guest

(* Machine::reset: both chips return to their power-on state.               *)
MachineReset ==
  /\ pic' = ResetPair
  /\ served' = [chip \in Chips |-> <<>>]
  /\ UNCHANGED guest

----------------------------------------------------------------------------

GuestWrite(chip) ==
  \/ WriteIcw1(chip)
  \/ WriteData2(chip)
  \/ WriteData3(chip)
  \/ WriteData4(chip)
  \/ WriteOcw1(chip)
  \/ EndOfInterrupt(chip)
  \/ SpecificEoi(chip)
  \/ Rotate(chip)
  \/ WriteOcw3(chip)
  \/ PollRead(chip)

Next ==
  \/ \E chip \in Chips : GuestWrite(chip)
  \/ WriteElcr
  \/ \E ir \in MasterLines : MasterLine(ir)
  \/ \E ir \in SlaveLines : SlaveLine(ir)
  \/ CpuAcknowledge
  \/ MachineReset

Spec == Init /\ [][Next]_vars

----------------------------------------------------------------------------
(* Properties.                                                              *)

TypeOK ==
  /\ pic \in Pair
  /\ pic.master.isMaster /\ ~pic.slave.isMaster
  /\ guest \in Guests
  /\ served \in [Chips -> Seq(IR)]

(* A level-sensitive input requests exactly while its pin is high, whatever *)
(* acknowledges, ELCR switches and ICWs came between: refresh after an ELCR *)
(* write, re-pending after an acknowledge, clearing on deassert.            *)
LevelRequestIsPin ==
  \A chip \in Chips, ir \in IR :
    IsLevel(pic[chip], ir) => (ir \in pic[chip].irr <=> ir \in pic[chip].pins)

(* With the cascade programmed, the master's cascade pin is the slave's INT *)
(* output after every operation on either chip: every path that moves the   *)
(* slave's IRR, ISR, IMR or priority ends in sync_cascade.                  *)
CascadePinFollowsSlave ==
  CascadeActive(pic) =>
    (pic.slave.slaveId \in pic.master.pins <=> IntPending(pic.slave))

(* Guests and devices for which no slave request is left behind: no AEOI,   *)
(* no software poll, no second ICW1, and edge requests held until they are  *)
(* acknowledged.  Each of the four lets the master's cascade request be     *)
(* consumed while the slave's INT output stays high, after which no edge    *)
(* ever follows.                                                            *)
KeepsCascadeEdges == guest \cap {"aeoi", "poll", "drop", "reinit"} = {}

(* A deliverable slave request is pending at the master too: no edge of the *)
(* slave's INT output is lost, so the request is delivered once the master  *)
(* unblocks it.                                                             *)
SlaveRequestReachesMaster ==
  KeepsCascadeEdges /\ CascadeActive(pic) /\ IntPending(pic.slave)
    => pic.slave.slaveId \in pic.master.irr

(* For a guest that only nests, a chip's in-service inputs are those its    *)
(* acknowledges pushed and its EOIs have not popped, each of strictly       *)
(* higher priority than the one it interrupted: a non-specific EOI ends the *)
(* innermost handler and no other.                                          *)
ServiceNests ==
  NestsOnly =>
    \A chip \in Chips :
      /\ pic[chip].isr = {served[chip][i] : i \in 1 .. Len(served[chip])}
      /\ \A i, j \in 1 .. Len(served[chip]) :
           i < j => Rank(pic[chip], served[chip][j])
                      < Rank(pic[chip], served[chip][i])

(* An edge request survives masking, EOIs, priority changes, the other      *)
(* chip's acknowledges and its own pin falling: only its acknowledge, an    *)
(* ICW1 to its chip, a machine reset or a switch to level sense retires it. *)
EdgeRequestSticks ==
  [][\A chip \in Chips, ir \in IR :
       LET c == pic[chip]
           d == pic'[chip]
       IN  (ir \in c.irr /\ ~IsLevel(c, ir) /\ ir \notin d.irr)
             => \/ d.phase = "icw2"
                \/ MachineReset
                \/ IsLevel(d, ir)
                \/ ir \in Requests(c) /\ (ir \in d.isr \/ d.autoEoi
                                            \/ ir \notin c.pins)]_vars
=============================================================================
