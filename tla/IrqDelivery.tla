---------------------------- MODULE IrqDelivery ----------------------------
(***************************************************************************)
(* From a device's interrupt output to the CPU's handler: the machine step *)
(* (step_paged of x86-interpreter, Machine::step of machine-pc) with the   *)
(* 8259A pair of Pic8259 between the devices and the CPU.                  *)
(*                                                                         *)
(* Every step services a latched NMI first; otherwise it samples all       *)
(* device outputs, acknowledges the PIC, queues the vector in the CPU's    *)
(* single slot and delivers it if it may; otherwise it executes one        *)
(* instruction of the guest.  Between steps the host moves the devices.    *)
(*                                                                         *)
(* The guest is any program whose handlers service their device, write the *)
(* non-specific EOIs their vector calls for and return.  Left out: the     *)
(* polls between the iterations of a REP string instruction, faults.       *)
(***************************************************************************)
EXTENDS Pic8259, Sequences, SequencesExt, FiniteSets

CONSTANTS
  PollOrder,         (* the devices, in the order a poll samples them       *)
  LineOf,            (* the chip and input each device drives               *)
  Timers,            (* devices whose tick pulses their line low, then high *)
  SelfClearing,      (* devices whose output falls by itself (PIT channel 0)*)
  Cascade,           (* the master input the slave hangs on                 *)
  MasterImrs,        (* OCW1 values the guest writes to the master          *)
  MaxDepth           (* bound: nested handlers                              *)

Devices == ToSet(PollOrder)

ASSUME IrqAssumption ==
  /\ PollOrder \in Seq(Devices)
  /\ LineOf \in [Devices -> [chip : {"master", "slave"}, line : IR]]
  /\ Cascade \in IR /\ Cascade # DefaultIR
  /\ \A dev \in Devices : LineOf[dev].line # DefaultIR
                          /\ LineOf[dev] # [chip |-> "master", line |-> Cascade]
  /\ SelfClearing \subseteq Timers /\ Timers \subseteq Devices
  /\ MasterImrs \subseteq SUBSET IR
  /\ MaxDepth \in Nat

VARIABLES
  pic,               (* the pair of interrupt controllers                   *)
  out,               (* each device's interrupt output                      *)
  cpu,               (* the CPU state interrupts depend on                  *)
  frames,            (* the interrupt frames on the guest's stack           *)
  pair,              (* history: is the next instruction the partner of a   *)
                     (* MOV SS, and has an NMI come between the two?        *)
  lost               (* history: acknowledged vectors that were overwritten *)
                     (* in the slot, counted by the chips they hold ISR     *)
                     (* bits of                                             *)

vars == <<pic, out, cpu, frames, pair, lost>>

Cpu == [ifl : BOOLEAN, shadow : 0 .. 2, halted : BOOLEAN,
        pendingIrq : Vectors, pendingNmi : BOOLEAN]

(* What a handler has still to do, from its entry to its return.            *)
Stages == {"service", "eoiSlave", "eoiMaster", "iret"}

Pairs == {"none", "fresh", "split"}

Frames == [vector : Vectors, savedIf : BOOLEAN, pair : Pairs, stage : Stages]

(* The frame of an NMI has no PIC vector.                                   *)
IsNmi(f) == f.vector = NoVector

(* The ISR bits a vector's acknowledge set, which its handler must end.     *)
OwesMaster(v) == v # NoVector /\ (v.chip = "slave" \/ v.line # DefaultIR)
OwesSlave(v)  == v.chip = "slave" /\ v.line # DefaultIR

----------------------------------------------------------------------------
Init ==
  /\ pic = [master |-> Programmed(ResetRole(TRUE), Cascade),
            slave  |-> Programmed(ResetRole(FALSE), Cascade)]
  /\ out = [dev \in Devices |-> FALSE]
  /\ cpu = [ifl |-> FALSE, shadow |-> 0, halted |-> FALSE,
            pendingIrq |-> NoVector, pendingNmi |-> FALSE]
  /\ frames = <<>>
  /\ pair = "none"
  /\ lost = [chip \in {"master", "slave"} |-> 0]

----------------------------------------------------------------------------
(* The host moves devices between steps.                                    *)

Drive(d, dev, high) ==
  IF LineOf[dev].chip = "master"
  THEN SetMasterLine(d, LineOf[dev].line, high)
  ELSE SetSlaveLine(d, LineOf[dev].line, high)

(* A device with something to report raises its output; the PIC sees it at  *)
(* the next poll.                                                           *)
DeviceRaise(dev) ==
  /\ dev \notin Timers /\ ~out[dev]
  /\ out' = [out EXCEPT ![dev] = TRUE]
  /\ UNCHANGED <<pic, cpu, frames, pair, lost>>

(* A tick in which the output rises pulses the line, whatever the output is *)
(* when the tick's clocks are spent; one without follows the output.        *)
TickRising(dev) ==
  /\ \E high \in BOOLEAN :
       /\ ~high => dev \in SelfClearing
       /\ out' = [out EXCEPT ![dev] = high]
       /\ pic' = Drive(Drive(pic, dev, FALSE), dev, TRUE)
  /\ UNCHANGED <<cpu, frames, pair, lost>>

TickFalling(dev) ==
  /\ dev \in SelfClearing /\ out[dev]
  /\ out' = [out EXCEPT ![dev] = FALSE]
  /\ pic' = Drive(pic, dev, FALSE)
  /\ UNCHANGED <<cpu, frames, pair, lost>>

(* inject_nmi; a request the CMOS mask drops changes nothing.               *)
InjectNmi ==
  /\ ~cpu.pendingNmi /\ Len(frames) < MaxDepth
  /\ cpu' = [cpu EXCEPT !.pendingNmi = TRUE]
  /\ UNCHANGED <<pic, out, frames, pair, lost>>

----------------------------------------------------------------------------
(* The CPU's poll of the PIC: every device output is sampled, the PIC is    *)
(* acknowledged whatever IF and the shadow are, and a vector it returns     *)
(* takes the slot.                                                          *)

(* The PIC once the first n devices are sampled, and what a poll leaves in  *)
(* it and returns: one outcome each, written as a set for the quantifier    *)
(* that binds it in Step.                                                   *)
Sampled[n \in 0 .. Len(PollOrder)] ==
  IF n = 0 THEN {pic}
  ELSE {Drive(d, PollOrder[n], out[PollOrder[n]]) : d \in Sampled[n - 1]}

Polls ==
  LET synced == {SyncCascade(d) : d \in Sampled[Len(PollOrder)]}
  IN  {[pic |-> AckSynced(d), vector |-> AckVectorSynced(d)] : d \in synced}

(* The slot after the poll.                                                 *)
Slot(poll) == IF poll.vector # NoVector THEN poll.vector ELSE cpu.pendingIrq

Overwritten(poll) == poll.vector # NoVector /\ cpu.pendingIrq # NoVector

RecordLost(poll) ==
  lost' = [chip \in {"master", "slave"} |->
             lost[chip]
             + (IF /\ Overwritten(poll)
                   /\ IF chip = "master" THEN OwesMaster(cpu.pendingIrq)
                                         ELSE OwesSlave(cpu.pendingIrq)
                THEN 1 ELSE 0)]

MayDeliver(poll) == cpu.ifl /\ cpu.shadow = 0 /\ Slot(poll) # NoVector

(* Entering a handler pushes the frame and clears IF; it does not count as  *)
(* an instruction, so the shadow stays.                                     *)
EntryStage(v) ==
  IF v = NoVector \/ (v.chip = "master" /\ v.line = DefaultIR) THEN "iret"
  ELSE IF v.line # DefaultIR THEN "service" ELSE "eoiMaster"

Push(v) ==
  /\ frames' = Append(frames, [vector |-> v, savedIf |-> cpu.ifl,
                               pair |-> pair, stage |-> EntryStage(v)])
  /\ pair' = "none"

StepNmi ==
  /\ cpu.pendingNmi
  /\ Push(NoVector)
  /\ cpu' = [cpu EXCEPT !.pendingNmi = FALSE, !.halted = FALSE, !.ifl = FALSE]
  /\ UNCHANGED <<pic, out, lost>>

(* Mutant: the slot is not emptied.                                         *)
StepIrqKeepsSlot(poll) ==
  /\ ~cpu.pendingNmi
  /\ MayDeliver(poll)
  /\ pic' = poll.pic
  /\ RecordLost(poll)
  /\ Push(Slot(poll))
  /\ cpu' = [cpu EXCEPT !.pendingIrq = Slot(poll), !.halted = FALSE,
                        !.ifl = FALSE]
  /\ UNCHANGED out

StepIrq(poll) ==
  /\ ~cpu.pendingNmi
  /\ MayDeliver(poll)
  /\ pic' = poll.pic
  /\ RecordLost(poll)
  /\ Push(Slot(poll))
  /\ cpu' = [cpu EXCEPT !.pendingIrq = NoVector, !.halted = FALSE,
                        !.ifl = FALSE]
  /\ UNCHANGED out

StepHalted(poll) ==
  /\ ~cpu.pendingNmi /\ ~MayDeliver(poll)
  /\ cpu.halted
  /\ pic' = poll.pic
  /\ RecordLost(poll)
  /\ cpu' = [cpu EXCEPT !.pendingIrq = Slot(poll)]
  /\ UNCHANGED <<out, frames, pair>>

----------------------------------------------------------------------------
(* One instruction: the poll before it, its own effect, and the retirement  *)
(* of one boundary of the MOV SS shadow after it.                           *)

(* Mutant: the decrement does not saturate.                                 *)
RetiredWraps(shadow) == shadow - 1

Retired(shadow) == IF shadow = 0 THEN 0 ELSE shadow - 1

(* Mutant: the shadow armed for the instruction itself only.                *)
ArmedOnce == 1

Armed == 2

Executes(poll) ==
  /\ ~cpu.pendingNmi /\ ~MayDeliver(poll)
  /\ ~cpu.halted
  /\ RecordLost(poll)

(* Mutant: the shadow is not retired.                                       *)
AfterKeepsShadow(poll, ifl) == [cpu EXCEPT !.pendingIrq = Slot(poll),
                                           !.ifl = ifl]

(* The CPU after an instruction that leaves IF at ifl.                      *)
After(poll, ifl) == [cpu EXCEPT !.pendingIrq = Slot(poll), !.ifl = ifl,
                                !.shadow = Retired(@)]

InHandler == frames # <<>>
Top == frames[Len(frames)]

SetStage(stage) == frames' = [frames EXCEPT ![Len(frames)].stage = stage]

Nop(poll) ==
  /\ Executes(poll)
  /\ pic' = poll.pic /\ cpu' = After(poll, cpu.ifl) /\ pair' = "none"
  /\ UNCHANGED <<out, frames>>

Cli(poll) ==
  /\ Executes(poll)
  /\ pic' = poll.pic /\ cpu' = After(poll, FALSE) /\ pair' = "none"
  /\ UNCHANGED <<out, frames>>

(* STI has no shadow of its own.  MaxDepth bounds the handlers that nest.   *)
Sti(poll) ==
  /\ Executes(poll)
  /\ Len(frames) < MaxDepth
  /\ pic' = poll.pic /\ cpu' = After(poll, TRUE) /\ pair' = "none"
  /\ UNCHANGED <<out, frames>>

Hlt(poll) ==
  /\ Executes(poll)
  /\ ~InHandler
  /\ pic' = poll.pic /\ pair' = "none"
  /\ cpu' = [After(poll, cpu.ifl) EXCEPT !.halted = TRUE]
  /\ UNCHANGED <<out, frames>>

MovSs(poll) ==
  /\ Executes(poll)
  /\ ~InHandler
  /\ pic' = poll.pic /\ pair' = "fresh"
  /\ cpu' = [After(poll, cpu.ifl) EXCEPT !.shadow = Retired(Armed)]
  /\ UNCHANGED <<out, frames>>

OutImr(poll) ==
  /\ Executes(poll)
  /\ ~InHandler
  /\ \E mask \in MasterImrs :
       pic' = SyncCascade([poll.pic EXCEPT !.master = WriteImr(@, mask)])
  /\ cpu' = After(poll, cpu.ifl) /\ pair' = "none"
  /\ UNCHANGED <<out, frames>>

(* The handler quiets its device.                                           *)
ServiceDevice(poll) ==
  /\ Executes(poll)
  /\ InHandler /\ Top.stage = "service"
  /\ out' = [dev \in Devices |->
               out[dev] /\ (dev \in SelfClearing
                            \/ LineOf[dev] # Top.vector)]
  /\ SetStage(IF OwesSlave(Top.vector) THEN "eoiSlave" ELSE "eoiMaster")
  /\ pic' = poll.pic /\ cpu' = After(poll, cpu.ifl) /\ pair' = "none"

OutEoi(chip, poll) ==
  /\ Executes(poll)
  /\ InHandler
  /\ Top.stage = IF chip = "master" THEN "eoiMaster" ELSE "eoiSlave"
  /\ SetStage(IF chip = "master" THEN "iret" ELSE "eoiMaster")
  /\ pic' = SyncCascade([poll.pic EXCEPT ![chip] = Ocw2(@, "eoi", 0)])
  /\ cpu' = After(poll, cpu.ifl) /\ pair' = "none"
  /\ UNCHANGED out

Iret(poll) ==
  /\ Executes(poll)
  /\ InHandler /\ Top.stage = "iret"
  /\ frames' = Front(frames)
  /\ pair' = IF Top.pair = "none" THEN "none" ELSE "split"
  /\ pic' = poll.pic /\ cpu' = After(poll, Top.savedIf)
  /\ UNCHANGED out

StepPolled(poll) ==
  \/ StepIrq(poll)
  \/ StepHalted(poll)
  \/ Nop(poll)
  \/ Cli(poll)
  \/ Sti(poll)
  \/ Hlt(poll)
  \/ MovSs(poll)
  \/ OutImr(poll)
  \/ ServiceDevice(poll)
  \/ \E chip \in {"master", "slave"} : OutEoi(chip, poll)
  \/ Iret(poll)

Step == StepNmi \/ \E poll \in Polls : StepPolled(poll)

Next ==
  \/ Step
  \/ \E dev \in Devices : DeviceRaise(dev)
  \/ \E dev \in Timers : TickRising(dev) \/ TickFalling(dev)
  \/ InjectNmi

(* The POST probe's loop keeps stepping a CPU halted with IF set.           *)
IdleStep == cpu.halted /\ cpu.ifl /\ Step

Spec == Init /\ [][Next]_vars /\ WF_vars(IdleStep)

----------------------------------------------------------------------------
(* Properties.                                                              *)

TypeOK ==
  /\ pic \in Pair
  /\ out \in [Devices -> BOOLEAN]
  /\ cpu \in Cpu
  /\ frames \in Seq(Frames)
  /\ pair \in Pairs
  /\ lost \in [{"master", "slave"} -> 0 .. NIR]

Handlers(S) == {i \in 1 .. Len(frames) : /\ ~IsNmi(frames[i])
                                         /\ frames[i].stage \in S}

(* Every in-service bit is owed an EOI by exactly one acknowledged vector:  *)
(* one whose handler has not written it yet, the one in the slot, or one    *)
(* that was overwritten there.  However handlers nest, whatever order the   *)
(* eager acknowledges come in, no EOI is missing and none is surplus.       *)
ServiceAccounted ==
  /\ Cardinality(pic.master.isr)
       = Cardinality({i \in Handlers({"service", "eoiSlave", "eoiMaster"}) :
                        OwesMaster(frames[i].vector)})
         + (IF OwesMaster(cpu.pendingIrq) THEN 1 ELSE 0) + lost["master"]
  /\ Cardinality(pic.slave.isr)
       = Cardinality({i \in Handlers({"service", "eoiSlave"}) :
                        OwesSlave(frames[i].vector)})
         + (IF OwesSlave(cpu.pendingIrq) THEN 1 ELSE 0) + lost["slave"]

(* A maskable interrupt never comes between MOV SS and the instruction      *)
(* after it unless an NMI came between them first.                          *)
SsPairUnsplit ==
  \A i \in 1 .. Len(frames) : ~IsNmi(frames[i]) => frames[i].pair # "fresh"

(* x86-core request_interrupt: a queued vector is delivered when IF allows. *)
(* It leaves the slot in no other way.                                      *)
QueuedIsDelivered ==
  [][cpu.pendingIrq # NoVector =>
       \/ cpu'.pendingIrq = cpu.pendingIrq
       \/ /\ Len(frames') > Len(frames)
          /\ frames'[Len(frames')].vector = cpu.pendingIrq]_vars

(* A CPU halted with interrupts enabled wakes for an NMI, a queued vector   *)
(* or a request the PIC would signal: a halt never keeps a shadow that      *)
(* would hold the interrupt off for good, and delivery ends the halt.       *)
HaltWakes ==
  (/\ cpu.halted /\ cpu.ifl
   /\ \/ cpu.pendingNmi
      \/ cpu.pendingIrq # NoVector
      \/ IntPending(pic.master)) ~> ~cpu.halted
=============================================================================
