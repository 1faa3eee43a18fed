------------------------------ MODULE KeyPath ------------------------------
(***************************************************************************)
(* From a key to the program that waits for it, as machine-pc wires it:    *)
(* the keyboard controller of I8042, its interrupt lines into the pair of  *)
(* Pic8259, the BIOS keyboard buffer that the host's IRQ1 service fills    *)
(* (bda_kbd.rs), INT 16h (int16.rs), and the A20 gate and the reset line   *)
(* that the controller shares with port 92h (port92.rs).                   *)
(*                                                                         *)
(* What a guest's software does is a set of features, a guest, fixed from  *)
(* the start.  CPU delivery is IrqDelivery's subject: here a step polls    *)
(* the PIC, and the instruction after the poll accesses a port, or the     *)
(* vector is delivered and the handler's instructions are the next steps.  *)
(***************************************************************************)
EXTENDS I8042, Pic8259

CONSTANTS
  Guests,            (* the guests considered, each a set of Features       *)
  ConfigStores,      (* configuration bytes the guest writes                *)
  MouseStores,       (* mouse commands it writes                            *)
  RingSlots,         (* words of the BIOS keyboard buffer: 16               *)
  HostCap,           (* INT16_BUFFER_CAP: 16                                *)
  Irq1, Irq12,       (* the lines: master input 1, slave input 4            *)
  Cascade

Features ==
  {"irq",            \* interrupts, through a PIC its driver has programmed
   "bios",           \* host BIOS services in place of a driver
   "keys",           \* keys that are typed
   "breaks",         \* break codes and modifiers typed, besides makes
   "host",           \* keys the host puts straight into the BIOS buffers
   "config",         \* configuration writes
   "clock",          \* keyboard and mouse clocks off and on
   "keyboard",       \* keyboard commands
   "mouse",          \* mouse commands, packets from the mouse
   "dump",           \* the diagnostic dump
   "a20",            \* the A20 gate and the reset lines
   "barge"}          \* commands and bytes that overwrite an unread byte

ASSUME KeyPathAssumption ==
  /\ Guests \subseteq SUBSET Features
  /\ ConfigStores \subseteq Config /\ MouseStores \subseteq MouseCommands
  /\ RingSlots \in Nat /\ RingSlots >= 2 /\ HostCap \in Nat
  /\ Irq1 \in IR /\ Irq12 \in IR /\ Cascade \in IR /\ Irq1 # Cascade

VARIABLES
  kbd,               (* the keyboard controller                             *)
  pic,               (* the pair of interrupt controllers                   *)
  ring,              (* the BIOS keyboard buffer, in RAM                    *)
  typeahead,         (* keys in the host's own INT 16h buffer               *)
  gates,             (* A20: bit 1 of port 92h, and what PhysMem decodes    *)
  guest,             (* the features this behaviour's guest uses            *)
  arrival            (* history: how the keyboard's byte in the output      *)
                     (* buffer came there, until IRQ1 is acknowledged       *)

vars == <<kbd, pic, ring, typeahead, gates, guest, arrival>>

(* "fresh": a device sent it into an empty buffer; "next": it moved up when *)
(* its predecessor was read; "answer": the controller or the keyboard       *)
(* answered the guest.                                                      *)
Arrivals == {"none", "fresh", "next", "answer", "acked"}

----------------------------------------------------------------------------
(* The BIOS keyboard buffer.  A head and tail of 0 are untouched RAM.       *)

Word == Makes \cup {Stray}

Ring == [head : 0 .. RingSlots, tail : 0 .. RingSlots,
         slots : [1 .. RingSlots -> Word]]

(* RAM before the first use.                                                *)
BlankRing == [head |-> 0, tail |-> 0, slots |-> [i \in 1 .. RingSlots |-> Stray]]

Advance(slot) == IF slot + 1 > RingSlots THEN 1 ELSE slot + 1

EnsureRing(r) ==
  IF r.head = 0 /\ r.tail = 0 THEN [r EXCEPT !.head = 1, !.tail = 1] ELSE r

(* bda_kbd_enqueue: one slot stays free to tell full from empty.            *)
Enqueued(r, word) ==
  IF Advance(r.tail) = r.head THEN r
  ELSE [r EXCEPT !.slots[r.tail] = word, !.tail = Advance(@)]

(* bda_kbd_dequeue.                                                         *)
Dequeued(r) ==
  IF r.head = r.tail THEN r ELSE [r EXCEPT !.head = Advance(@)]

RingLen(r) ==
  IF r.tail >= r.head THEN r.tail - r.head ELSE RingSlots - (r.head - r.tail)

RingWords(r) ==
  [i \in 1 .. RingLen(r) |-> r.slots[((r.head + i - 2) % RingSlots) + 1]]

----------------------------------------------------------------------------
(* The interrupt lines.                                                     *)

SyncIrq1(d, k) == SetMasterLine(d, Irq1, Irq1Line(k))

(* Mutant: the line only follows the output.                                *)
PulseIrq1Follows(d, before, after) == SyncIrq1(d, after)

(* The wrappers of the injections pulse the line when the output rises.     *)
PulseIrq1(d, before, after) ==
  IF ~Irq1Line(before) /\ Irq1Line(after)
  THEN SetMasterLine(SetMasterLine(d, Irq1, FALSE), Irq1, TRUE)
  ELSE SyncIrq1(d, after)

PulseIrq12(d, before, after) ==
  IF ~Irq12Line(before) /\ Irq12Line(after)
  THEN SetSlaveLine(SetSlaveLine(d, Irq12, FALSE), Irq12, TRUE)
  ELSE SetSlaveLine(d, Irq12, Irq12Line(after))

(* poll_external_irq, with which every instruction begins, interrupts       *)
(* enabled or not: the lines are followed and the PIC is acknowledged.      *)
Polled ==
  Acknowledge(SetSlaveLine(SyncIrq1(pic, kbd), Irq12, Irq12Line(kbd)))

Irq1Acked == Irq1 \in Polled.master.isr \ pic.master.isr

KeyFull(k) == Full(k) /\ ~k.fromAux

Init ==
  /\ kbd = ResetController
  /\ guest \in Guests
  /\ pic = IF "irq" \in guest
           THEN [master |-> Programmed(ResetRole(TRUE), Cascade),
                 slave  |-> Programmed(ResetRole(FALSE), Cascade)]
           ELSE ResetPair
  /\ ring = BlankRing
  /\ typeahead = 0
  /\ gates = [port92 |-> TRUE, mem |-> TRUE]
  /\ arrival = "none"

----------------------------------------------------------------------------
(* Reset, and the end of an instruction.                                    *)

(* Machine::reset.  RAM keeps the BIOS keyboard buffer.                     *)
MachineReset ==
  /\ kbd' = ResetController
  /\ pic' = ResetPair
  /\ typeahead' = 0
  /\ gates' = [port92 |-> kbd'.a20, mem |-> kbd'.a20]
  /\ arrival' = "none"
  /\ UNCHANGED <<ring, guest>>

(* The instruction leaves controller k, PIC d and gates g; a reset that it  *)
(* latched, in the controller or elsewhere, follows at once                 *)
(* (service_8042_pulse_reset).                                              *)
Retire(k, d, g, resets, arrived) ==
  IF k.reset \/ resets THEN MachineReset
  ELSE /\ kbd' = k /\ pic' = d /\ gates' = g
       /\ arrival' = arrived
       /\ UNCHANGED <<ring, typeahead, guest>>

Kept == IF arrival # "none" /\ Irq1Acked THEN "acked" ELSE arrival

(* A port of the controller is written: the gates follow its output port.   *)
WriteController(k) ==
  Retire(k, Polled, [port92 |-> k.a20, mem |-> k.a20], FALSE,
         IF ~KeyFull(k) THEN "none" ELSE IF KeyFull(kbd) THEN Kept ELSE "answer")

----------------------------------------------------------------------------
(* The guest's instructions.                                                *)

(* One without a port access, or a poll whose vector is delivered in the    *)
(* instruction's stead.                                                     *)
Compute == Retire(kbd, Polled, gates, FALSE, Kept)

ReadData ==
  Retire(TakeOutput(kbd), Polled, gates, FALSE,
         IF KeyFull(TakeOutput(kbd)) THEN "next" ELSE "none")

(* Which commands a guest gives.  One that is answered at once is given     *)
(* with the keyboard's clock off and the buffer drained, where since only   *)
(* the mouse can have filled it; a "barge" guest gives it at any time.      *)
Gives(c) ==
  CASE c \in {"readNow", "dump"} ->
         /\ c = "dump" => "dump" \in guest
         /\ \/ "barge" \in guest
            \/ kbd.config.kbdOff /\ kbd.out \in {NoByte, Mouse}
    [] c \in {"disableAux", "enableAux", "disableKbd"} -> "clock" \in guest
    [] c = "writeConfig" -> {"config", "irq"} \cap guest # {}
    [] c = "writeAux" -> "mouse" \in guest
    [] c \in {"writeOutPort", "pulseReset"} -> "a20" \in guest
    [] OTHER -> TRUE

WriteCommand ==
  \E c \in Commands : Gives(c) /\ WriteController(Command(kbd, c))

(* A byte to the data port.                                                 *)
WriteData ==
  \/ /\ kbd.pending = "config"
     /\ \E config \in ConfigStores : WriteController(StoreConfig(kbd, config))
  \/ /\ kbd.pending = "outPort"
     /\ \E a20, resetLine \in BOOLEAN :
          WriteController(StoreOutPort(kbd, a20, resetLine))
  \/ /\ kbd.pending = "aux"
     /\ \E c \in MouseStores : WriteController(StoreAux(kbd, c))
  \/ /\ kbd.pending = "none" /\ "keyboard" \in guest
     /\ \E c \in KbdCommands : WriteController(KbdByte(kbd, c))

(* Mutant: the controller's output port is not told.                        *)
FastGateAlone(k, a20) == k

FastGate(k, a20) == [k EXCEPT !.a20 = a20]

(* Port 92h; its bit 0 resets the machine.                                  *)
WritePort92 ==
  /\ "a20" \in guest
  /\ \E a20, resets \in BOOLEAN :
       Retire(FastGate(kbd, a20), Polled, [port92 |-> a20, mem |-> a20],
              resets, Kept)

(* Port CF9h: a system reset with the processor reset bit.                  *)
WriteCf9 ==
  /\ "a20" \in guest
  /\ Retire(kbd, Polled, gates, TRUE, Kept)

EndOfInterrupt ==
  /\ "irq" \in guest
  /\ \E chip \in {"master", "slave"} :
       Retire(kbd,
              SyncCascade([Polled EXCEPT ![chip] = Ocw2(@, "eoi", 0)]),
              gates, FALSE, Kept)

----------------------------------------------------------------------------
(* The host: devices and BIOS services, between instructions.               *)

(* A device has left k in the controller and d in the PIC.                  *)
Device(k, d) ==
  /\ kbd' = k /\ pic' = d
  /\ arrival' = IF ~KeyFull(k) THEN "none"
                ELSE IF KeyFull(kbd) THEN arrival ELSE "fresh"
  /\ UNCHANGED <<ring, typeahead, gates, guest>>

(* kbd_inject_scancode.                                                     *)
InjectKey ==
  /\ "keys" \in guest
  /\ \E b \in IF "breaks" \in guest THEN DeviceBytes ELSE Makes :
       LET k == InjectScancode(kbd, b) IN Device(k, PulseIrq1(pic, kbd, k))

(* The mouse's own interface is called without a look at the lines.         *)
MoveMouse ==
  /\ "mouse" \in guest
  /\ Device(InjectMousePacket(kbd), pic)

(* kbd_inject_aux_byte and kbd_place_output, which overwrite the buffer.    *)
ForceMouseByte ==
  /\ "barge" \in guest
  /\ LET k == InjectAuxByte(kbd) IN Device(k, PulseIrq12(pic, kbd, k))

ForceKbdByte ==
  /\ "barge" \in guest
  /\ LET k == PresentKbd(kbd, Stray) IN Device(k, PulseIrq1(pic, kbd, k))

(* service_kbd_irq1_bda: the host reads the data port in the guest's stead. *)
ServiceIrq1 ==
  /\ "bios" \in guest /\ KeyFull(kbd)
  /\ kbd' = TakeOutput(kbd)
  /\ pic' = SyncIrq1(pic, kbd')
  /\ ring' = IF kbd.out \in Word THEN Enqueued(EnsureRing(ring), kbd.out) ELSE ring
  /\ arrival' = IF KeyFull(kbd') THEN "next" ELSE "none"
  /\ UNCHANGED <<typeahead, gates, guest>>

(* bda_kbd_inject_key, past the controller.                                 *)
RingInject ==
  /\ "host" \in guest
  /\ ring' = Enqueued(EnsureRing(ring), Stray)
  /\ UNCHANGED <<kbd, pic, typeahead, gates, guest, arrival>>

(* int16_push_key.                                                          *)
PushKey ==
  /\ "host" \in guest
  /\ typeahead < HostCap
  /\ typeahead' = typeahead + 1
  /\ UNCHANGED <<kbd, pic, ring, gates, guest, arrival>>

(* service_int16, AH=00h: the host's buffer first, then the ring.           *)
GetKey ==
  /\ "bios" \in guest
  /\ IF typeahead > 0
     THEN typeahead' = typeahead - 1 /\ UNCHANGED ring
     ELSE ring' = Dequeued(ring) /\ UNCHANGED typeahead
  /\ UNCHANGED <<kbd, pic, gates, guest, arrival>>

Next ==
  \/ Compute
  \/ ReadData
  \/ WriteCommand
  \/ WriteData
  \/ WritePort92
  \/ WriteCf9
  \/ EndOfInterrupt
  \/ InjectKey
  \/ MoveMouse
  \/ ForceMouseByte
  \/ ForceKbdByte
  \/ ServiceIrq1
  \/ RingInject
  \/ PushKey
  \/ GetKey
  \/ MachineReset

Spec == Init /\ [][Next]_vars

----------------------------------------------------------------------------
(* Properties.                                                              *)

(* The variables keep the ranges the code's types and queue limits give     *)
(* them; a queue that misses a limit check grows past its array.            *)
TypeOK ==
  /\ kbd \in Controller
  /\ pic \in Pair
  /\ ring \in Ring
  /\ typeahead \in 0 .. HostCap
  /\ gates \in [port92 : BOOLEAN, mem : BOOLEAN]
  /\ guest \in Guests
  /\ arrival \in Arrivals

(* The keys among the bytes of a queue, in their order.                     *)
Keys(bytes) ==
  LET keys[n \in 0 .. Len(bytes)] ==
        IF n = 0 THEN <<>>
        ELSE IF bytes[n] \in Makes THEN Append(keys[n - 1], bytes[n])
        ELSE keys[n - 1]
  IN  keys[Len(bytes)]

(* The keys in the controller: the output buffer's is the oldest.            *)
Held(k) == Keys(<<k.out>> \o k.scan)

Flow == INSTANCE KeyStream
  WITH Key <- Makes, HeldCap <- ScanCap + 1, BufferCap <- RingSlots - 1,
       held <- Held(kbd), buffered <- Keys(RingWords(ring))

(* Keys leave in the order they were typed, through two queues, clocks that *)
(* stop and start, answers that go first and a buffer that can be full:     *)
(* none is doubled, overtaken or made up.  This is the whole path from      *)
(* inject_scancode to INT 16h.                                              *)
KeysFlow == Flow!Spec

(* A key that waits in the output buffer stays until somebody reads it:     *)
(* more keys, keyboard and mouse answers, and commands given with the       *)
(* keyboard's clock off do not overwrite it.  (A guest that gives commands  *)
(* whatever the buffer holds does lose keys: i8042.rs push_output.)         *)
UnreadKeyWaits ==
  [][ "barge" \notin guest /\ kbd.out \in Makes
      => \/ kbd'.out = kbd.out
         \/ kbd' = TakeOutput(kbd)
         \/ kbd' = ResetController ]_vars

(* Nothing waits behind an empty output buffer: a dump byte never, a mouse  *)
(* response or a byte for the mouse only while the mouse's clock is off.    *)
(* The reader sees OBF clear and would wait for ever.                       *)
NothingHeldBack ==
  /\ ~Full(kbd) => kbd.ctrl = 0
  /\ ~kbd.config.auxOff => kbd.hostAux = <<>> /\ (~Full(kbd) => kbd.aux = 0)

(* The A20 gate has one value in three places: the controller's output      *)
(* port, port 92h and the memory map, whoever wrote it last.                *)
A20Agrees == gates = [port92 |-> kbd.a20, mem |-> kbd.a20]

(* A key that found the output buffer empty raises IRQ1, even if no poll    *)
(* has seen the line low since its predecessor was read: until it is        *)
(* acknowledged it is latched in the PIC, or the pin is still to rise.      *)
FreshKeyRequests ==
  arrival = "fresh" /\ Irq1Line(kbd) /\ pic.master.initialized
    => Irq1 \notin pic.master.pins \/ Irq1 \in pic.master.irr

(* What i8042.rs says of IRQ1: "IRQ1 when config bit0 is set and OBF is set *)
(* from the keyboard".  It holds of a key in an empty buffer only: when a   *)
(* read brings the next one up, the line never falls between the two.       *)
EveryKeyRequests ==
  arrival \in {"fresh", "next"} /\ Irq1Line(kbd) /\ pic.master.initialized
    => Irq1 \notin pic.master.pins \/ Irq1 \in pic.master.irr
=============================================================================
