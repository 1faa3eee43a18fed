------------------------------ MODULE Dma8237 ------------------------------
(***************************************************************************)
(* The 8237A DMA controller of devices/src/dma.rs: the registers of one    *)
(* controller with its page registers, and transfer_block, which moves a   *)
(* whole programmed block between a device's buffer and memory.            *)
(*                                                                         *)
(* A 16-bit register is two digits in base Radix (256), written one at a   *)
(* time by the shared flip-flop.  The second controller has the same       *)
(* registers; no device of the machine uses its word channels.             *)
(***************************************************************************)
EXTENDS Naturals, Sequences

CONSTANTS
  DmaChannels,       (* channels considered, among 0 .. 3                   *)
  Radix,             (* values of one register byte: 256                    *)
  DmaPages           (* values of a page register: 256                      *)

ASSUME DmaAssumption ==
  /\ DmaChannels \subseteq 0 .. 3
  /\ Radix \in Nat \ {0} /\ DmaPages \in Nat \ {0}

Word16 == 0 .. (Radix * Radix - 1)
LastCount == Radix * Radix - 1

Modes == [sel : 0 .. 3, cascade : BOOLEAN, auto : BOOLEAN, down : BOOLEAN,
          xfer : {"verify", "write", "read", "illegal"}]

DmaChannel == [addr : Word16, count : Word16, baseAddr : Word16,
               baseCount : Word16, mode : Modes]

DmaController ==
  [channels : [DmaChannels -> DmaChannel],
   flipFlop : BOOLEAN,                  \* the next byte is the high one
   tc       : SUBSET DmaChannels,       \* terminal count, status bits 3:0
   request  : SUBSET DmaChannels,       \* software requests
   mask     : SUBSET DmaChannels,
   page     : [DmaChannels -> 0 .. DmaPages - 1]]

ResetMode ==
  [sel |-> 0, cascade |-> FALSE, auto |-> FALSE, down |-> FALSE, xfer |-> "verify"]

ResetDma ==
  [channels |-> [c \in DmaChannels |->
                   [addr |-> 0, count |-> 0, baseAddr |-> 0, baseCount |-> 0,
                    mode |-> ResetMode]],
   flipFlop |-> FALSE, tc |-> {}, request |-> {}, mask |-> DmaChannels,
   page |-> [c \in DmaChannels |-> 0]]

(* Master clear leaves the page registers, which are not the 8237's.        *)
MasterClear(d) == [ResetDma EXCEPT !.page = d.page]

----------------------------------------------------------------------------
(* Register accesses.                                                       *)

WithDigit(reg, high, byte) ==
  IF high THEN (byte * Radix) + (reg % Radix) ELSE (reg \div Radix) * Radix + byte

(* A byte goes into the current and the base register alike.                *)
WriteAddrByte(d, c, byte) ==
  LET ch == d.channels[c] IN
  [d EXCEPT !.flipFlop = ~@,
            !.channels[c] = [ch EXCEPT !.addr = WithDigit(@, d.flipFlop, byte),
                                       !.baseAddr = WithDigit(@, d.flipFlop, byte)]]

WriteCountByte(d, c, byte) ==
  LET ch == d.channels[c] IN
  [d EXCEPT !.flipFlop = ~@,
            !.channels[c] = [ch EXCEPT !.count = WithDigit(@, d.flipFlop, byte),
                                       !.baseCount = WithDigit(@, d.flipFlop, byte)]]

ReadRegisterByte(d) == [d EXCEPT !.flipFlop = ~@]

ReadDmaStatus(d) == [d EXCEPT !.tc = {}]

WriteRequest(d, c, on) ==
  [d EXCEPT !.request = IF on THEN @ \cup {c} ELSE @ \ {c}]

WriteMaskBit(d, c, on) ==
  [d EXCEPT !.mask = IF on THEN @ \cup {c} ELSE @ \ {c}]

WriteMode(d, c, mode) == [d EXCEPT !.channels[c].mode = [mode EXCEPT !.sel = c]]

ClearFlipFlop(d) == [d EXCEPT !.flipFlop = FALSE]

WritePage(d, c, page) == [d EXCEPT !.page[c] = page]

----------------------------------------------------------------------------
(* The block transfer.                                                      *)

SupportsBlock(mode, c) ==
  mode.sel = c /\ ~mode.cascade /\ mode.xfer # "illegal"

Units(d, c) == d.channels[c].count + 1

(* The transfer goes ahead only with a channel that is unmasked, in a mode  *)
(* the model supports, and with a count within the device's buffer.         *)
Accepts(d, c, length) ==
  /\ c \notin d.mask
  /\ SupportsBlock(d.channels[c].mode, c)
  /\ Units(d, c) <= length

(* The size of a channel's page: 64 KiB.                                    *)
PageSize == LastCount + 1

(* The address register after n units: it wraps, the page register stays.   *)
StepAddr(d, c, n) ==
  LET ch == d.channels[c] IN
  (IF ch.mode.down THEN ch.addr + PageSize - n ELSE ch.addr + n) % PageSize

(* The physical address of the n-th byte, from 1.                           *)
ByteAddr(d, c, n) == d.page[c] * PageSize + StepAddr(d, c, n - 1)

(* What the device's buffer holds after a transfer ...                      *)
BlockRead(d, c, buf, mem) ==
  [n \in 1 .. Units(d, c) |->
     IF d.channels[c].mode.xfer = "read" THEN mem[ByteAddr(d, c, n)] ELSE buf[n]]

(* ... and what memory holds.                                               *)
BlockWritten(d, c, buf, mem) ==
  IF d.channels[c].mode.xfer # "write" THEN mem
  ELSE [a \in DOMAIN mem |->
          IF \E n \in 1 .. Units(d, c) : ByteAddr(d, c, n) = a
          THEN buf[CHOOSE n \in 1 .. Units(d, c) : ByteAddr(d, c, n) = a]
          ELSE mem[a]]

(* Mutant: terminal count leaves the channel unmasked.                      *)
TerminalCountUnmasked(d, c) ==
  LET ch == d.channels[c] IN
  [d EXCEPT !.tc = @ \cup {c},
            !.channels[c] = [ch EXCEPT !.addr = StepAddr(d, c, Units(d, c)),
                                       !.count = LastCount]]

(* Terminal count: reload with auto-initialization, otherwise mask.         *)
TerminalCount(d, c) ==
  LET ch == d.channels[c] IN
  IF ch.mode.auto
  THEN [d EXCEPT !.tc = @ \cup {c},
                 !.channels[c] = [ch EXCEPT !.addr = ch.baseAddr,
                                            !.count = ch.baseCount]]
  ELSE [d EXCEPT !.tc = @ \cup {c}, !.mask = @ \cup {c},
                 !.channels[c] = [ch EXCEPT !.addr = StepAddr(d, c, Units(d, c)),
                                            !.count = LastCount]]
=============================================================================
