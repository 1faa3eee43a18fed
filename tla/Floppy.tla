------------------------------- MODULE Floppy -------------------------------
(***************************************************************************)
(* The floppy controller with DMA channel 2 and memory, as machine-pc      *)
(* wires them: after every write to a port of the controller the bus moves *)
(* what the controller has armed, in one block.  The guest drives the      *)
(* ports; the host changes media and serves INT 13h (int13.rs) on the same *)
(* image.                                                                  *)
(***************************************************************************)
EXTENDS Fdc82077, Dma8237

CONSTANTS
  FdGuests,          (* guests considered, each a set of FdFeatures; {}: the *)
                     (* drive is not used                                   *)
  FdSpans,           (* where data commands start and end: [c, h, r, eot]    *)
  FdAddrs, FdCounts, (* address and count registers a driver programs        *)
  FdPage,            (* the page of its buffer                               *)
  MaxMoves,          (* data commands of a behaviour: a bound of the model;  *)
                     (* one for the guest with the most ways to make one     *)
  Channel2

FdFeatures ==
  {"read", "write", "format", "scan",   \* data commands
   "rewrite",        \* several WRITE DATA without a reset between
   "pio",            \* DOR leaves DMA and interrupts off
   "modes",          \* auto-initialization, decrement, verify
   "ports",          \* DMA registers byte by byte
   "seek", "config", "reset",
   "media",          \* ejected, attached, write protected
   "int13"}          \* the host's disk services

ASSUME FloppyAssumption ==
  /\ FdGuests \subseteq SUBSET FdFeatures
  /\ FdSpans \subseteq [c : 0 .. MaxCylinder, h : Heads,
                        r : 0 .. TrackSectors + 1, eot : 0 .. TrackSectors + 1]
  /\ FdAddrs \subseteq Word16 /\ FdCounts \subseteq Word16
  /\ MaxMoves \in Nat \ {0} /\ Channel2 \in DmaChannels
  /\ FdPage \in 0 .. DmaPages - 1

VARIABLES
  fdc, dma, mem,
  fdGuest,           (* the features this behaviour's guest uses             *)
  moves,             (* data commands left                                   *)
  last,              (* history: the data command this step ended, if any    *)
  owes,              (* history: an interrupt the guest has not answered     *)
  sought,            (* history: the unit of a seek not yet reported         *)
  programmed         (* history: channel 2 is programmed for one block       *)

fdRig == <<fdc, dma, mem>>
fdNotes == <<moves, last, owes, sought, programmed>>
fdVars == <<fdRig, fdGuest, fdNotes>>

MemorySize == DmaPages * PageSize
Addresses == 0 .. MemorySize - 1

(* Bytes are where they came from: the medium, memory, or a fill.           *)
Byte == {<<"zero">>, <<"fill">>} \cup ({"disk"} \X Cells \X (1 .. SectorBytes))
        \cup ({"mem"} \X Addresses)

FreshImage == [cell \in Cells |-> [b \in 1 .. SectorBytes |-> <<"disk", cell, b>>]]

NoCommand == [cmd |-> "none"]

Params == [unit : Units4, c : 0 .. MaxCylinder, h : Heads, r : 0 .. TrackSectors + 1,
           eot : 0 .. TrackSectors + 1, sized : BOOLEAN, on : BOOLEAN]

FloppyInit ==
  /\ fdc = ResetFdc(FreshImage, fdGuest # {}, FALSE, FALSE)
  /\ dma = ResetDma
  /\ mem = [a \in Addresses |-> <<"mem", a>>]
  /\ moves = IF "ports" \in fdGuest THEN 1 ELSE MaxMoves
  /\ last = NoCommand /\ owes = FALSE /\ sought = NoUnit /\ programmed = FALSE

----------------------------------------------------------------------------
(* The bus.                                                                 *)

(* try_fdc_dma_ch2_write and try_fdc_dma_ch2_read: the transfer that is     *)
(* armed is taken, and if the channel does not accept it, nothing moves and *)
(* the result stands.                                                       *)
Armed(f) == f.dma /\ f.pending # NoTransfer

Taken(f) == Armed(f) /\ Accepts(dma, Channel2, Len(f.pending.data))

Disarmed(f) == IF Armed(f) THEN [f EXCEPT !.pending = NoTransfer] ELSE f

Moved(f) ==
  LET g   == Disarmed(f)
      x   == f.pending
      n   == Units(dma, Channel2)
      buf == BlockRead(dma, Channel2, x.data, mem)
  IN IF ~Taken(f) THEN g
     ELSE IF x.kind = "write" THEN CommitDmaWrite(g, x.p, buf)
     ELSE IF n < Len(x.data) THEN EarlyStop(g, x.p, n) ELSE g

Pump(f) ==
  /\ fdc' = Moved(f)
  /\ dma' = IF Taken(f) THEN TerminalCount(dma, Channel2) ELSE dma
  /\ mem' = IF Taken(f) THEN BlockWritten(dma, Channel2, f.pending.data, mem) ELSE mem

(* What the history keeps.  A channel that is masked or has had its block,  *)
(* and does not initialize itself, is not programmed.                       *)
Noted(unanswered, unit) ==
  /\ owes' = unanswered /\ sought' = unit
  /\ programmed' = (/\ programmed /\ Channel2 \notin dma'.mask
                    /\ dma' = dma \/ dma.channels[Channel2].mode.auto)

Has(feature) == feature \in fdGuest

----------------------------------------------------------------------------
(* The guest's accesses to the controller.                                  *)

CommandsOf(g) ==
  {"sense_int"}
  \cup (IF "read" \in g THEN {"read", "read_track"} ELSE {})
  \cup (IF "write" \in g THEN {"write"} ELSE {})
  \cup (IF "format" \in g THEN {"format", "write_deleted"} ELSE {})
  \cup (IF "scan" \in g THEN {"verify", "read_id", "read_deleted"} ELSE {})
  \cup (IF "seek" \in g
        THEN {"seek", "seek_in", "seek_out", "recalibrate", "sense_drive"} ELSE {})
  \cup (IF "config" \in g
        THEN {"configure", "lock", "unlock", "version", "specify", "dumpreg",
              "perpendicular"} ELSE {})

(* The guest writes a command byte, and the bus looks for a transfer.       *)
GiveCommand(cmd, mt) ==
  /\ fdc.released /\ fdc.phase = CommandPhase
  /\ cmd \in Transfers => moves > 0
  /\ cmd = "write" => Has("rewrite") \/ fdc.lastWrite = <<>>
  /\ Pump(WriteCommand(fdc, cmd, mt))
  /\ IF cmd = "sense_int"
     THEN Noted(FALSE, IF fdc'.answer.code = "seek_end" THEN NoUnit ELSE sought)
     ELSE Noted(owes, sought)
  /\ last' = NoCommand /\ UNCHANGED moves

WriteParameter(on) ==
  /\ fdc.phase.kind = "params" /\ fdc.phase.left > 1
  /\ Pump(WriteParam(fdc, on))
  /\ Noted(owes, sought) /\ last' = NoCommand /\ UNCHANGED moves

(* The last parameter byte of a data command executes it.                   *)
EndTransfer(p) ==
  /\ fdc.phase.kind = "params" /\ fdc.phase.left = 1 /\ fdc.phase.cmd \in Transfers
  /\ moves > 0
  /\ LET cmd == fdc.phase.cmd IN
     /\ Pump(Execute(fdc, cmd, p))
     /\ last' = [cmd |-> cmd, p |-> p]
  /\ moves' = moves - 1
  /\ Noted(TRUE, sought)

Seeks == {"seek", "seek_in", "seek_out", "recalibrate"}

EndCommand(p) ==
  /\ fdc.phase.kind = "params" /\ fdc.phase.left = 1 /\ fdc.phase.cmd \notin Transfers
  /\ Pump(Finish(fdc, fdc.phase.cmd, p))
  /\ IF fdc.phase.cmd \in Seeks THEN Noted(TRUE, p.unit) ELSE Noted(owes, sought)
  /\ last' = NoCommand /\ UNCHANGED moves

(* A byte of the result, from the FIFO.  Reads move nothing.                *)
ReadFifo ==
  /\ HasResult(fdc)
  /\ fdc' = ReadResult(fdc) /\ UNCHANGED <<dma, mem, moves>>
  /\ Noted(owes /\ ~(fdc.phase.cmd \in Transfers /\ fdc.phase.left = LongResult), sought)
  /\ last' = NoCommand

(* A DOR write that asserts reset forgets what was owed; the release of a   *)
(* reset the guest asserted owes an interrupt.                              *)
StoreDor(released, enable) ==
  /\ fdGuest # {}
  /\ enable = ~Has("pio")
  /\ released \/ Has("reset")
  /\ Pump(WriteDor(fdc, released, enable))
  /\ CASE ~released /\ fdc.released -> Noted(FALSE, NoUnit)
       [] released /\ ~fdc.released /\ fdc.releaseOwed -> Noted(TRUE, NoUnit)
       [] OTHER -> Noted(owes, sought)
  /\ last' = NoCommand /\ UNCHANGED moves

StoreDsr ==
  /\ Has("reset") /\ fdc.released
  /\ Pump(WriteDsrReset(fdc))
  /\ Noted(TRUE, NoUnit) /\ last' = NoCommand /\ UNCHANGED moves

----------------------------------------------------------------------------
(* The guest's accesses to the DMA controller.                              *)

Loaded(d, addr, count) ==
  WriteCountByte(WriteCountByte(
    WriteAddrByte(WriteAddrByte(ClearFlipFlop(d), Channel2, addr % Radix),
                  Channel2, addr \div Radix),
    Channel2, count % Radix), Channel2, count \div Radix)

(* A driver's routine: mask, clear the flip-flop, both registers, page,     *)
(* mode, unmask.  Nothing can come between that touches channel 2.          *)
ProgramChannel(addr, count, mode) ==
  /\ fdGuest # {} /\ ~Has("ports")
  /\ moves > 0 /\ fdc.phase = CommandPhase
  /\ mode.auto \/ mode.down \/ mode.xfer = "verify" => Has("modes")
  /\ dma' = WriteMaskBit(WriteMode(WritePage(
              Loaded(WriteMaskBit(dma, Channel2, TRUE), addr, count),
              Channel2, FdPage), Channel2, mode), Channel2, FALSE)
  /\ programmed' = TRUE
  /\ last' = NoCommand /\ UNCHANGED <<fdc, mem, moves, owes, sought>>

(* The registers one access at a time, channels mixed, as two drivers would.*)
DmaPort ==
  /\ Has("ports") /\ moves > 0
  /\ \/ \E c \in DmaChannels : \E byte \in {0, Radix - 1} :
            dma' \in {WriteAddrByte(dma, c, Radix - 1), WriteCountByte(dma, c, byte)}
     \/ dma' \in {ReadRegisterByte(dma), ReadDmaStatus(dma), ClearFlipFlop(dma),
                  MasterClear(dma)}
     \/ \E c \in DmaChannels, on \in BOOLEAN :
            dma' \in {WriteMaskBit(dma, c, on), WriteRequest(dma, c, on)}
     \/ \E xfer \in {"read", "write", "illegal"} :
            dma' = WriteMode(dma, Channel2, [ResetMode EXCEPT !.xfer = xfer])
  /\ programmed' = (Channel2 \notin dma'.mask)
  /\ last' = NoCommand /\ UNCHANGED <<fdc, mem, moves, owes, sought>>

----------------------------------------------------------------------------
(* The host.                                                                *)

(* eject; attach_floppy_image and set_write_protected.                      *)
Eject ==
  /\ Has("media") /\ fdc' = [fdc EXCEPT !.media = FALSE, !.changed = TRUE]
  /\ last' = NoCommand /\ UNCHANGED <<dma, mem, moves, owes, sought, programmed>>

Attach(wp) ==
  /\ Has("media") /\ ~fdc.media
  /\ fdc' = [fdc EXCEPT !.media = TRUE, !.image = FreshImage, !.wp = wp]
  /\ last' = NoCommand /\ UNCHANGED <<dma, mem, moves, owes, sought, programmed>>

(* Machine::reset: RAM is kept.                                             *)
MachineReset ==
  /\ Has("reset") /\ moves > 0
  /\ fdc' = HardReset(fdc) /\ dma' = ResetDma
  /\ Noted(FALSE, NoUnit) /\ last' = NoCommand /\ UNCHANGED <<mem, moves>>

(* int13_floppy_reset: the controller is reset and released, and enabled.   *)
Int13Reset ==
  /\ Has("int13") /\ fdc.media
  /\ fdc' = WriteDor(HardReset(fdc), TRUE, TRUE) /\ UNCHANGED <<dma, mem, moves>>
  /\ Noted(FALSE, NoUnit) /\ last' = NoCommand

(* The cell at a distance, sectors first, then heads, then cylinders.       *)
Lba(cell) == ((cell[1] * 2) + cell[2]) * TrackSectors + cell[3] - 1

CellAt(lba) == CHOOSE cell \in Cells : Lba(cell) = lba

(* int13_floppy_xfer: every sector and every byte of RAM is checked first.  *)
Int13Transfers(cell, count, addr) ==
  /\ fdc.media /\ count > 0
  /\ Lba(cell) + count <= Cylinders * 2 * TrackSectors
  /\ addr + count * SectorBytes <= MemorySize

Int13Read(cell, count, addr) ==
  LET span == [i \in 1 .. count |-> CellAt(Lba(cell) + i - 1)]
      data == SpanData(fdc, span)
  IN /\ Has("int13") /\ moves > 0 /\ Int13Transfers(cell, count, addr)
     /\ mem' = [a \in Addresses |->
                  IF a \in addr .. addr + Len(data) - 1 THEN data[a - addr + 1]
                  ELSE mem[a]]
     /\ moves' = moves - 1
     /\ last' = NoCommand /\ UNCHANGED <<fdc, dma, owes, sought, programmed>>

Int13Write(cell, count, addr) ==
  LET span == [i \in 1 .. count |-> CellAt(Lba(cell) + i - 1)]
      data == [b \in 1 .. count * SectorBytes |-> mem[addr + b - 1]]
  IN /\ Has("int13") /\ moves > 0 /\ ~fdc.wp /\ Int13Transfers(cell, count, addr)
     /\ fdc' = WriteCells(fdc, span, count, data)
     /\ moves' = moves - 1
     /\ last' = NoCommand /\ UNCHANGED <<dma, mem, owes, sought, programmed>>

----------------------------------------------------------------------------
(* A data command's parameters: a span, one unit, the size code right or    *)
(* not; other commands': a unit and a cylinder or step.                     *)
Parameters(span, unit, sized, on) ==
  [unit |-> unit, c |-> span.c, h |-> span.h, r |-> span.r, eot |-> span.eot,
   sized |-> sized, on |-> on]

FloppyNext ==
  /\ UNCHANGED fdGuest
  /\ \/ \E cmd \in CommandsOf(fdGuest), mt \in BOOLEAN :
          (mt => cmd \in {"read", "verify", "write"}) /\ GiveCommand(cmd, mt)
     \/ \E on \in BOOLEAN : WriteParameter(on)
     \/ \E span \in FdSpans, sized \in BOOLEAN :
          EndTransfer(Parameters(span, 0, sized, FALSE))
     \/ \E unit \in Units4, c \in 0 .. MaxCylinder, on \in BOOLEAN :
          EndCommand([unit |-> unit, c |-> c, on |-> on])
     \/ ReadFifo
     \/ \E released, enable \in BOOLEAN : StoreDor(released, enable)
     \/ StoreDsr
     \/ \E addr \in FdAddrs, count \in FdCounts, auto, down \in BOOLEAN,
          xfer \in {"read", "write", "verify"} :
          ProgramChannel(addr, count,
            [ResetMode EXCEPT !.auto = auto, !.down = down, !.xfer = xfer])
     \/ DmaPort
     \/ Eject \/ (\E wp \in BOOLEAN : Attach(wp))
     \/ MachineReset \/ Int13Reset
     \/ \E cell \in Cells, count \in 1 .. 2, addr \in {0, PageSize - 1} :
          Int13Read(cell, count, addr) \/ Int13Write(cell, count, addr)

----------------------------------------------------------------------------
(* What the history, the registers and memory are made of; no transfer      *)
(* outlives the access that armed it.                                       *)
FloppyTypeOK ==
  /\ fdc.phase.kind \in {"command", "params", "result"}
  /\ fdc.phase.cmd \in Commands \cup {"none"} /\ fdc.phase.left \in Nat
  /\ fdc.answer \in Answer /\ fdc.pcn \in [Units4 -> 0 .. MaxCylinder]
  /\ fdc.readId \in [Units4 -> 0 .. TrackSectors - 1]
  /\ fdc.seekEnd \in 0 .. FddUnits /\ fdc.resetSense \in 0 .. FddUnits
  /\ \A cell \in Cells : fdc.image[cell] \in [1 .. SectorBytes -> Byte]
  /\ dma \in DmaController /\ mem \in [Addresses -> Byte]
  /\ moves \in 0 .. MaxMoves /\ owes \in BOOLEAN /\ sought \in 0 .. FddUnits
  /\ programmed \in BOOLEAN
  /\ fdc.pending = NoTransfer

(* How many bytes channel 2 takes of a transfer of this length.             *)
Share(length) == IF Accepts(dma, Channel2, length) THEN Units(dma, Channel2) ELSE 0

(* Memory holds these bytes where the channel puts them, and is otherwise   *)
(* as it was.                                                               *)
Deposited(data, n) ==
  mem' = [a \in Addresses |->
            IF \E i \in 1 .. n : ByteAddr(dma, Channel2, i) = a
            THEN data[CHOOSE i \in 1 .. n : ByteAddr(dma, Channel2, i) = a]
            ELSE mem[a]]

(* The first n sectors of the span hold the channel's bytes, the medium is  *)
(* otherwise as it was.                                                     *)
Stored(span, n) ==
  \A cell \in Cells :
    IF \E i \in 1 .. n : span[i] = cell
    THEN \A b \in 1 .. SectorBytes :
           fdc'.image[cell][b] =
             mem[ByteAddr(dma, Channel2,
                   ((CHOOSE i \in 1 .. n : span[i] = cell) - 1) * SectorBytes + b)]
    ELSE fdc'.image[cell] = fdc.image[cell]

ReadTells(p, span) ==
  LET length == Len(span) * SectorBytes
      n      == Share(length)
      code   == fdc'.answer.code
  IN /\ fdc'.image = fdc.image
     /\ code = "normal" => n \in {0, length}
     /\ code = "EN" => n \in 1 .. length - 1
     /\ code = "EN" /\ fdc.phase.cmd = "read" =>
          <<p.c, fdc'.answer.head, fdc'.answer.sector>> = span[((n - 1) \div SectorBytes) + 1]
     /\ code \in {"normal", "EN"} /\ dma.channels[Channel2].mode.xfer = "write" =>
          Deposited(SpanData(fdc, span), n)
     /\ code \notin {"normal", "EN"} \/ dma.channels[Channel2].mode.xfer # "write" =>
          mem' = mem

WriteTells(p, span) ==
  LET length == Len(span) * SectorBytes
      n      == Share(length)
      code   == fdc'.answer.code
  IN /\ code = "normal" => n \in {0, length}
     /\ code \in {"normal", "EN"} /\ dma.channels[Channel2].mode.xfer = "read" =>
          Stored(span, n \div SectorBytes)
     /\ code \notin {"normal", "EN"} => fdc'.image = fdc.image

TrackSpan(p) == [i \in 1 .. p.eot |-> <<p.c, p.h, i>>]

(* The result tells what was transferred.  With DMA enabled: a read leaves  *)
(* the medium alone; a normal end means every byte (or none, when the       *)
(* channel does not accept the block, see README); EN means the prefix that *)
(* the channel counted, which for a write ends with a whole sector; any     *)
(* other end means nothing.  Of WRITE DATA this is claimed when no earlier  *)
(* one has left its data behind (WriteSendsMemory).                         *)
ResultTells ==
  [][last' # NoCommand /\ fdc.dma =>
       /\ last'.cmd = "read" => ReadTells(last'.p, Span(last'.p, fdc.mt))
       /\ last'.cmd = "read_track" => ReadTells(last'.p, TrackSpan(last'.p))
       /\ last'.cmd = "write" /\ fdc.lastWrite = <<>> =>
            WriteTells(last'.p, Span(last'.p, fdc.mt))
       /\ last'.cmd \in {"verify", "read_id", "read_deleted", "write_deleted"} =>
            fdc'.image = fdc.image /\ mem' = mem]_fdVars

(* A WRITE DATA that ends normally has put memory's bytes on the medium     *)
(* (docs/machine-model-pc-v1.md).                                           *)
WriteSendsMemory ==
  [][last' # NoCommand /\ fdc.dma /\ last'.cmd = "write" =>
       WriteTells(last'.p, Span(last'.p, fdc.mt))]_fdVars

(* Memory is written only by a block the guest has programmed: a channel    *)
(* has one block unless it initializes itself, whatever commands follow.    *)
OneBlockPerProgram ==
  [][last' # NoCommand /\ mem' # mem => programmed]_fdVars

(* Every command that ends with an interrupt raises the line, if the guest  *)
(* has answered the one before; so the PIC's edge-triggered IRQ6 sees each. *)
AnswerInterrupts ==
  [][~owes /\ owes' => ~IrqLine(fdc) /\ IrqLine(fdc') = fdc'.dma]_fdVars

(* A seek's end is reported: until a Sense Interrupt says so, or a reset or *)
(* another seek supersedes it, it is next in line after a reset's statuses. *)
SeekEndReported ==
  /\ sought # NoUnit => fdc.seekEnd = sought
  /\ HasResult(fdc) /\ fdc.phase.cmd = "sense_int" /\ fdc.answer.code = "seek_end" =>
       fdc.resetSense = FddUnits
=============================================================================
