----------------------------- MODULE IdeDevice -----------------------------
(***************************************************************************)
(* One IDE channel of devices/src/ide.rs with its only device, an ATA disk *)
(* or an ATAPI CD-ROM drive: the PIO data phases of both protocols, READ   *)
(* and WRITE MULTIPLE's blocks, the packet phases, sense, the interrupt    *)
(* and the resets.  A command executes whole in the write of the command   *)
(* register; then the host moves its data through the data port.           *)
(*                                                                         *)
(* The task file is loaded by the command that uses it, except the sector  *)
(* count, which the device writes back.  A sector's content is a token:    *)
(* where it came from.  Left out: the address registers read back, the     *)
(* error register's bits, HOB, and what IDENTIFY and the packet commands'  *)
(* answers say.                                                            *)
(***************************************************************************)
EXTENDS Naturals, FiniteSets

CONSTANTS
  IdeSectors,        (* sectors of the disk, or blocks of the CD            *)
  SectorWords,       (* data port accesses for one sector: 256              *)
  PacketWords,       (* for a command packet: 6                             *)
  CdWords,           (* for a block of the CD: 1024                         *)
  CountBase,         (* values of the sector count register: 256            *)
  MaxMultiple        (* largest block of READ and WRITE MULTIPLE: 16        *)

ASSUME IdeAssumption ==
  /\ IdeSectors \in Nat \ {0} /\ SectorWords \in Nat \ {0}
  /\ PacketWords \in Nat \ {0} /\ CdWords \in Nat \ {0}
  /\ CountBase \in Nat \ {0} /\ MaxMultiple \in Nat \ {0}

Lbas == 0 .. IdeSectors - 1
Blank == [from |-> "none", at |-> 0]
FactorySector(lba) == [from |-> "disk", at |-> lba]

NoMedium == [lba \in {} |-> Blank]

NoPacket == [phase |-> "idle", off |-> 0, limit |-> 0, len |-> 0, blockEnd |-> 0]
NoSense == "none"

(* new and attach: what stands behind the channel.                          *)
NewIde(kind, image) ==
  [kind     |-> kind,            \* "ata", "packet" (a CD-ROM drive), "none"
   image    |-> image,           \* [Lbas -> content], or NoMedium
   bsy |-> FALSE, drq |-> FALSE, err |-> FALSE,      \* status bits
   irq      |-> FALSE,           \* irq_pending
   nien     |-> TRUE, srst |-> FALSE,                \* dev_ctrl
   slave    |-> FALSE,           \* drive_head's DEV
   count    |-> 1,               \* sector_count with sector_count_prev
   xfer     |-> FALSE,           \* transferring
   in       |-> FALSE,           \* pio_in: from the host
   off      |-> 0,               \* pio_off
   pio      |-> Blank, buffer |-> Blank,             \* pio, sector_buffer
   toBuffer |-> FALSE,           \* sector_buffer_write
   left     |-> 0,               \* sectors_left
   next     |-> 0,               \* next_lba
   ext      |-> FALSE,           \* lba48_xfer
   factor   |-> 0,               \* multiple_count
   multi    |-> FALSE,           \* multiple_xfer
   block    |-> 0,               \* block_left
   packet   |-> NoPacket,        \* packet_phase, _off, _byte_count_limit, _data
   sense    |-> NoSense,
   prevent  |-> FALSE]           \* atapi_prevent_removal

Present(d) == d.kind # "none"
HasMedium(d) == d.image # NoMedium
OnDisk(d, lba) == HasMedium(d) /\ lba \in Lbas

(* reset_ready: the end of SRST, and of attaching.                          *)
ResetReady(d) == NewIde(d.kind, d.image)

(* IdePrimary::reset.                                                       *)
ResetIde(d) == ResetReady(d)

IdeIrqLine(d) == d.irq /\ ~d.nien /\ ~d.slave

----------------------------------------------------------------------------
(* How commands begin and end.                                              *)

(* Mutant: a refused command leaves the phase of a packet standing.         *)
AbortKeepsPhase(d) ==
  [d EXCEPT !.xfer = FALSE, !.in = FALSE, !.toBuffer = FALSE, !.multi = FALSE,
            !.block = 0, !.left = 0, !.ext = FALSE,
            !.drq = FALSE, !.err = TRUE, !.irq = TRUE]

Abort(d) ==
  [d EXCEPT !.xfer = FALSE, !.in = FALSE, !.toBuffer = FALSE, !.multi = FALSE,
            !.block = 0, !.left = 0, !.ext = FALSE, !.packet = NoPacket,
            !.drq = FALSE, !.err = TRUE, !.irq = TRUE]

(* A command on a channel without a device.                                 *)
NoDevice(d) == [d EXCEPT !.drq = FALSE, !.err = FALSE, !.xfer = FALSE, !.irq = FALSE]

(* A command without data: what stands of an earlier transfer's latches     *)
(* stays.                                                                   *)
NonData(d, count) ==
  [d EXCEPT !.xfer = FALSE, !.in = FALSE, !.left = 0, !.drq = FALSE, !.err = FALSE,
            !.irq = TRUE, !.count = count]

(* Mutant: the position of an abandoned transfer is kept.                   *)
BeginPioOutOffset(d) ==
  [d EXCEPT !.in = FALSE, !.xfer = TRUE, !.drq = TRUE, !.err = FALSE, !.irq = TRUE]

(* Data for the host, announced by an interrupt; and from the host, before  *)
(* whose first block the device also interrupts.                            *)
BeginPioOut(d) ==
  [d EXCEPT !.off = 0, !.in = FALSE, !.xfer = TRUE, !.drq = TRUE, !.err = FALSE,
            !.irq = TRUE]

BeginPioIn(d) == [BeginPioOut(d) EXCEPT !.pio = Blank, !.in = TRUE]

LoadSector(d, lba) == [d EXCEPT !.pio = d.image[lba], !.buffer = d.image[lba]]

StoreSector(d, lba) == [d EXCEPT !.image[lba] = d.pio, !.buffer = d.pio]

Effective(count) == IF count = 0 THEN CountBase ELSE count
Effective48(count) == IF count = 0 THEN CountBase * CountBase ELSE count

MultipleBlock(d, remaining) == IF d.factor < remaining THEN d.factor ELSE remaining

SingleSectors(d, left, next) ==
  [d EXCEPT !.multi = FALSE, !.block = 0, !.left = left, !.next = next]

MultipleSectors(d, left, next) ==
  [d EXCEPT !.multi = TRUE, !.left = left, !.block = MultipleBlock(d, left),
            !.next = next]

----------------------------------------------------------------------------
(* The disk's commands.  An LBA28 range is checked as the transfer goes, an *)
(* LBA48 range and VERIFY's before anything happens.                        *)

Identify(d) == BeginPioOut(SingleSectors([d EXCEPT !.pio = Blank], 1, 0))

ReadSectors(d, lba, count) ==
  IF OnDisk(d, lba)
  THEN BeginPioOut(SingleSectors([LoadSector(d, lba) EXCEPT !.ext = FALSE],
                                 Effective(count), lba + 1))
  ELSE Abort(d)

InBounds48(d, lba, count) == OnDisk(d, lba) /\ count <= IdeSectors - lba

ReadSectorsExt(d, lba, count) ==
  LET n == Effective48(count) IN
  IF InBounds48(d, lba, n)
  THEN [BeginPioOut(SingleSectors(LoadSector(d, lba), n, lba + 1))
          EXCEPT !.ext = TRUE, !.count = n]
  ELSE Abort(d)

WriteSectorsExt(d, lba, count) ==
  LET n == Effective48(count) IN
  IF InBounds48(d, lba, n)
  THEN [BeginPioIn(SingleSectors(d, n, lba)) EXCEPT !.ext = TRUE, !.count = n]
  ELSE Abort(d)

WriteSectors(d, lba, count) ==
  IF OnDisk(d, lba) THEN BeginPioIn(SingleSectors(d, Effective(count), lba))
  ELSE Abort(d)

VerifySectors(d, lba, count) ==
  IF InBounds48(d, lba, Effective(count)) THEN NonData(d, d.count) ELSE Abort(d)

ReadMultiple(d, lba, count) ==
  IF d.factor # 0 /\ OnDisk(d, lba)
  THEN BeginPioOut(MultipleSectors(LoadSector(d, lba), Effective(count), lba + 1))
  ELSE Abort(d)

WriteMultiple(d, lba, count) ==
  IF d.factor # 0 /\ OnDisk(d, lba)
  THEN BeginPioIn(MultipleSectors(d, Effective(count), lba))
  ELSE Abort(d)

SetMultiple(d, count) ==
  IF count \in {1, 2, 4, 8, 16} /\ count <= MaxMultiple
  THEN [NonData(d, d.count) EXCEPT !.factor = count] ELSE Abort(d)

ReadBuffer(d) == BeginPioOut(SingleSectors([d EXCEPT !.pio = d.buffer], 1, 0))

WriteBuffer(d) == BeginPioIn(SingleSectors([d EXCEPT !.toBuffer = TRUE], 1, 0))

(* SMART, DMA, security, logs and whatever else the device refuses.         *)
Refused(d) == Abort(d)

(* Diagnostic runs whichever drive is selected.                             *)
Diagnostic(d) == NonData(d, 1)

----------------------------------------------------------------------------
(* The packet device.  A packet: its operation, an address and a length in  *)
(* data port accesses, or blocks for READ(10).                              *)

PacketGood(d) ==
  [d EXCEPT !.packet = NoPacket, !.drq = FALSE, !.err = FALSE, !.irq = TRUE]

CheckCondition(d, sense) ==
  [d EXCEPT !.packet = NoPacket, !.sense = sense, !.drq = FALSE, !.err = TRUE,
            !.irq = TRUE]

(* begin_packet_data_block: as much as the host's limit allows.             *)
PacketBlock(d) ==
  LET p    == d.packet
      rest == p.len - p.off
  IN [d EXCEPT !.packet.blockEnd = p.off + (IF rest < p.limit THEN rest ELSE p.limit),
               !.packet.phase = "data_in", !.drq = TRUE, !.err = FALSE, !.irq = TRUE]

PacketDataIn(d, len) ==
  IF len = 0 THEN PacketGood(d)
  ELSE PacketBlock([d EXCEPT !.packet.len = len, !.packet.off = 0])

(* PACKET: without a limit, or with DMA or overlap, refused.                *)
BeginPacket(d, limit) ==
  IF limit = 0 THEN Abort(d)
  ELSE [d EXCEPT !.packet = [NoPacket EXCEPT !.phase = "command", !.limit = limit],
                 !.xfer = FALSE, !.in = FALSE, !.toBuffer = FALSE, !.multi = FALSE,
                 !.block = 0, !.left = 0, !.drq = TRUE, !.err = FALSE, !.irq = FALSE]

TestUnitReady(d) ==
  IF HasMedium(d) THEN PacketGood(d) ELSE CheckCondition(d, "not_ready")

RequestSense(d, len) ==
  PacketDataIn([d EXCEPT !.sense = IF len > 0 THEN NoSense ELSE @], len)

Read10(d, lba, blocks) ==
  CASE ~HasMedium(d) -> CheckCondition(d, "not_ready")
    [] HasMedium(d) /\ blocks = 0 -> PacketGood(d)
    [] HasMedium(d) /\ blocks > 0 /\ ~InBounds48(d, lba, blocks) ->
         CheckCondition(d, "out_of_range")
    [] OTHER -> PacketDataIn(d, blocks * CdWords)

(* START STOP UNIT with LoEj and not Start: the tray opens.                 *)
EjectTray(d) ==
  IF d.prevent THEN CheckCondition(d, "removal_prevented")
  ELSE PacketGood([d EXCEPT !.image = NoMedium])

PreventAllow(d, prevent) == PacketGood([d EXCEPT !.prevent = prevent])

ExecutePacket(e, pkt) ==
  LET d == [e EXCEPT !.packet.phase = "idle"] IN
  CASE pkt.op = "test_unit_ready" -> TestUnitReady(d)
    [] pkt.op = "request_sense" -> RequestSense(d, pkt.len)
    [] pkt.op = "inquiry" -> PacketDataIn(d, pkt.len)
    [] pkt.op = "read10" -> Read10(d, pkt.lba, pkt.len)
    [] pkt.op = "eject" -> EjectTray(d)
    [] pkt.op = "prevent" -> PreventAllow(d, TRUE)
    [] pkt.op = "allow" -> PreventAllow(d, FALSE)
    [] pkt.op = "unknown" -> CheckCondition(d, "illegal_request")

(* DEVICE RESET: no interrupt.                                              *)
DeviceReset(d) ==
  IF d.kind # "packet" THEN Abort(d)
  ELSE [d EXCEPT !.packet = NoPacket, !.sense = NoSense, !.prevent = FALSE,
                 !.xfer = FALSE, !.in = FALSE, !.toBuffer = FALSE, !.multi = FALSE,
                 !.block = 0, !.left = 0, !.ext = FALSE, !.count = 1,
                 !.drq = FALSE, !.err = FALSE, !.irq = FALSE]

(* IDENTIFY DEVICE and READ SECTORS fail with the packet signature.         *)
RefusedWithSignature(d) == [Abort(d) EXCEPT !.count = 1]

----------------------------------------------------------------------------
(* exec_command.  A request: the command, an address, and the sector count, *)
(* or PACKET's limit.                                                       *)

PacketDeviceCommand(d, r) ==
  CASE r.cmd = "identify_packet" -> Identify(d)
    [] r.cmd \in {"identify", "read"} -> RefusedWithSignature(d)
    [] r.cmd = "packet" -> BeginPacket(d, r.count)
    [] r.cmd = "device_reset" -> DeviceReset(d)
    [] r.cmd = "diagnostic" -> Diagnostic(d)
    [] OTHER -> Abort(d)

DiskCommand(d, r) ==
  CASE r.cmd = "identify" -> Identify(d)
    [] r.cmd = "read" -> ReadSectors(d, r.lba, r.count)
    [] r.cmd = "write" -> WriteSectors(d, r.lba, r.count)
    [] r.cmd = "read_ext" -> ReadSectorsExt(d, r.lba, r.count)
    [] r.cmd = "write_ext" -> WriteSectorsExt(d, r.lba, r.count)
    [] r.cmd = "verify" -> VerifySectors(d, r.lba, r.count)
    [] r.cmd = "read_multiple" -> ReadMultiple(d, r.lba, r.count)
    [] r.cmd = "write_multiple" -> WriteMultiple(d, r.lba, r.count)
    [] r.cmd = "set_multiple" -> SetMultiple(d, r.count)
    [] r.cmd = "read_buffer" -> ReadBuffer(d)
    [] r.cmd = "write_buffer" -> WriteBuffer(d)
    [] r.cmd = "diagnostic" -> Diagnostic(d)
    [] r.cmd = "flush" -> NonData(d, d.count)
    [] OTHER -> Refused(d)

(* Dropped while BSY, and for the absent slave, but for the registers.      *)
Drops(d, cmd) == d.bsy \/ (d.slave /\ cmd # "diagnostic")

WriteIdeCommand(d, r) ==
  LET e == [d EXCEPT !.count = r.count]
      f == [e EXCEPT !.ext = FALSE]
  IN CASE Drops(d, r.cmd) -> e
       [] ~Drops(d, r.cmd) /\ d.kind = "none" -> NoDevice(f)
       [] ~Drops(d, r.cmd) /\ d.kind = "packet" -> PacketDeviceCommand(f, r)
       [] ~Drops(d, r.cmd) /\ d.kind = "ata" -> DiskCommand(f, r)

----------------------------------------------------------------------------
(* The data port.                                                           *)

CountDown(d) ==
  [d EXCEPT !.count = IF d.ext THEN d.left ELSE IF @ = 0 THEN 0 ELSE @ - 1]

CountOver(d) == [d EXCEPT !.count = IF d.kind = "packet" THEN 1 ELSE 0, !.ext = FALSE]

TransferOver(d) ==
  CountOver([d EXCEPT !.xfer = FALSE, !.in = FALSE, !.multi = FALSE, !.block = 0,
                      !.off = 0, !.drq = FALSE, !.err = FALSE, !.irq = TRUE])

(* Mutant: the block count is not renewed.                                  *)
NextSectorKeepsBlock(d) ==
  IF ~d.multi \/ d.block = 0 THEN [d EXCEPT !.irq = TRUE] ELSE d

(* A sector done with more to come: an interrupt for each, or under         *)
(* MULTIPLE for each block.                                                 *)
NextSector(d) ==
  IF ~d.multi THEN [d EXCEPT !.irq = TRUE]
  ELSE IF d.block = 0 THEN [d EXCEPT !.block = MultipleBlock(d, d.left), !.irq = TRUE]
  ELSE d

Counted(d) ==
  [d EXCEPT !.left = IF @ > 0 THEN @ - 1 ELSE 0,
            !.block = IF d.multi /\ @ > 0 THEN @ - 1 ELSE @]

FinishSectorPioOut(d) ==
  LET e == Counted(d) IN
  CASE e.left = 0 -> TransferOver(e)
    [] e.left > 0 /\ ~OnDisk(e, e.next) -> Abort(e)
    [] OTHER -> NextSector(CountDown([LoadSector(e, e.next) EXCEPT
                                        !.next = @ + 1, !.off = 0]))

(* Mutant: the address does not advance under MULTIPLE.                     *)
FinishSectorPioInStays(d) ==
  LET e == Counted(StoreSector(d, d.next)) IN
  CASE d.toBuffer ->
         TransferOver([d EXCEPT !.buffer = d.pio, !.toBuffer = FALSE, !.left = 0])
    [] ~d.toBuffer /\ ~OnDisk(d, d.next) -> Abort(d)
    [] ~d.toBuffer /\ OnDisk(d, d.next) /\ e.left = 0 -> TransferOver(e)
    [] ~d.toBuffer /\ OnDisk(d, d.next) /\ e.left > 0 /\ ~OnDisk(d, d.next + 1) ->
         Abort([e EXCEPT !.next = @ + 1])
    [] OTHER -> NextSector(CountDown([e EXCEPT
                  !.next = IF d.multi THEN @ ELSE @ + 1, !.off = 0, !.pio = Blank]))

FinishSectorPioIn(d) ==
  LET e == Counted(StoreSector(d, d.next)) IN
  CASE d.toBuffer ->
         TransferOver([d EXCEPT !.buffer = d.pio, !.toBuffer = FALSE, !.left = 0])
    [] ~d.toBuffer /\ ~OnDisk(d, d.next) -> Abort(d)
    [] ~d.toBuffer /\ OnDisk(d, d.next) /\ e.left = 0 -> TransferOver(e)
    [] ~d.toBuffer /\ OnDisk(d, d.next) /\ e.left > 0 /\ ~OnDisk(d, d.next + 1) ->
         Abort([e EXCEPT !.next = @ + 1])
    [] OTHER -> NextSector(CountDown([e EXCEPT !.next = @ + 1, !.off = 0,
                                               !.pio = Blank]))

ReadPacketData(d) ==
  LET e == [d EXCEPT !.packet.off = @ + 1] IN
  CASE e.packet.off < d.packet.blockEnd -> e
    [] e.packet.off >= d.packet.blockEnd /\ e.packet.off >= d.packet.len -> PacketGood(e)
    [] OTHER -> PacketBlock(e)

(* A read moves data only in a phase that has data for the host.            *)
ReadIdeData(d) ==
  CASE d.slave \/ ~d.drq -> d
    [] ~d.slave /\ d.drq /\ d.packet.phase = "data_in" -> ReadPacketData(d)
    [] ~d.slave /\ d.drq /\ d.packet.phase # "data_in" /\ d.xfer /\ ~d.in ->
         IF d.off + 1 < SectorWords THEN [d EXCEPT !.off = @ + 1]
         ELSE FinishSectorPioOut(d)
    [] OTHER -> d

(* A write: content is what the whole sector holds, pkt the packet.         *)
WriteIdeData(d, content, pkt) ==
  CASE d.slave \/ ~d.drq -> d
    [] ~d.slave /\ d.drq /\ d.packet.phase = "command" ->
         LET e == [d EXCEPT !.packet.off = @ + 1] IN
         IF e.packet.off < PacketWords THEN e ELSE ExecutePacket(e, pkt)
    [] ~d.slave /\ d.drq /\ d.packet.phase # "command" /\ d.xfer /\ d.in ->
         IF d.off + 1 < SectorWords THEN [d EXCEPT !.off = @ + 1]
         ELSE FinishSectorPioIn([d EXCEPT !.pio = content])
    [] OTHER -> d

----------------------------------------------------------------------------
(* The other registers.                                                     *)

ReadIdeStatus(d) == IF d.slave THEN d ELSE [d EXCEPT !.irq = FALSE]

(* Device control reaches the device whichever drive is selected.  The end  *)
(* of a software reset leaves interrupts disabled, whatever was written.    *)
WriteDevCtrl(d, srst, nien) ==
  LET e == [d EXCEPT !.srst = srst, !.nien = nien] IN
  CASE srst /\ ~d.srst -> [e EXCEPT !.bsy = Present(d), !.drq = FALSE, !.err = FALSE,
                                    !.irq = FALSE]
    [] ~srst /\ d.srst -> IF Present(d) THEN ResetReady(e) ELSE [e EXCEPT !.irq = FALSE]
    [] OTHER -> e

SelectDrive(d, slave) == [d EXCEPT !.slave = slave]

(* load_atapi_medium and unload_atapi_medium.                               *)
LoadMedium(d, image) == IF d.kind = "packet" THEN [d EXCEPT !.image = image] ELSE d
UnloadMedium(d) == LoadMedium(d, NoMedium)
=============================================================================
