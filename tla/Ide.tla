-------------------------------- MODULE Ide --------------------------------
(***************************************************************************)
(* A host that drives the IDE channel of IdeDevice: it loads the task file *)
(* and a command, moves words through the data port, answers interrupts by *)
(* reading the status, selects the absent slave, resets; it may abandon a  *)
(* transfer by the next command.  The emulator's host changes the CD.      *)
(***************************************************************************)
EXTENDS IdeDevice

CONSTANTS
  HdGuests,          (* guests considered, each a set of HdFeatures; {}: the *)
                     (* channel is not used                                 *)
  HdLbas, HdCounts,  (* address and sector count of a command               *)
  HdLimits,          (* byte count limits of PACKET, in words               *)
  HdLengths,         (* allocation lengths of packet commands, in words     *)
  MaxCommands        (* commands with data of a behaviour: a bound of the   *)
                     (* model                                               *)

HdFeatures ==
  {"read", "write", "ext", "multiple", "buffer", "other",
   "abandon",        \* a command may end a transfer that is not over
   "cd", "absent",   \* what stands behind the channel; otherwise a disk
   "media",          \* the CD is changed by the emulator's host
   "select", "reset"}

ASSUME HostAssumption ==
  /\ HdGuests \subseteq SUBSET HdFeatures
  /\ HdLbas \subseteq Nat /\ HdCounts \subseteq 0 .. CountBase - 1
  /\ HdLimits \subseteq 0 .. CountBase * CountBase     \* two registers
  /\ HdLengths \subseteq Nat /\ MaxCommands \in Nat

VARIABLES
  ide,
  hdGuest,           (* the features of this behaviour's host               *)
  commands,          (* commands with data left                             *)
  job                (* history: what the host asked for and has moved      *)

ideVars == <<ide, hdGuest, commands, job>>

HdHas(feature) == feature \in hdGuest

FactoryImage == [lba \in Lbas |-> FactorySector(lba)]
HostSector(n) == [from |-> "host", at |-> n]

(* A job: the command, where on the disk, how many words in all, and how    *)
(* many of them an interrupt is for.                                        *)
NoJob == [cmd |-> "none", lba |-> 0, asked |-> 0, unit |-> 1, moved |-> 0]

KindOf(g) ==
  IF "absent" \in g THEN "none" ELSE IF "cd" \in g THEN "packet" ELSE "ata"

IdeInit ==
  /\ ide = NewIde(KindOf(hdGuest),
                  IF KindOf(hdGuest) = "none" THEN NoMedium ELSE FactoryImage)
  /\ commands = MaxCommands /\ job = NoJob

----------------------------------------------------------------------------
(* The host's accesses.                                                     *)

DiskReads == {"read", "read_ext", "read_multiple"}
DiskWrites == {"write", "write_ext", "write_multiple"}

CommandsFor(g) ==
  {"identify"}
  \cup (IF "read" \in g THEN {"read"} ELSE {})
  \cup (IF "write" \in g THEN {"write"} ELSE {})
  \cup (IF "ext" \in g THEN {"read_ext", "write_ext"} ELSE {})
  \cup (IF "multiple" \in g
        THEN {"set_multiple", "read_multiple", "write_multiple"} ELSE {})
  \cup (IF "buffer" \in g THEN {"read_buffer", "write_buffer"} ELSE {})
  \cup (IF "other" \in g THEN {"verify", "flush", "diagnostic", "smart"} ELSE {})
  \cup (IF "cd" \in g THEN {"packet", "identify_packet", "device_reset"} ELSE {})

Unlimited == {"identify", "identify_packet", "flush", "diagnostic", "smart",
              "set_multiple", "device_reset"}

JobOf(r) ==
  LET sectors == CASE r.cmd \in {"read_ext", "write_ext"} -> Effective48(r.count)
                   [] r.cmd \in {"read", "write", "read_multiple", "write_multiple"} ->
                        Effective(r.count)
                   [] r.cmd = "packet" -> 0
                   [] OTHER -> 1
      perIrq  == IF r.cmd \in {"read_multiple", "write_multiple"} THEN ide.factor ELSE 1
  IN [cmd |-> r.cmd, lba |-> r.lba, asked |-> sectors * SectorWords,
      unit |-> IF perIrq = 0 THEN 1 ELSE perIrq * SectorWords, moved |-> 0]

(* A host lets a transfer end before it gives the next command, unless it   *)
(* abandons it; but never a WRITE BUFFER, nor a data phase by IDENTIFY      *)
(* PACKET DEVICE or DIAGNOSTIC (see README).                                *)
MayCommand(cmd) ==
  ide.drq => /\ HdHas("abandon") /\ job.cmd # "write_buffer"
             /\ cmd \notin {"identify_packet", "diagnostic"}

IssueCommand(r) ==
  /\ hdGuest # {} /\ MayCommand(r.cmd)
  /\ r.cmd \notin Unlimited => commands > 0
  /\ ide' = WriteIdeCommand(ide, r)
  /\ job' = IF Drops(ide, r.cmd) THEN job ELSE JobOf(r)
  /\ commands' = IF r.cmd \in Unlimited THEN commands ELSE commands - 1

Progress == job' = IF ide' = ide THEN job ELSE [job EXCEPT !.moved = @ + 1]

ReadDataPort ==
  /\ ide' = ReadIdeData(ide) /\ Progress /\ UNCHANGED commands

(* The host sends its sectors in order.                                     *)
WriteDataPort ==
  /\ ide.packet.phase # "command"
  /\ ide' = WriteIdeData(ide, HostSector(job.moved \div SectorWords), NoPacket)
  /\ Progress /\ UNCHANGED commands

Answer10(pkt) == IF pkt.op = "read10" THEN pkt.len * CdWords ELSE pkt.len

(* A word of a command packet; the last one executes it.                    *)
WritePacket(pkt) ==
  /\ ide.packet.phase = "command"
  /\ ide' = WriteIdeData(ide, Blank, pkt)
  /\ job' = IF ide'.packet.phase # "command"
            THEN [job EXCEPT !.asked = Answer10(pkt), !.unit = ide.packet.limit]
            ELSE job
  /\ UNCHANGED commands

ReadStatus == ide' = ReadIdeStatus(ide) /\ UNCHANGED <<commands, job>>

StoreDevCtrl(srst, nien) ==
  /\ hdGuest # {}
  /\ srst => HdHas("reset")
  /\ ide' = WriteDevCtrl(ide, srst, nien)
  /\ UNCHANGED <<commands, job>>

StoreDrive(slave) ==
  /\ HdHas("select") /\ ide' = SelectDrive(ide, slave)
  /\ UNCHANGED <<commands, job>>

(* Machine::reset.                                                          *)
ResetMachine ==
  /\ HdHas("reset") /\ ide' = ResetIde(ide)
  /\ UNCHANGED <<commands, job>>

ChangeMedium ==
  /\ HdHas("media") /\ ide' \in {LoadMedium(ide, FactoryImage), UnloadMedium(ide)}
  /\ UNCHANGED <<commands, job>>

Packets ==
  [op : {"test_unit_ready", "eject", "prevent", "allow", "unknown"}, lba : {0}, len : {0}]
  \cup [op : {"request_sense", "inquiry"}, lba : {0}, len : HdLengths]
  \cup [op : {"read10"}, lba : HdLbas, len : 0 .. 2]

Requests(g) ==
  {[cmd |-> cmd, lba |-> 0, count |-> 0] : cmd \in CommandsFor(g) \cap Unlimited}
  \cup {[cmd |-> "set_multiple", lba |-> 0, count |-> n] :
          n \in IF "multiple" \in g THEN HdCounts ELSE {}}
  \cup [cmd : CommandsFor(g) \cap (DiskReads \cup DiskWrites \cup {"verify"}),
        lba : HdLbas, count : HdCounts]
  \cup [cmd : CommandsFor(g) \cap {"read_buffer", "write_buffer"}, lba : {0}, count : {1}]
  \cup [cmd : CommandsFor(g) \cap {"packet"}, lba : {0}, count : HdLimits]

IdeNext ==
  /\ UNCHANGED hdGuest
  /\ \/ \E r \in Requests(hdGuest) : IssueCommand(r)
     \/ ReadDataPort \/ WriteDataPort
     \/ \E pkt \in Packets : WritePacket(pkt)
     \/ ReadStatus
     \/ \E srst, nien \in BOOLEAN : StoreDevCtrl(srst, nien)
     \/ \E slave \in BOOLEAN : StoreDrive(slave)
     \/ ResetMachine \/ ChangeMedium

----------------------------------------------------------------------------

Contents == {Blank} \cup {FactorySector(lba) : lba \in Lbas}
            \cup {HostSector(n) : n \in 0 .. CountBase * CountBase}

IdeTypeOK ==
  /\ ide.kind \in {"ata", "packet", "none"}
  /\ ide.image \in [Lbas -> Contents] \cup {NoMedium}
  /\ ide.count \in 0 .. CountBase * CountBase
  /\ ide.off \in 0 .. SectorWords - 1
  /\ {ide.pio, ide.buffer} \subseteq Contents
  /\ ide.left \in 0 .. CountBase * CountBase /\ ide.next \in 0 .. IdeSectors
  /\ ide.factor \in 0 .. MaxMultiple /\ ide.block \in 0 .. MaxMultiple
  /\ ide.packet.phase \in {"idle", "command", "data_in"}
  /\ ide.packet.off \in 0 .. ide.packet.len + PacketWords
  /\ commands \in 0 .. MaxCommands

SectorNow == job.lba + (job.moved \div SectorWords)

(* What the device still expects is what the host still has to move, from   *)
(* the sector the host thinks it is at, whatever transfer was abandoned or  *)
(* reset before; and the sector count register tells what is left, except   *)
(* of the largest LBA28 transfer (README).                                  *)
TransferOnCourse ==
  /\ ide.drq /\ ide.xfer /\ ide.packet.phase = "idle" =>
       /\ ide.left * SectorWords - ide.off = job.asked - job.moved
       /\ job.cmd \in DiskReads => ide.pio = ide.image[SectorNow]
       /\ job.cmd \in DiskWrites => ide.next = SectorNow /\ ~ide.toBuffer
       /\ job.cmd \in DiskReads \cup DiskWrites /\ ~HdHas("select")
            /\ job.asked < CountBase * SectorWords => ide.count = ide.left
  /\ ide.drq /\ ide.packet.phase = "data_in" =>
       ide.packet.len - ide.packet.off = job.asked - job.moved

(* The disk changes by whole sectors, each the one the host is at and with  *)
(* what it sent; a write that has moved everything has all of it on disk.   *)
SectorsLand ==
  [][/\ ide.kind = "ata" /\ ide'.image # ide.image =>
          /\ job.cmd \in DiskWrites
          /\ ide'.image = [ide.image EXCEPT
                             ![SectorNow] = HostSector(job.moved \div SectorWords)]
     /\ job.cmd \in DiskWrites /\ job'.moved = job.asked /\ job.moved < job.asked =>
          \A k \in 0 .. (job.asked \div SectorWords) - 1 :
            ide'.image[job.lba + k] = HostSector(k)]_ideVars

(* Moving a word interrupts at the end of each block and of the transfer,   *)
(* and where the transfer fails, which may be within a block, and nowhere   *)
(* else: a host that waits for an interrupt per block neither waits forever *)
(* nor finds one that is not its own.                                       *)
BlocksInterrupt ==
  [][job'.moved = job.moved + 1 =>
       ide'.irq = (\/ ide.irq \/ job'.moved % job.unit = 0
                   \/ job'.moved = job.asked \/ ide'.err)]_ideVars

(* DRQ asks for one thing: a packet, a packet's data or a sector; an error  *)
(* asks for nothing; and no phase survives the end of its command.          *)
WaitsOnOne ==
  /\ ide.drq => ide.xfer # (ide.packet.phase # "idle")
  /\ ide.err => ~ide.drq
  /\ ~ide.drq /\ ~ide.bsy => ide.packet.phase = "idle"
=============================================================================
