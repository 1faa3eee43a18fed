--------------------------- MODULE StorageProofs ---------------------------
(***************************************************************************)
(* Proofs about Storage: its IDE channel, for every disk size, sector and  *)
(* packet length, block size and host; its floppy controller with the DMA  *)
(* channel it transfers by, for every geometry, page size and host.        *)
(***************************************************************************)
EXTENDS Storage, SequenceTheorems, TLAPS

----------------------------------------------------------------------------
(* Words and sectors.                                                       *)

LEMMA NextProduct ==
  ASSUME NEW n \in Nat, NEW s \in Nat
  PROVE  /\ n * s \in Nat /\ (n + 1) * s = n * s + s
         /\ 0 * s = 0 /\ 1 * s = s
BY SMT

LEMMA SmallerProduct ==
  ASSUME NEW m \in Nat, NEW n \in Nat, m < n, NEW s \in Nat
  PROVE  m * s \in Nat /\ n * s \in Nat /\ m * s + s <= n * s
BY SMT

LEMMA PlaceOfWord ==
  ASSUME NEW n \in Nat, NEW s \in Nat \ {0}, NEW off \in 0 .. s - 1
  PROVE  (n * s + off) \div s = n /\ (n * s + off) % s = off
BY SMT

----------------------------------------------------------------------------
(* The channel's registers.                                                 *)

Content == [from : {"none", "disk", "host"}, at : Nat]

PacketState ==
  [phase : {"idle", "command", "data_in"}, off : Nat, limit : Nat, len : Nat,
   blockEnd : Nat]

Senses ==
  {"none", "not_ready", "out_of_range", "removal_prevented", "illegal_request"}

IdeRegs ==
  [kind : {"ata", "packet", "none"}, image : [Lbas -> Content] \cup {NoMedium},
   bsy : BOOLEAN, drq : BOOLEAN, err : BOOLEAN, irq : BOOLEAN, nien : BOOLEAN,
   srst : BOOLEAN, slave : BOOLEAN, count : Nat, xfer : BOOLEAN, in : BOOLEAN,
   off : 0 .. SectorWords - 1, pio : Content, buffer : Content,
   toBuffer : BOOLEAN, left : Nat, next : Nat, ext : BOOLEAN, factor : Nat,
   multi : BOOLEAN, block : Nat, packet : PacketState, sense : Senses,
   prevent : BOOLEAN]

(* DRQ stands for one phase, and a phase for DRQ unless a software reset    *)
(* has cut it.                                                              *)
Tidy(d) ==
  /\ d \in IdeRegs
  /\ d.drq => ~d.bsy /\ ~d.err /\ d.kind # "none"
  /\ d.drq /\ d.xfer => d.packet.phase = "idle"
  /\ d.drq /\ ~d.xfer => d.packet.phase # "idle"
  /\ ~d.drq /\ ~d.bsy => d.packet.phase = "idle"
  /\ d.kind # "packet" => d.packet.phase = "idle"
  /\ d.kind = "ata" => d.image \in [Lbas -> Content]

(* What a transfer leaves alone.                                            *)
Stays(d, e) ==
  e.kind = d.kind /\ e.bsy = d.bsy /\ e.slave = d.slave /\ e.factor = d.factor

(* No transfer is under way any more; the disk is as it was.                *)
Ended(d, e) ==
  /\ e \in IdeRegs
  /\ e.kind = d.kind /\ e.slave = d.slave
  /\ e.kind = "ata" => e.image = d.image
  /\ ~e.drq /\ ~e.bsy /\ ~e.toBuffer /\ e.packet.phase = "idle"

LEMMA FirstValues ==
  /\ 0 \in 0 .. SectorWords - 1 /\ NoPacket \in PacketState
  /\ NoPacket.phase = "idle" /\ Blank \in Content
  /\ NoSense \in Senses
BY IdeAssumption DEF NoPacket, PacketState, Blank, Content, NoSense, Senses

LEMMA NewIdeReady ==
  ASSUME NEW kind \in {"ata", "packet", "none"},
         NEW image \in [Lbas -> Content] \cup {NoMedium}
  PROVE  LET e == NewIde(kind, image) IN
         /\ e \in IdeRegs /\ e.kind = kind /\ e.image = image
         /\ ~e.drq /\ ~e.bsy /\ ~e.err /\ ~e.toBuffer /\ ~e.slave
         /\ e.packet.phase = "idle"
BY FirstValues DEF NewIde, IdeRegs, NoSense

LEMMA AbortEnds ==
  ASSUME NEW d \in IdeRegs, ~d.bsy
  PROVE  Ended(d, Abort(d)) /\ Abort(d).irq /\ Abort(d).err
BY FirstValues DEF IdeRegs, Abort, Ended

LEMMA NonDataEnds ==
  ASSUME NEW d \in IdeRegs, ~d.bsy, ~d.toBuffer, d.packet.phase = "idle",
         NEW count \in Nat
  PROVE  Ended(d, NonData(d, count))
BY FirstValues DEF IdeRegs, NonData, Ended

LEMMA NoDeviceEnds ==
  ASSUME NEW d \in IdeRegs, ~d.bsy, ~d.toBuffer, d.packet.phase = "idle"
  PROVE  Ended(d, NoDevice(d))
BY FirstValues DEF IdeRegs, NoDevice, Ended

LEMMA DeviceResetEnds ==
  ASSUME NEW d \in IdeRegs, ~d.bsy
  PROVE  Ended(d, DeviceReset(d))
<1>1. CASE d.kind # "packet"
  BY <1>1, AbortEnds DEF DeviceReset
<1>2. CASE d.kind = "packet"
  <2> DEFINE e == [d EXCEPT !.packet = NoPacket, !.sense = NoSense, !.prevent = FALSE,
                            !.xfer = FALSE, !.in = FALSE, !.toBuffer = FALSE,
                            !.multi = FALSE, !.block = 0, !.left = 0, !.ext = FALSE,
                            !.count = 1, !.drq = FALSE, !.err = FALSE, !.irq = FALSE]
  <2>1. e \in IdeRegs
    BY FirstValues DEF IdeRegs
  <2>2. /\ e.kind = d.kind /\ e.slave = d.slave /\ e.image = d.image
        /\ e.bsy = d.bsy /\ ~e.drq /\ ~e.toBuffer /\ e.packet = NoPacket
    BY DEF IdeRegs
  <2> HIDE DEF e
  <2>3. DeviceReset(d) = e
    BY <1>2 DEF DeviceReset, e
  <2> QED BY <2>1, <2>2, <2>3, FirstValues DEF Ended
<1> QED BY <1>1, <1>2

Like(d, e) ==
  /\ e \in IdeRegs /\ Stays(d, e)
  /\ e.image = d.image /\ e.toBuffer = d.toBuffer /\ e.packet = d.packet

(* A transfer begins, with the sectors it has been sized for.               *)
Runs(d, e) ==
  /\ Like(d, e)
  /\ e.drq /\ e.xfer /\ ~e.err /\ e.off = 0
  /\ e.left = d.left /\ e.next = d.next /\ e.multi = d.multi /\ e.block = d.block

LEMMA OutRuns ==
  ASSUME NEW d \in IdeRegs
  PROVE  LET e == BeginPioOut(d) IN
         /\ Runs(d, e) /\ ~e.in /\ e.pio = d.pio
         /\ e.count = d.count
BY FirstValues DEF BeginPioOut, IdeRegs, Runs, Like, Stays

LEMMA InRuns ==
  ASSUME NEW d \in IdeRegs
  PROVE  LET e == BeginPioIn(d) IN Runs(d, e) /\ e.in /\ e.count = d.count
<1> DEFINE o == BeginPioOut(d)
<1>1. o \in IdeRegs /\ Runs(d, o) /\ o.count = d.count
  BY OutRuns DEF Runs, Like
<1>2. BeginPioIn(d) = [o EXCEPT !.pio = Blank, !.in = TRUE]
  BY DEF BeginPioIn
<1> HIDE DEF o
<1> DEFINE e == [o EXCEPT !.pio = Blank, !.in = TRUE]
<1>3. e \in IdeRegs /\ e.in
  BY <1>1, FirstValues DEF IdeRegs
<1>4. /\ Stays(o, e) /\ e.err = o.err /\ e.irq = o.irq /\ e.off = o.off
      /\ e.drq = o.drq /\ e.xfer = o.xfer
      /\ e.image = o.image /\ e.toBuffer = o.toBuffer /\ e.packet = o.packet
      /\ e.left = o.left /\ e.next = o.next /\ e.count = o.count
      /\ e.multi = o.multi /\ e.block = o.block
  BY <1>1 DEF IdeRegs, Stays
<1> HIDE DEF e
<1>5. BeginPioIn(d) = e
  BY <1>2 DEF e
<1> QED BY <1>1, <1>3, <1>4, <1>5 DEF Runs, Like, Stays

(* The sectors of a transfer are counted.                                   *)
Sized(d, e, left, next) ==
  /\ Like(d, e)
  /\ e.count = d.count /\ e.pio = d.pio
  /\ e.left = left /\ e.next = next

LEMMA SingleSized ==
  ASSUME NEW d \in IdeRegs, NEW left \in Nat, NEW next \in Nat
  PROVE  LET e == SingleSectors(d, left, next) IN Sized(d, e, left, next) /\ ~e.multi
BY DEF SingleSectors, IdeRegs, Sized, Like, Stays

LEMMA MultipleSized ==
  ASSUME NEW d \in IdeRegs, NEW left \in Nat, NEW next \in Nat
  PROVE  LET e == MultipleSectors(d, left, next) IN
         /\ Sized(d, e, left, next) /\ e.multi /\ e.block = MultipleBlock(d, left)
<1>1. MultipleBlock(d, left) \in Nat
  BY DEF MultipleBlock, IdeRegs
<1> QED BY <1>1 DEF MultipleSectors, IdeRegs, Sized, Like, Stays

LEMMA Loads ==
  ASSUME NEW d \in IdeRegs, NEW lba \in Lbas, OnDisk(d, lba)
  PROVE  LET e == LoadSector(d, lba) IN
         /\ e \in IdeRegs /\ e.pio = d.image[lba]
         /\ e = [d EXCEPT !.pio = d.image[lba], !.buffer = d.image[lba]]
<1>1. d.image[lba] \in Content
  BY DEF OnDisk, HasMedium, IdeRegs
<1> QED BY <1>1 DEF LoadSector, IdeRegs

LEMMA Stores ==
  ASSUME NEW d \in IdeRegs, NEW lba \in Lbas, OnDisk(d, lba)
  PROVE  LET e == StoreSector(d, lba) IN
         /\ e \in IdeRegs
         /\ e.image = [d.image EXCEPT ![lba] = d.pio]
         /\ e = [d EXCEPT !.image = [d.image EXCEPT ![lba] = d.pio], !.buffer = d.pio]
<1>1. d.image \in [Lbas -> Content] /\ d.pio \in Content
  BY DEF OnDisk, HasMedium, IdeRegs
<1>2. [d.image EXCEPT ![lba] = d.pio] \in [Lbas -> Content]
  BY <1>1
<1> QED BY <1>2 DEF StoreSector, IdeRegs

----------------------------------------------------------------------------
(* What the host asked for, and how far the device is with it.              *)

CommandNames ==
  DiskReads \cup DiskWrites
  \cup {"identify", "set_multiple", "read_buffer", "write_buffer", "verify", "flush",
        "diagnostic", "smart", "packet", "identify_packet", "device_reset"}

Jobs == [cmd : CommandNames \cup {"none"}, lba : Nat, asked : Nat, unit : Nat,
         moved : Nat]

(* So many sectors are done, and a part of the one under way.               *)
Sectors(d, j, done) ==
  /\ d.left >= 1
  /\ j.asked = (done + d.left) * SectorWords
  /\ j.moved = done * SectorWords + d.off

(* Where on the disk that is, and what is there already.                    *)
Place(d, j, done) ==
  /\ j.cmd \in DiskReads =>
       /\ ~d.in /\ d.kind = "ata" /\ j.lba + done \in Lbas
       /\ d.pio = d.image[j.lba + done] /\ d.next = j.lba + done + 1
  /\ j.cmd \in DiskWrites =>
       /\ d.in /\ d.kind = "ata" /\ ~d.toBuffer
       /\ d.next = j.lba + done /\ d.next \in Lbas
       /\ \A k \in 0 .. done - 1 : d.image[j.lba + k] = HostSector(k)
  /\ j.cmd \notin DiskReads \cup DiskWrites => done = 0 /\ d.left = 1
  /\ d.in => j.cmd \in DiskWrites \cup {"write_buffer"}
  /\ j.cmd = "write_buffer" => d.in /\ d.toBuffer

(* How far it is in a block of READ or WRITE MULTIPLE.                      *)
Block(d, j, done) ==
  /\ ~d.multi => j.unit = SectorWords
  /\ d.multi =>
       /\ d.factor >= 1 /\ j.unit = d.factor * SectorWords
       /\ \E b \in Nat, r \in 0 .. d.factor - 1 :
            /\ done = b * d.factor + r
            /\ d.factor - r < d.left => d.block = d.factor - r
            /\ ~(d.factor - r < d.left) => d.block = d.left

Underway(d, j) ==
  \E done \in Nat : Sectors(d, j, done) /\ Place(d, j, done) /\ Block(d, j, done)

(* The sector count register tells what is left.                            *)
Tally(d, j) ==
  ~HdHas("select") /\ j.cmd \in DiskReads \cup DiskWrites
    /\ j.asked < CountBase * SectorWords => d.count = d.left

(* A packet, or the data it asked for, by blocks of the host's limit.       *)
Asks(d, j) ==
  /\ j.cmd = "packet" /\ d.packet.limit >= 1
  /\ d.packet.phase = "command" => j.moved = 0
  /\ d.packet.phase = "data_in" =>
       /\ j.unit = d.packet.limit /\ j.asked = d.packet.len /\ j.moved = d.packet.off
       /\ d.packet.off < d.packet.blockEnd
       /\ \E b \in Nat :
            /\ b * d.packet.limit <= d.packet.off
            /\ (b + 1) * d.packet.limit < d.packet.len =>
                 d.packet.blockEnd = (b + 1) * d.packet.limit
            /\ ~((b + 1) * d.packet.limit < d.packet.len) =>
                 d.packet.blockEnd = d.packet.len

Course(d, j) ==
  /\ d.slave => HdHas("select")
  /\ d.toBuffer => d.kind = "ata" /\ (d.bsy \/ (d.drq /\ j.cmd = "write_buffer"))
  /\ d.drq /\ d.xfer => Underway(d, j) /\ Tally(d, j)
  /\ d.drq /\ ~d.xfer => Asks(d, j)

(* The inductive invariant.                                                 *)
IdeInv == Tidy(ide) /\ job \in Jobs /\ Course(ide, job)

(* A sector transfer is under way, or a packet phase.                       *)
Started(d, e, j) ==
  /\ e \in IdeRegs
  /\ e.kind = d.kind /\ e.slave = d.slave
  /\ e.kind = "ata" => e.image = d.image
  /\ e.drq /\ e.xfer /\ ~e.err /\ ~e.bsy /\ e.packet.phase = "idle"
  /\ e.kind # "none"
  /\ e.toBuffer => e.kind = "ata" /\ j.cmd = "write_buffer"
  /\ Underway(e, j) /\ Tally(e, j)

Asking(d, e, j) ==
  /\ e \in IdeRegs
  /\ e.kind = "packet" /\ d.kind = "packet" /\ e.slave = d.slave
  /\ e.drq /\ ~e.xfer /\ ~e.err /\ ~e.bsy /\ ~e.toBuffer
  /\ e.packet.phase # "idle"
  /\ Asks(e, j)

Outcome(d, e, j) == Ended(d, e) \/ Started(d, e, j) \/ Asking(d, e, j)

(* Whatever a command or a word leads to is sound.                          *)
LEMMA OutcomeSound ==
  ASSUME NEW d \in IdeRegs, NEW e, NEW j, Outcome(d, e, j),
         d.kind = "ata" => d.image \in [Lbas -> Content],
         d.slave => HdHas("select")
  PROVE  Tidy(e) /\ Course(e, j)
<1>1. CASE Ended(d, e)
  BY <1>1 DEF Ended, Tidy, Course
<1>2. CASE Started(d, e, j)
  BY <1>2 DEF Started, Tidy, Course
<1>3. CASE Asking(d, e, j)
  BY <1>3 DEF Asking, Tidy, Course
<1> QED BY <1>1, <1>2, <1>3 DEF Outcome

LEMMA TransferStarts ==
  ASSUME NEW e \in IdeRegs, NEW j, e.off = 0, e.left >= 1, j.moved = 0,
         j.asked = e.left * SectorWords, Place(e, j, 0),
         ~e.multi => j.unit = SectorWords,
         e.multi => /\ e.factor >= 1 /\ j.unit = e.factor * SectorWords
                    /\ e.block = MultipleBlock(e, e.left)
  PROVE  Underway(e, j)
<1>1. e.left \in Nat /\ e.factor \in Nat
  BY DEF IdeRegs
<1>2. Sectors(e, j, 0)
  BY <1>1, IdeAssumption, NextProduct DEF Sectors
<1>3. Block(e, j, 0)
  <2>1. CASE ~e.multi
    BY <2>1 DEF Block
  <2>2. CASE e.multi
    <3>1. e.factor >= 1 /\ 0 \in 0 .. e.factor - 1 /\ 0 = 0 * e.factor + 0
      BY <1>1, <2>2, NextProduct
    <3>2. /\ e.factor - 0 < e.left => e.block = e.factor - 0
          /\ ~(e.factor - 0 < e.left) => e.block = e.left
      BY <1>1, <2>2 DEF MultipleBlock
    <3> QED BY <2>2, <3>1, <3>2 DEF Block
  <2> QED BY <2>1, <2>2
<1> QED BY <1>2, <1>3 DEF Underway

----------------------------------------------------------------------------
(* Commands.                                                                *)

LEMMA RequestTypes ==
  ASSUME NEW r \in Requests(hdGuest)
  PROVE  /\ r.cmd \in CommandNames /\ r.lba \in Nat /\ r.count \in Nat
         /\ r = [cmd |-> r.cmd, lba |-> r.lba, count |-> r.count]
<1>1. CommandsFor(hdGuest) \subseteq CommandNames
  BY DEF CommandsFor, CommandNames, DiskReads, DiskWrites
<1>2. 0 \in Nat /\ 1 \in Nat /\ HdCounts \subseteq Nat /\ HdLimits \subseteq Nat
  <2> DEFINE most == CountBase * CountBase
  <2>1. HdLimits \subseteq 0 .. most
    BY HostAssumption
  <2> HIDE DEF most
  <2> QED BY <2>1, HostAssumption, IdeAssumption
<1>3. "set_multiple" \in CommandNames
  BY DEF CommandNames
<1> DEFINE given == CommandsFor(hdGuest)
           all   == [cmd : CommandNames, lba : Nat, count : Nat]
<1>4. {[cmd |-> cmd, lba |-> 0, count |-> 0] : cmd \in given \cap Unlimited}
        \subseteq all
  BY <1>1
<1>5. {[cmd |-> "set_multiple", lba |-> 0, count |-> n] :
         n \in IF "multiple" \in hdGuest THEN HdCounts ELSE {}} \subseteq all
  BY <1>2, <1>3
<1>6. /\ [cmd : given \cap (DiskReads \cup DiskWrites \cup {"verify"}),
           lba : HdLbas, count : HdCounts] \subseteq all
      /\ [cmd : given \cap {"read_buffer", "write_buffer"}, lba : {0}, count : {1}]
           \subseteq all
      /\ [cmd : given \cap {"packet"}, lba : {0}, count : HdLimits] \subseteq all
  BY <1>1, <1>2, HostAssumption
<1>7. r \in all
  BY <1>4, <1>5, <1>6 DEF Requests
<1> QED BY <1>7

LEMMA SectorCounts ==
  ASSUME NEW n \in Nat
  PROVE  /\ Effective(n) \in Nat /\ Effective(n) >= 1
         /\ Effective48(n) \in Nat /\ Effective48(n) >= 1
         /\ Effective(n) < CountBase => Effective(n) = n
BY IdeAssumption, NextProduct DEF Effective, Effective48

(* A command's job: nothing has moved; so many sectors, in such blocks.     *)
SectorsOf(r) ==
  IF r.cmd \in {"read_ext", "write_ext"} THEN Effective48(r.count)
  ELSE IF r.cmd \in {"read", "write", "read_multiple", "write_multiple"}
  THEN Effective(r.count) ELSE 1

LEMMA JobFacts ==
  ASSUME NEW r \in [cmd : CommandNames, lba : Nat, count : Nat], ide.factor \in Nat
  PROVE  LET j == JobOf(r) IN
         /\ j \in Jobs /\ j.cmd = r.cmd /\ j.lba = r.lba /\ j.moved = 0
         /\ r.cmd # "packet" => j.asked = SectorsOf(r) * SectorWords
         /\ r.cmd \notin {"read_multiple", "write_multiple"} => j.unit = SectorWords
         /\ r.cmd \in {"read_multiple", "write_multiple"} /\ ide.factor >= 1 =>
              j.unit = ide.factor * SectorWords
<1> DEFINE sectors == CASE r.cmd \in {"read_ext", "write_ext"} -> Effective48(r.count)
                        [] r.cmd \in {"read", "write", "read_multiple", "write_multiple"}
                             -> Effective(r.count)
                        [] r.cmd = "packet" -> 0
                        [] OTHER -> 1
           perIrq  == IF r.cmd \in {"read_multiple", "write_multiple"} THEN ide.factor
                      ELSE 1
           unit    == IF perIrq = 0 THEN 1 ELSE perIrq * SectorWords
<1>1. sectors \in Nat /\ (r.cmd # "packet" => sectors = SectorsOf(r))
  BY SectorCounts DEF SectorsOf
<1>2. perIrq \in Nat
  OBVIOUS
<1>3. unit \in Nat /\ (perIrq # 0 => unit = perIrq * SectorWords)
  BY <1>2, NextProduct, IdeAssumption
<1>4. sectors * SectorWords \in Nat
  BY <1>1, NextProduct, IdeAssumption
<1>5. /\ r.cmd \notin {"read_multiple", "write_multiple"} => perIrq = 1
      /\ r.cmd \in {"read_multiple", "write_multiple"} => perIrq = ide.factor
  OBVIOUS
<1>6. JobOf(r) = [cmd |-> r.cmd, lba |-> r.lba, asked |-> sectors * SectorWords,
                  unit |-> unit, moved |-> 0]
  BY DEF JobOf
<1> HIDE DEF sectors, perIrq, unit
<1>7. 1 * SectorWords = SectorWords
  BY NextProduct, IdeAssumption
<1> DEFINE j == [cmd |-> r.cmd, lba |-> r.lba, asked |-> sectors * SectorWords,
                 unit |-> unit, moved |-> 0]
<1>8. j \in Jobs
  BY <1>3, <1>4 DEF Jobs
<1>9. r.cmd \notin {"read_multiple", "write_multiple"} => unit = SectorWords
  BY <1>3, <1>5, <1>7
<1>10. r.cmd \in {"read_multiple", "write_multiple"} /\ ide.factor >= 1 =>
         unit = ide.factor * SectorWords
  BY <1>3, <1>5
<1> QED BY <1>1, <1>6, <1>8, <1>9, <1>10

(* The device a command finds: not busy, and no sector on its way to the    *)
(* buffer.                                                                  *)
Free(d) == Tidy(d) /\ ~d.bsy /\ ~d.toBuffer /\ ~d.ext /\ d.factor = ide.factor

LEMMA IdentifyStarts ==
  ASSUME NEW d, Free(d), NEW r \in [cmd : CommandNames, lba : Nat, count : Nat],
         r.cmd \in {"identify", "identify_packet"}, d.kind # "none",
         d.packet.phase = "idle"
  PROVE  Outcome(d, Identify(d), JobOf(r))
<1> DEFINE y == [d EXCEPT !.pio = Blank]
           s == SingleSectors(y, 1, 0)
           e == BeginPioOut(s)
           j == JobOf(r)
<1>1. Like(d, y)
  BY FirstValues DEF Free, Tidy, IdeRegs, Like, Stays
<1> HIDE DEF y
<1>2. Sized(y, s, 1, 0) /\ ~s.multi
  BY <1>1, SingleSized DEF Like
<1> HIDE DEF s
<1>3. Runs(s, e) /\ ~e.in
  BY <1>2, OutRuns DEF Sized, Like
<1> HIDE DEF e
<1>4. /\ j.cmd = r.cmd /\ j.moved = 0 /\ j.asked = 1 * SectorWords
      /\ j.unit = SectorWords
  <2>1. SectorsOf(r) = 1
    BY DEF SectorsOf
  <2> QED BY <2>1, JobFacts DEF Free, Tidy, IdeRegs
<1> HIDE DEF j
<1>5. j.cmd \notin DiskReads \cup DiskWrites
  BY <1>4 DEF DiskReads, DiskWrites
<1>6. e.left = 1 /\ e.off = 0 /\ ~e.multi /\ e \in IdeRegs
  BY <1>2, <1>3 DEF Sized, Like, Runs
<1>7. Place(e, j, 0)
  BY <1>3, <1>4, <1>5, <1>6 DEF Place
<1>8. Underway(e, j)
  BY <1>4, <1>6, <1>7, TransferStarts
<1>9. Tally(e, j)
  BY <1>5 DEF Tally
<1>10. Started(d, e, j)
  BY <1>1, <1>2, <1>3, <1>8, <1>9 DEF Started, Sized, Runs, Like, Stays, Free, Tidy
<1>11. Identify(d) = e
  BY DEF Identify, e, s, y
<1> QED BY <1>10, <1>11 DEF Outcome, j

(* Every transfer of sectors starts with all of them to go.                 *)
LEMMA DiskStarts ==
  ASSUME NEW d, Free(d), d.kind = "ata",
         NEW r \in [cmd : CommandNames, lba : Nat, count : Nat],
         r.cmd \in DiskReads \cup DiskWrites,
         NEW s \in IdeRegs, Like(d, s), s.left = SectorsOf(r),
         NEW e, Runs(s, e), Place(e, JobOf(r), 0),
         e.count = s.left \/ e.count = r.count,
         r.cmd \notin {"read_multiple", "write_multiple"} => ~s.multi,
         r.cmd \in {"read_multiple", "write_multiple"} =>
           s.multi /\ d.factor # 0 /\ s.block = MultipleBlock(d, s.left)
  PROVE  Started(d, e, JobOf(r))
<1> DEFINE j == JobOf(r)
<1>1. /\ j.cmd = r.cmd /\ j.moved = 0 /\ j.asked = SectorsOf(r) * SectorWords
      /\ r.cmd \notin {"read_multiple", "write_multiple"} => j.unit = SectorWords
      /\ r.cmd \in {"read_multiple", "write_multiple"} /\ ide.factor >= 1 =>
           j.unit = ide.factor * SectorWords
  BY JobFacts DEF Free, Tidy, IdeRegs, DiskReads, DiskWrites
<1>2. Place(e, j, 0)
  OBVIOUS
<1> HIDE DEF j
<1>3. e \in IdeRegs /\ e.off = 0 /\ e.left = SectorsOf(r) /\ e.multi = s.multi
      /\ e.factor = ide.factor /\ e.block = s.block /\ d.factor = ide.factor
  BY DEF Runs, Like, Stays, Free
<1>4. SectorsOf(r) \in Nat /\ SectorsOf(r) >= 1
  BY SectorCounts DEF SectorsOf
<1>5. MultipleBlock(d, s.left) = MultipleBlock(e, e.left)
  BY <1>3 DEF MultipleBlock
<1>6. ide.factor \in Nat
  BY <1>3 DEF IdeRegs
<1>7. e.multi => /\ e.factor >= 1 /\ j.unit = e.factor * SectorWords
                 /\ e.block = MultipleBlock(e, e.left)
  BY <1>1, <1>3, <1>5, <1>6
<1>8. ~e.multi => j.unit = SectorWords
  BY <1>1, <1>3
<1>9. Underway(e, j)
  BY <1>1, <1>2, <1>3, <1>4, <1>7, <1>8, TransferStarts
<1>10. Tally(e, j)
  <2> SUFFICES ASSUME ~HdHas("select"), j.asked < CountBase * SectorWords,
                      e.count = r.count
               PROVE  e.count = e.left
    BY <1>3 DEF Tally
  <2>1. SectorsOf(r) < CountBase
    BY <1>1, <1>4, SmallerProduct, IdeAssumption
  <2>2. Effective(r.count) < CountBase => Effective(r.count) = r.count
    BY SectorCounts
  <2>3. Effective48(r.count) < CountBase => Effective48(r.count) = r.count
    BY IdeAssumption, NextProduct, SmallerProduct DEF Effective48
  <2>4. SectorsOf(r) = Effective(r.count) \/ SectorsOf(r) = Effective48(r.count)
    BY DEF SectorsOf, DiskReads, DiskWrites
  <2> QED BY <1>3, <2>1, <2>2, <2>3, <2>4
<1> QED BY <1>2, <1>9, <1>10 DEF j, Started, Runs, Like, Stays, Free, Tidy

LEMMA ReadPlace ==
  ASSUME NEW d, Free(d), d.kind = "ata",
         NEW r \in [cmd : CommandNames, lba : Nat, count : Nat],
         r.cmd \in DiskReads, r.lba \in Lbas,
         NEW s \in IdeRegs, Like(d, s), s.pio = d.image[r.lba], s.left = SectorsOf(r),
         s.next = r.lba + 1,
         NEW e, Runs(s, e), ~e.in, e.pio = s.pio
  PROVE  Place(e, JobOf(r), 0)
<1>1. JobOf(r).cmd = r.cmd /\ JobOf(r).lba = r.lba
  BY JobFacts DEF Free, Tidy, IdeRegs
<1>2. r.cmd \notin DiskWrites /\ r.cmd # "write_buffer" /\ r.lba + 0 = r.lba
  BY DEF DiskReads, DiskWrites
<1> QED BY <1>1, <1>2 DEF Place, Runs, Like, Stays

LEMMA WritePlace ==
  ASSUME NEW d, Free(d), d.kind = "ata",
         NEW r \in [cmd : CommandNames, lba : Nat, count : Nat],
         r.cmd \in DiskWrites, r.lba \in Lbas,
         NEW s \in IdeRegs, Like(d, s), s.left = SectorsOf(r), s.next = r.lba,
         NEW e, Runs(s, e), e.in
  PROVE  Place(e, JobOf(r), 0)
<1>1. JobOf(r).cmd = r.cmd /\ JobOf(r).lba = r.lba
  BY JobFacts DEF Free, Tidy, IdeRegs
<1>2. r.cmd \notin DiskReads /\ r.cmd # "write_buffer" /\ r.lba + 0 = r.lba
  BY DEF DiskReads, DiskWrites
<1>3. ~e.toBuffer
  BY DEF Runs, Like, Free
<1> QED BY <1>1, <1>2, <1>3 DEF Place, Runs, Like, Stays

(* An LBA48 transfer: its count is not the register's.                      *)
Extended(o, n) == [o EXCEPT !.ext = TRUE, !.count = n]

LEMMA ExtendedRuns ==
  ASSUME NEW s \in IdeRegs, NEW o, Runs(s, o), NEW n \in Nat
  PROVE  LET e == Extended(o, n) IN
         /\ Runs(s, e) /\ e.pio = o.pio /\ e.count = n
         /\ o.in => e.in
         /\ ~o.in => ~e.in
<1> DEFINE e == [o EXCEPT !.ext = TRUE, !.count = n]
<1>1. o \in IdeRegs
  BY DEF Runs, Like
<1>2. e \in IdeRegs /\ e.in = o.in /\ e.pio = o.pio /\ e.count = n
  BY <1>1 DEF IdeRegs
<1>3. /\ Stays(o, e) /\ e.err = o.err /\ e.off = o.off
      /\ e.drq = o.drq /\ e.xfer = o.xfer
      /\ e.image = o.image /\ e.toBuffer = o.toBuffer /\ e.packet = o.packet
      /\ e.left = o.left /\ e.next = o.next
      /\ e.multi = o.multi /\ e.block = o.block
  BY <1>1 DEF IdeRegs, Stays
<1> HIDE DEF e
<1>4. Runs(s, e)
  BY <1>2, <1>3 DEF Runs, Like, Stays
<1> QED BY <1>2, <1>4 DEF e, Extended

(* The request a disk command lemma is about, and the device that has taken *)
(* its sector count.                                                        *)
Given(d, r) ==
  /\ Free(d) /\ d.kind = "ata" /\ d.count = r.count
  /\ r \in [cmd : CommandNames, lba : Nat, count : Nat]

LEMMA LoadedLike ==
  ASSUME NEW d, Free(d), d.kind = "ata", NEW lba \in Lbas
  PROVE  LET y == LoadSector(d, lba) IN
         Like(d, y) /\ y.pio = d.image[lba] /\ y.count = d.count
<1>1. d \in IdeRegs /\ d.image \in [Lbas -> Content]
  BY DEF Free, Tidy
<1>2. d.image[lba] \in Content
  BY <1>1
<1> QED BY <1>1, <1>2 DEF LoadSector, IdeRegs, Like, Stays

LEMMA SingleReadStarts ==
  ASSUME NEW d, NEW r, Given(d, r), r.cmd \in {"read", "read_ext"}, r.lba \in Lbas,
         NEW y \in IdeRegs, Like(d, y), y.pio = d.image[r.lba], y.count = r.count
  PROVE  LET o == BeginPioOut(SingleSectors(y, SectorsOf(r), r.lba + 1)) IN
         /\ Started(d, o, JobOf(r))
         /\ Started(d, Extended(o, SectorsOf(r)), JobOf(r))
<1> DEFINE n == SectorsOf(r)
           s == SingleSectors(y, n, r.lba + 1)
           o == BeginPioOut(s)
           x == Extended(o, n)
<1>1. n \in Nat /\ n = SectorsOf(r)
  BY SectorCounts DEF SectorsOf, Given
<1> HIDE DEF n
<1>2. r.lba + 1 \in Nat
  BY DEF Given
<1>3. Sized(y, s, n, r.lba + 1) /\ ~s.multi
  BY <1>1, <1>2, SingleSized
<1> HIDE DEF s
<1>4. /\ Like(d, s) /\ s \in IdeRegs /\ s.pio = d.image[r.lba] /\ s.left = SectorsOf(r)
      /\ s.next = r.lba + 1 /\ s.count = r.count
  BY <1>1, <1>3 DEF Sized, Like, Stays
<1>5. Runs(s, o) /\ ~o.in /\ o.pio = s.pio /\ o.count = s.count
  BY <1>4, OutRuns
<1> HIDE DEF o
<1>6. Runs(s, x) /\ ~x.in /\ x.pio = s.pio /\ x.count = s.left
  BY <1>1, <1>4, <1>5, ExtendedRuns
<1> HIDE DEF x
<1>7. r.cmd \in DiskReads
  BY DEF DiskReads
<1>8. Place(o, JobOf(r), 0) /\ Place(x, JobOf(r), 0)
  BY <1>4, <1>5, <1>6, <1>7, ReadPlace DEF Given
<1>9. Started(d, o, JobOf(r))
  BY <1>3, <1>4, <1>5, <1>7, <1>8, DiskStarts DEF Given
<1>10. Started(d, x, JobOf(r))
  BY <1>3, <1>4, <1>6, <1>7, <1>8, DiskStarts DEF Given
<1> QED BY <1>9, <1>10 DEF o, x, s, n

LEMMA SingleWriteStarts ==
  ASSUME NEW d, NEW r, Given(d, r), r.cmd \in {"write", "write_ext"}, r.lba \in Lbas
  PROVE  LET o == BeginPioIn(SingleSectors(d, SectorsOf(r), r.lba)) IN
         /\ Started(d, o, JobOf(r))
         /\ Started(d, Extended(o, SectorsOf(r)), JobOf(r))
<1> DEFINE n == SectorsOf(r)
           s == SingleSectors(d, n, r.lba)
           o == BeginPioIn(s)
           x == Extended(o, n)
<1>1. n \in Nat /\ n = SectorsOf(r)
  BY SectorCounts DEF SectorsOf, Given
<1> HIDE DEF n
<1>2. r.lba \in Nat /\ d \in IdeRegs
  BY DEF Given, Free, Tidy
<1>3. Sized(d, s, n, r.lba) /\ ~s.multi
  BY <1>1, <1>2, SingleSized
<1> HIDE DEF s
<1>4. /\ Like(d, s) /\ s \in IdeRegs /\ s.left = SectorsOf(r)
      /\ s.next = r.lba /\ s.count = r.count
  BY <1>1, <1>3 DEF Sized, Like, Given
<1>5. Runs(s, o) /\ o.in /\ o.count = s.count
  BY <1>4, InRuns
<1> HIDE DEF o
<1>6. Runs(s, x) /\ x.in /\ x.count = s.left
  BY <1>1, <1>4, <1>5, ExtendedRuns
<1> HIDE DEF x
<1>7. r.cmd \in DiskWrites
  BY DEF DiskWrites
<1>8. Place(o, JobOf(r), 0) /\ Place(x, JobOf(r), 0)
  BY <1>4, <1>5, <1>6, <1>7, WritePlace DEF Given
<1>9. Started(d, o, JobOf(r))
  BY <1>3, <1>4, <1>5, <1>7, <1>8, DiskStarts DEF Given
<1>10. Started(d, x, JobOf(r))
  BY <1>3, <1>4, <1>6, <1>7, <1>8, DiskStarts DEF Given
<1> QED BY <1>9, <1>10 DEF o, x, s, n

LEMMA MultipleReadStarts ==
  ASSUME NEW d, NEW r, Given(d, r), r.cmd = "read_multiple", r.lba \in Lbas,
         d.factor # 0
  PROVE  Started(d, BeginPioOut(MultipleSectors(LoadSector(d, r.lba), SectorsOf(r),
                                                r.lba + 1)), JobOf(r))
<1> DEFINE n == SectorsOf(r)
           y == LoadSector(d, r.lba)
           s == MultipleSectors(y, n, r.lba + 1)
           o == BeginPioOut(s)
<1>1. n \in Nat /\ n = SectorsOf(r)
  BY SectorCounts DEF SectorsOf, Given
<1> HIDE DEF n
<1>2. r.lba + 1 \in Nat
  BY DEF Given
<1>3. Like(d, y) /\ y.pio = d.image[r.lba] /\ y.count = r.count /\ y \in IdeRegs
  BY LoadedLike DEF Given, Like
<1> HIDE DEF y
<1>4. Sized(y, s, n, r.lba + 1) /\ s.multi /\ s.block = MultipleBlock(y, n)
  BY <1>1, <1>2, <1>3, MultipleSized
<1> HIDE DEF s
<1>5. /\ Like(d, s) /\ s \in IdeRegs /\ s.pio = d.image[r.lba] /\ s.left = SectorsOf(r)
      /\ s.next = r.lba + 1 /\ s.count = r.count
  BY <1>1, <1>3, <1>4 DEF Sized, Like, Stays
<1>6. Runs(s, o) /\ ~o.in /\ o.pio = s.pio /\ o.count = s.count
  BY <1>5, OutRuns
<1> HIDE DEF o
<1>7. r.cmd \in DiskReads
  BY DEF DiskReads
<1>8. Place(o, JobOf(r), 0)
  BY <1>5, <1>6, <1>7, ReadPlace DEF Given
<1>9. s.block = MultipleBlock(d, s.left)
  BY <1>1, <1>3, <1>4, <1>5 DEF MultipleBlock, Like, Stays
<1>10. Started(d, o, JobOf(r))
  BY <1>4, <1>5, <1>6, <1>7, <1>8, <1>9, DiskStarts DEF Given
<1> QED BY <1>10 DEF o, s, y, n

LEMMA MultipleWriteStarts ==
  ASSUME NEW d, NEW r, Given(d, r), r.cmd = "write_multiple", r.lba \in Lbas,
         d.factor # 0
  PROVE  Started(d, BeginPioIn(MultipleSectors(d, SectorsOf(r), r.lba)), JobOf(r))
<1> DEFINE n == SectorsOf(r)
           s == MultipleSectors(d, n, r.lba)
           o == BeginPioIn(s)
<1>1. n \in Nat /\ n = SectorsOf(r)
  BY SectorCounts DEF SectorsOf, Given
<1> HIDE DEF n
<1>2. r.lba \in Nat /\ d \in IdeRegs
  BY DEF Given, Free, Tidy
<1>3. Sized(d, s, n, r.lba) /\ s.multi /\ s.block = MultipleBlock(d, n)
  BY <1>1, <1>2, MultipleSized
<1> HIDE DEF s
<1>4. /\ Like(d, s) /\ s \in IdeRegs /\ s.left = SectorsOf(r)
      /\ s.next = r.lba /\ s.count = r.count
  BY <1>1, <1>3 DEF Sized, Like, Given
<1>5. Runs(s, o) /\ o.in /\ o.count = s.count
  BY <1>4, InRuns
<1> HIDE DEF o
<1>6. r.cmd \in DiskWrites
  BY DEF DiskWrites
<1>7. Place(o, JobOf(r), 0)
  BY <1>4, <1>5, <1>6, WritePlace DEF Given
<1>8. s.block = MultipleBlock(d, s.left)
  BY <1>1, <1>3, <1>4
<1>9. Started(d, o, JobOf(r))
  BY <1>3, <1>4, <1>5, <1>6, <1>7, <1>8, DiskStarts DEF Given
<1> QED BY <1>9 DEF o, s, n

LEMMA BufferStarts ==
  ASSUME NEW d, NEW r, Given(d, r)
  PROVE  /\ r.cmd = "read_buffer" => Started(d, ReadBuffer(d), JobOf(r))
         /\ r.cmd = "write_buffer" => Started(d, WriteBuffer(d), JobOf(r))
<1> DEFINE j == JobOf(r)
<1>1. d \in IdeRegs /\ ~d.bsy /\ ~d.toBuffer /\ d.packet.phase = "idle"
  BY DEF Given, Free, Tidy
<1> SUFFICES ASSUME r.cmd \in {"read_buffer", "write_buffer"}
             PROVE  /\ r.cmd = "read_buffer" => Started(d, ReadBuffer(d), j)
                    /\ r.cmd = "write_buffer" => Started(d, WriteBuffer(d), j)
  OBVIOUS
<1>2. /\ j.cmd = r.cmd /\ j.moved = 0 /\ j.asked = 1 * SectorWords
      /\ j.unit = SectorWords
  <2>1. SectorsOf(r) = 1
    BY DEF SectorsOf
  <2> QED BY <2>1, JobFacts DEF Given, Free, Tidy, IdeRegs
<1> HIDE DEF j
<1>3. j.cmd \notin DiskReads \cup DiskWrites
  BY <1>2 DEF DiskReads, DiskWrites
<1>4. CASE r.cmd = "read_buffer"
  <2> DEFINE y == [d EXCEPT !.pio = d.buffer]
             s == SingleSectors(y, 1, 0)
             e == BeginPioOut(s)
  <2>1. Like(d, y)
    BY <1>1 DEF IdeRegs, Like, Stays
  <2> HIDE DEF y
  <2>2. Sized(y, s, 1, 0) /\ ~s.multi
    BY <2>1, SingleSized DEF Like
  <2> HIDE DEF s
  <2>3. Runs(s, e) /\ ~e.in
    BY <2>2, OutRuns DEF Sized, Like
  <2> HIDE DEF e
  <2>4. e.left = 1 /\ e.off = 0 /\ ~e.multi /\ e \in IdeRegs
    BY <2>2, <2>3 DEF Sized, Like, Runs
  <2>5. Place(e, j, 0)
    BY <1>2, <1>3, <1>4, <2>3, <2>4 DEF Place
  <2>6. Underway(e, j)
    BY <1>2, <2>4, <2>5, TransferStarts
  <2>7. Tally(e, j)
    BY <1>3 DEF Tally
  <2>8. Started(d, e, j)
    BY <1>1, <2>1, <2>2, <2>3, <2>6, <2>7
       DEF Started, Sized, Runs, Like, Stays, Given
  <2>9. ReadBuffer(d) = e
    BY DEF ReadBuffer, e, s, y
  <2> QED BY <1>4, <2>8, <2>9
<1>5. CASE r.cmd = "write_buffer"
  <2> DEFINE y == [d EXCEPT !.toBuffer = TRUE]
             s == SingleSectors(y, 1, 0)
             e == BeginPioIn(s)
  <2>1. y \in IdeRegs /\ Stays(d, y) /\ y.image = d.image /\ y.packet = d.packet
        /\ y.toBuffer
    BY <1>1 DEF IdeRegs, Stays
  <2> HIDE DEF y
  <2>2. Sized(y, s, 1, 0) /\ ~s.multi
    BY <2>1, SingleSized
  <2> HIDE DEF s
  <2>3. Runs(s, e) /\ e.in
    BY <2>2, InRuns DEF Sized, Like
  <2> HIDE DEF e
  <2>4. e.left = 1 /\ e.off = 0 /\ ~e.multi /\ e \in IdeRegs /\ e.toBuffer
    BY <2>1, <2>2, <2>3 DEF Sized, Like, Runs
  <2>5. Place(e, j, 0)
    BY <1>2, <1>3, <1>5, <2>3, <2>4 DEF Place
  <2>6. Underway(e, j)
    BY <1>2, <2>4, <2>5, TransferStarts
  <2>7. Tally(e, j)
    BY <1>3 DEF Tally
  <2>8. Started(d, e, j)
    BY <1>1, <1>2, <1>5, <2>1, <2>2, <2>3, <2>6, <2>7
       DEF Started, Sized, Runs, Like, Stays, Given
  <2>9. WriteBuffer(d) = e
    BY DEF WriteBuffer, e, s, y
  <2> QED BY <1>5, <2>8, <2>9
<1> QED BY <1>4, <1>5

LEMMA DiskCommandOutcome ==
  ASSUME NEW d, NEW r, Given(d, r)
  PROVE  Outcome(d, DiskCommand(d, r), JobOf(r))
<1>1. d \in IdeRegs /\ ~d.bsy /\ ~d.toBuffer /\ d.packet.phase = "idle"
      /\ d.image \in [Lbas -> Content] /\ d.kind = "ata" /\ Free(d)
  BY DEF Given, Free, Tidy
<1>2. Ended(d, Abort(d))
  BY <1>1, AbortEnds
<1>3. \A n \in Nat : Ended(d, NonData(d, n))
  BY <1>1, NonDataEnds
<1>4. d.count \in Nat
  BY <1>1 DEF IdeRegs
<1>5. r \in [cmd : CommandNames, lba : Nat, count : Nat]
  BY DEF Given
<1>6. OnDisk(d, r.lba) => r.lba \in Lbas
  BY DEF OnDisk
<1>7. CASE r.cmd = "identify"
  BY <1>1, <1>5, <1>7, IdentifyStarts DEF DiskCommand
<1> DEFINE y == LoadSector(d, r.lba)
<1>8. r.lba \in Lbas => /\ Like(d, y) /\ y.pio = d.image[r.lba] /\ y.count = r.count
                        /\ y \in IdeRegs
  BY <1>1, LoadedLike DEF Given, Like
<1>9. CASE r.cmd = "read"
  <2>1. SectorsOf(r) = Effective(r.count)
    BY <1>9 DEF SectorsOf
  <2>2. CASE OnDisk(d, r.lba)
    <3> DEFINE x == [y EXCEPT !.ext = FALSE]
    <3>1. y \in IdeRegs /\ Like(d, y) /\ y.pio = d.image[r.lba] /\ y.count = r.count
      BY <1>6, <1>8, <2>2
    <3> HIDE DEF y
    <3>2. Like(d, x) /\ x.pio = d.image[r.lba] /\ x.count = r.count /\ x \in IdeRegs
      BY <3>1 DEF IdeRegs, Like, Stays
    <3> HIDE DEF x
    <3>3. Started(d, BeginPioOut(SingleSectors(x, SectorsOf(r), r.lba + 1)), JobOf(r))
      BY <1>6, <1>9, <2>2, <3>2, SingleReadStarts
    <3> QED BY <1>9, <2>1, <2>2, <3>3 DEF DiskCommand, ReadSectors, Outcome, x, y
  <2>3. CASE ~OnDisk(d, r.lba)
    BY <1>2, <1>9, <2>3 DEF DiskCommand, ReadSectors, Outcome
  <2> QED BY <2>2, <2>3
<1>10. CASE r.cmd = "write"
  <2>1. SectorsOf(r) = Effective(r.count)
    BY <1>10 DEF SectorsOf
  <2> QED BY <1>2, <1>6, <1>10, <2>1, SingleWriteStarts
          DEF DiskCommand, WriteSectors, Outcome
<1>11. CASE r.cmd = "read_ext"
  <2>1. SectorsOf(r) = Effective48(r.count)
    BY <1>11 DEF SectorsOf
  <2>2. CASE InBounds48(d, r.lba, SectorsOf(r))
    <3>1. r.lba \in Lbas
      BY <1>6, <2>2 DEF InBounds48
    <3>2. Started(d, Extended(BeginPioOut(SingleSectors(y, SectorsOf(r), r.lba + 1)),
                              SectorsOf(r)), JobOf(r))
      BY <1>8, <1>11, <3>1, SingleReadStarts
    <3> QED BY <1>11, <2>1, <2>2, <3>2
            DEF DiskCommand, ReadSectorsExt, Extended, Outcome
  <2>3. CASE ~InBounds48(d, r.lba, SectorsOf(r))
    BY <1>2, <1>11, <2>1, <2>3 DEF DiskCommand, ReadSectorsExt, Outcome
  <2> QED BY <2>2, <2>3
<1>12. CASE r.cmd = "write_ext"
  <2>1. SectorsOf(r) = Effective48(r.count)
    BY <1>12 DEF SectorsOf
  <2>2. CASE InBounds48(d, r.lba, SectorsOf(r))
    <3>1. r.lba \in Lbas
      BY <1>6, <2>2 DEF InBounds48
    <3>2. Started(d, Extended(BeginPioIn(SingleSectors(d, SectorsOf(r), r.lba)),
                              SectorsOf(r)), JobOf(r))
      BY <1>12, <3>1, SingleWriteStarts
    <3> QED BY <1>12, <2>1, <2>2, <3>2
            DEF DiskCommand, WriteSectorsExt, Extended, Outcome
  <2>3. CASE ~InBounds48(d, r.lba, SectorsOf(r))
    BY <1>2, <1>12, <2>1, <2>3 DEF DiskCommand, WriteSectorsExt, Outcome
  <2> QED BY <2>2, <2>3
<1>13. CASE r.cmd = "read_multiple"
  <2>1. SectorsOf(r) = Effective(r.count)
    BY <1>13 DEF SectorsOf
  <2> QED BY <1>2, <1>6, <1>13, <2>1, MultipleReadStarts
          DEF DiskCommand, ReadMultiple, Outcome
<1>14. CASE r.cmd = "write_multiple"
  <2>1. SectorsOf(r) = Effective(r.count)
    BY <1>14 DEF SectorsOf
  <2> QED BY <1>2, <1>6, <1>14, <2>1, MultipleWriteStarts
          DEF DiskCommand, WriteMultiple, Outcome
<1>15. CASE r.cmd = "set_multiple"
  <2> DEFINE x == NonData(d, d.count)
             e == [x EXCEPT !.factor = r.count]
  <2>1. Ended(d, x)
    BY <1>3, <1>4
  <2> HIDE DEF x
  <2>2. Ended(d, e)
    BY <1>5, <2>1 DEF Ended, IdeRegs
  <2> HIDE DEF e
  <2>3. SetMultiple(d, r.count) = e \/ SetMultiple(d, r.count) = Abort(d)
    BY DEF SetMultiple, e, x
  <2> QED BY <1>2, <1>15, <2>2, <2>3 DEF DiskCommand, Outcome
<1>16. CASE r.cmd \in {"read_buffer", "write_buffer"}
  BY <1>16, BufferStarts DEF DiskCommand, Outcome
<1>17. CASE r.cmd \in {"verify", "diagnostic", "flush"}
  BY <1>2, <1>3, <1>4, <1>17 DEF DiskCommand, VerifySectors, Diagnostic, Outcome
<1>18. CASE r.cmd \in {"smart", "packet", "identify_packet", "device_reset"}
  BY <1>2, <1>18 DEF DiskCommand, Refused, Outcome
<1> QED BY <1>5, <1>7, <1>9, <1>10, <1>11, <1>12, <1>13, <1>14, <1>15, <1>16, <1>17,
           <1>18 DEF CommandNames, DiskReads, DiskWrites

LEMMA PacketDeviceOutcome ==
  ASSUME NEW d, Free(d), d.kind = "packet",
         NEW r \in [cmd : CommandNames, lba : Nat, count : Nat],
         d.drq => r.cmd \notin {"identify_packet", "diagnostic"}
  PROVE  Outcome(d, PacketDeviceCommand(d, r), JobOf(r))
<1>1. d \in IdeRegs /\ ~d.bsy /\ ~d.toBuffer
  BY DEF Free, Tidy
<1>2. Ended(d, Abort(d)) /\ Ended(d, DeviceReset(d))
  BY <1>1, AbortEnds, DeviceResetEnds
<1>3. CASE r.cmd \in {"identify_packet", "diagnostic"}
  <2>1. d.packet.phase = "idle"
    BY <1>3 DEF Free, Tidy
  <2>2. Ended(d, Diagnostic(d))
    BY <1>1, <2>1, NonDataEnds DEF Diagnostic
  <2>3. r.cmd = "identify_packet" => Outcome(d, Identify(d), JobOf(r))
    BY <2>1, IdentifyStarts
  <2> QED BY <1>3, <2>2, <2>3 DEF PacketDeviceCommand, Outcome
<1>4. CASE r.cmd \in {"identify", "read"}
  <2> DEFINE x == Abort(d)
             e == [x EXCEPT !.count = 1]
  <2>1. Ended(d, x)
    BY <1>2
  <2> HIDE DEF x
  <2>2. Ended(d, e)
    BY <2>1 DEF Ended, IdeRegs
  <2>3. RefusedWithSignature(d) = e
    BY DEF RefusedWithSignature, x
  <2> HIDE DEF e
  <2> QED BY <1>4, <2>2, <2>3 DEF PacketDeviceCommand, Outcome
<1>5. CASE r.cmd = "packet" /\ r.count # 0
  <2> DEFINE p == [NoPacket EXCEPT !.phase = "command", !.limit = r.count]
             e == [d EXCEPT !.packet = p,
                     !.xfer = FALSE, !.in = FALSE, !.toBuffer = FALSE,
                     !.multi = FALSE, !.block = 0, !.left = 0, !.drq = TRUE,
                     !.err = FALSE, !.irq = FALSE]
  <2>1. /\ r.count \in Nat /\ r.count >= 1
        /\ p \in PacketState /\ p.phase = "command" /\ p.limit = r.count
    <3>1. r.count \in Nat /\ r.count >= 1
      BY <1>5
    <3>2. p \in PacketState /\ p.phase = "command" /\ p.limit = r.count
      BY <3>1, FirstValues DEF PacketState
    <3> QED BY <3>1, <3>2
  <2> HIDE DEF p
  <2>2. e \in IdeRegs
    BY <1>1, <2>1 DEF IdeRegs
  <2>3. /\ e.kind = d.kind /\ e.slave = d.slave /\ e.packet = p /\ e.drq
        /\ ~e.xfer /\ ~e.err /\ ~e.bsy /\ ~e.toBuffer
    BY <1>1 DEF IdeRegs
  <2>4. PacketDeviceCommand(d, r) = e
    BY <1>5 DEF PacketDeviceCommand, BeginPacket, p
  <2> HIDE DEF e
  <2>5. JobOf(r).cmd = "packet" /\ JobOf(r).moved = 0
    BY <1>5, JobFacts DEF Free, Tidy, IdeRegs
  <2>6. Asks(e, JobOf(r))
    BY <2>1, <2>3, <2>5 DEF Asks
  <2>7. Asking(d, e, JobOf(r))
    BY <2>1, <2>2, <2>3, <2>6 DEF Asking
  <2> QED BY <2>4, <2>7 DEF Outcome
<1>6. CASE r.cmd = "packet" /\ r.count = 0
  BY <1>2, <1>6 DEF PacketDeviceCommand, BeginPacket, Outcome
<1>7. CASE r.cmd \notin {"identify_packet", "diagnostic", "identify", "read", "packet"}
  BY <1>2, <1>7 DEF PacketDeviceCommand, Outcome
<1> QED BY <1>3, <1>4, <1>5, <1>6, <1>7

LEMMA NoDeviceOutcome ==
  ASSUME NEW d, Free(d), d.kind = "none", NEW j
  PROVE  Outcome(d, NoDevice(d), j)
BY NoDeviceEnds DEF Free, Tidy, Outcome

(* The host's features do not change.                                       *)
LEMMA IdeInvKept ==
  ASSUME UNCHANGED hdGuest, Tidy(ide'), job' \in Jobs, Course(ide', job')
  PROVE  IdeInv'
BY DEF IdeInv, Course, Tally, HdHas

(* A step that moves no word leaves the disk alone.                         *)
NoWord(d, e, j, m) ==
  /\ m.moved \in {0, j.moved}
  /\ d.kind = "ata" => e.image = d.image

(* A command finds the channel free, or is dropped.                         *)
LEMMA CommandSound ==
  ASSUME IdeInv, NEW r \in Requests(hdGuest), IssueCommand(r), UNCHANGED hdGuest
  PROVE  IdeInv' /\ NoWord(ide, ide', job, job')
<1> DEFINE e == [ide EXCEPT !.count = r.count]
           f == [e EXCEPT !.ext = FALSE]
<1>1. Tidy(ide) /\ ide \in IdeRegs /\ job \in Jobs /\ Course(ide, job)
  BY DEF IdeInv, Tidy
<1>2. /\ r \in [cmd : CommandNames, lba : Nat, count : Nat] /\ r.count \in Nat
  BY RequestTypes
<1>3. e \in IdeRegs
  BY <1>1, <1>2 DEF IdeRegs
<1>4. /\ e.kind = ide.kind /\ e.image = ide.image /\ e.bsy = ide.bsy /\ e.drq = ide.drq
      /\ e.err = ide.err /\ e.slave = ide.slave /\ e.xfer = ide.xfer /\ e.in = ide.in
      /\ e.off = ide.off /\ e.pio = ide.pio /\ e.toBuffer = ide.toBuffer
      /\ e.left = ide.left /\ e.next = ide.next /\ e.factor = ide.factor
      /\ e.multi = ide.multi /\ e.block = ide.block /\ e.packet = ide.packet
      /\ e.count = r.count
  BY <1>1 DEF IdeRegs
<1>5. Tidy(e)
  BY <1>1, <1>3, <1>4 DEF Tidy
<1>6. CASE Drops(ide, r.cmd)
  <2>1. ide' = e /\ job' = job
    BY <1>6 DEF IssueCommand, WriteIdeCommand
  <2>2. ide.bsy \/ ide.slave
    BY <1>6 DEF Drops
  <2>3. ~HdHas("select") => ~ide.drq
    BY <1>1, <2>2 DEF Course, Tidy
  <2>4. Underway(ide, job) => Underway(e, job)
    BY <1>4 DEF Underway, Sectors, Place, Block
  <2>5. Asks(ide, job) => Asks(e, job)
    BY <1>4 DEF Asks
  <2>6. Course(e, job)
    BY <1>1, <1>4, <2>3, <2>4, <2>5 DEF Course, Tally
  <2>7. NoWord(ide, ide', job, job')
    BY <1>4, <2>1 DEF NoWord
  <2> HIDE DEF e
  <2> QED BY <1>1, <1>5, <2>1, <2>6, <2>7, IdeInvKept
<1>7. CASE ~Drops(ide, r.cmd)
  <2> HIDE DEF e
  <2>1. f \in IdeRegs
    BY <1>3 DEF IdeRegs
  <2>2. /\ f.kind = e.kind /\ f.image = e.image /\ f.bsy = e.bsy /\ f.drq = e.drq
        /\ f.err = e.err /\ f.slave = e.slave /\ f.xfer = e.xfer
        /\ f.toBuffer = e.toBuffer /\ f.factor = e.factor /\ f.packet = e.packet
        /\ f.count = e.count /\ ~f.ext
    BY <1>3 DEF IdeRegs
  <2> HIDE DEF f
  <2>3. Tidy(f)
    BY <1>5, <2>1, <2>2 DEF Tidy
  <2>4. ~ide.bsy
    BY <1>7 DEF Drops
  <2>5. ide.drq => /\ job.cmd # "write_buffer"
                   /\ r.cmd \notin {"identify_packet", "diagnostic"}
    BY DEF IssueCommand, MayCommand
  <2>6. ~ide.toBuffer
    BY <1>1, <2>4, <2>5 DEF Course
  <2>7. Free(f)
    BY <1>4, <2>2, <2>3, <2>4, <2>6 DEF Free
  <2>8. job' = JobOf(r) /\ job' \in Jobs /\ job'.moved = 0
    BY <1>1, <1>2, <1>7, JobFacts DEF IssueCommand, IdeRegs
  <2>9. Outcome(f, ide', JobOf(r))
    <3>1. CASE f.kind = "none"
      BY <1>4, <1>7, <2>2, <2>7, <3>1, NoDeviceOutcome
         DEF IssueCommand, WriteIdeCommand, e, f
    <3>2. CASE f.kind = "packet"
      <4>1. ide' = PacketDeviceCommand(f, r)
        BY <1>4, <1>7, <2>2, <3>2 DEF IssueCommand, WriteIdeCommand, e, f
      <4> QED BY <1>2, <1>4, <2>2, <2>5, <2>7, <3>2, <4>1, PacketDeviceOutcome
    <3>3. CASE f.kind = "ata"
      <4>1. ide' = DiskCommand(f, r)
        BY <1>4, <1>7, <2>2, <3>3 DEF IssueCommand, WriteIdeCommand, e, f
      <4> QED BY <1>2, <1>4, <2>2, <2>7, <3>3, <4>1, DiskCommandOutcome DEF Given
    <3> QED BY <2>1, <3>1, <3>2, <3>3 DEF IdeRegs
  <2>10. Tidy(ide') /\ Course(ide', JobOf(r))
    BY <1>1, <1>4, <2>1, <2>2, <2>3, <2>9, OutcomeSound DEF Course, Tidy
  <2>11. NoWord(ide, ide', job, job')
    BY <1>4, <2>2, <2>8, <2>9 DEF NoWord, Outcome, Ended, Started, Asking
  <2> QED BY <2>8, <2>10, <2>11, IdeInvKept
<1> QED BY <1>6, <1>7

----------------------------------------------------------------------------
(* The data port.                                                           *)

LEMMA BlockProduct ==
  ASSUME NEW b \in Nat, NEW f \in Nat, NEW r \in Nat, NEW s \in Nat
  PROVE  (b * f + r) * s = b * (f * s) + r * s
BY SMT

LEMMA TransferOverEnds ==
  ASSUME NEW d \in IdeRegs, ~d.bsy, ~d.toBuffer, d.packet.phase = "idle"
  PROVE  Ended(d, TransferOver(d)) /\ TransferOver(d).irq
<1> DEFINE x == [d EXCEPT !.xfer = FALSE, !.in = FALSE, !.multi = FALSE, !.block = 0,
                          !.off = 0, !.drq = FALSE, !.err = FALSE, !.irq = TRUE]
           n == IF x.kind = "packet" THEN 1 ELSE 0
           e == [x EXCEPT !.count = n, !.ext = FALSE]
<1>1. Ended(d, x) /\ x.irq
  BY FirstValues DEF IdeRegs, Ended
<1> HIDE DEF x
<1>2. n \in Nat
  OBVIOUS
<1> HIDE DEF n
<1>3. Ended(d, e) /\ e.irq
  BY <1>1, <1>2 DEF IdeRegs, Ended
<1> HIDE DEF e
<1>4. TransferOver(d) = e
  BY DEF TransferOver, CountOver, e, n, x
<1> QED BY <1>3, <1>4

LEMMA CountedFacts ==
  ASSUME NEW d \in IdeRegs, d.left >= 1
  PROVE  LET e == Counted(d) IN
         /\ Like(d, e) /\ e.left = d.left - 1
         /\ e.drq = d.drq /\ e.xfer = d.xfer /\ e.in = d.in /\ e.err = d.err
         /\ e.irq = d.irq /\ e.off = d.off /\ e.pio = d.pio /\ e.next = d.next
         /\ e.count = d.count /\ e.ext = d.ext /\ e.multi = d.multi
         /\ d.multi /\ d.block > 0 => e.block = d.block - 1
<1> DEFINE left  == IF d.left > 0 THEN d.left - 1 ELSE 0
           block == IF d.multi /\ d.block > 0 THEN d.block - 1 ELSE d.block
           e     == [d EXCEPT !.left = left, !.block = block]
<1>1. left = d.left - 1 /\ left \in Nat /\ block \in Nat
      /\ (d.multi /\ d.block > 0 => block = d.block - 1)
  BY DEF IdeRegs
<1>2. Counted(d) = e
  BY DEF Counted
<1> HIDE DEF left, block
<1>3. Like(d, e) /\ e.left = left /\ e.block = block
  BY <1>1 DEF IdeRegs, Like, Stays
<1>4. /\ e.drq = d.drq /\ e.xfer = d.xfer /\ e.in = d.in /\ e.err = d.err
      /\ e.irq = d.irq /\ e.off = d.off /\ e.pio = d.pio /\ e.next = d.next
      /\ e.count = d.count /\ e.ext = d.ext /\ e.multi = d.multi
  BY DEF IdeRegs
<1> HIDE DEF e
<1> QED BY <1>1, <1>2, <1>3, <1>4

LEMMA CountDownFacts ==
  ASSUME NEW d \in IdeRegs
  PROVE  LET e == CountDown(d) IN
         /\ Like(d, e) /\ e.left = d.left
         /\ e.drq = d.drq /\ e.xfer = d.xfer /\ e.in = d.in /\ e.err = d.err
         /\ e.irq = d.irq /\ e.off = d.off /\ e.pio = d.pio /\ e.next = d.next
         /\ e.multi = d.multi /\ e.block = d.block
         /\ d.count = d.left + 1 => e.count = d.left
<1> DEFINE n == IF d.ext THEN d.left ELSE IF d.count = 0 THEN 0 ELSE d.count - 1
           e == [d EXCEPT !.count = n]
<1>1. n \in Nat /\ (d.count = d.left + 1 => n = d.left)
  BY DEF IdeRegs
<1>2. CountDown(d) = e
  BY DEF CountDown
<1> HIDE DEF n
<1>3. Like(d, e) /\ e.left = d.left /\ e.count = n
  BY <1>1 DEF IdeRegs, Like, Stays
<1>4. /\ e.drq = d.drq /\ e.xfer = d.xfer /\ e.in = d.in /\ e.err = d.err
      /\ e.irq = d.irq /\ e.off = d.off /\ e.pio = d.pio /\ e.next = d.next
      /\ e.multi = d.multi /\ e.block = d.block
  BY DEF IdeRegs
<1> HIDE DEF e
<1> QED BY <1>1, <1>2, <1>3, <1>4

LEMMA NextSectorFacts ==
  ASSUME NEW d \in IdeRegs
  PROVE  LET e == NextSector(d) IN
         /\ Like(d, e) /\ e.left = d.left
         /\ e.drq = d.drq /\ e.xfer = d.xfer /\ e.in = d.in /\ e.err = d.err
         /\ e.off = d.off /\ e.pio = d.pio /\ e.next = d.next
         /\ e.multi = d.multi /\ e.count = d.count
         /\ ~d.multi => e.irq
         /\ d.multi /\ d.block = 0 => e.irq /\ e.block = MultipleBlock(d, d.left)
         /\ d.multi /\ d.block # 0 => e.irq = d.irq /\ e.block = d.block
<1>1. CASE ~d.multi
  BY <1>1 DEF NextSector, IdeRegs, Like, Stays
<1>2. CASE d.multi /\ d.block = 0
  <2>1. MultipleBlock(d, d.left) \in Nat
    BY DEF MultipleBlock, IdeRegs
  <2> DEFINE b == MultipleBlock(d, d.left)
  <2> DEFINE e == [d EXCEPT !.block = b, !.irq = TRUE]
  <2>2. NextSector(d) = e
    BY <1>2 DEF NextSector
  <2> HIDE DEF b
  <2>3. e \in IdeRegs
    BY <2>1 DEF b, IdeRegs
  <2>4. /\ e.kind = d.kind /\ e.bsy = d.bsy /\ e.slave = d.slave /\ e.factor = d.factor
        /\ e.left = d.left /\ e.drq = d.drq /\ e.xfer = d.xfer /\ e.in = d.in
        /\ e.err = d.err /\ e.off = d.off /\ e.pio = d.pio /\ e.next = d.next
        /\ e.multi = d.multi /\ e.count = d.count /\ e.toBuffer = d.toBuffer
        /\ e.image = d.image /\ e.packet = d.packet /\ e.irq /\ e.block = b
    BY DEF IdeRegs
  <2> HIDE DEF e
  <2> QED BY <1>2, <2>2, <2>3, <2>4 DEF b, Like, Stays
<1>3. CASE d.multi /\ d.block # 0
  BY <1>3 DEF NextSector, Like, Stays
<1> QED BY <1>1, <1>2, <1>3

Next(j) == [j EXCEPT !.moved = @ + 1]

(* When moving a word interrupts.                                           *)
Due(e, j) == j.moved % j.unit = 0 \/ j.moved = j.asked \/ e.err

Rings(d, e, j) ==
  /\ Due(e, j) => e.irq
  /\ ~Due(e, j) => e.irq = d.irq

LEMMA NextJob ==
  ASSUME NEW j \in Jobs
  PROVE  LET m == Next(j) IN
         /\ m \in Jobs /\ m.moved = j.moved + 1 /\ m.cmd = j.cmd /\ m.lba = j.lba
         /\ m.asked = j.asked /\ m.unit = j.unit
BY DEF Next, Jobs

(* The device and the job with a sector transfer under way.                 *)
InTransfer(d, j) ==
  /\ Tidy(d) /\ j \in Jobs /\ Course(d, j)
  /\ d.drq /\ d.xfer

(* Within a sector no block ends.                                           *)
LEMMA WithinSector ==
  ASSUME NEW d \in IdeRegs, NEW j \in Jobs, NEW done \in Nat,
         Sectors(d, j, done), Block(d, j, done), d.off + 1 < SectorWords
  PROVE  (j.moved + 1) % j.unit # 0 /\ j.moved + 1 # j.asked
<1>1. /\ d.off \in 0 .. SectorWords - 1 /\ d.left \in Nat /\ d.factor \in Nat
      /\ SectorWords \in Nat \ {0}
  BY IdeAssumption DEF IdeRegs
<1>2. done * SectorWords \in Nat
      /\ done * SectorWords + SectorWords <= (done + d.left) * SectorWords
  BY <1>1, SmallerProduct DEF Sectors
<1>3. j.moved + 1 # j.asked
  BY <1>1, <1>2 DEF Sectors
<1>4. CASE ~d.multi
  <2>1. (j.moved + 1) % SectorWords = d.off + 1
    <3>1. d.off + 1 \in 0 .. SectorWords - 1
      BY <1>1
    <3>2. j.moved + 1 = done * SectorWords + (d.off + 1)
      BY <1>1, <1>2 DEF Sectors
    <3>3. (done * SectorWords + (d.off + 1)) % SectorWords = d.off + 1
      BY <1>1, <3>1, PlaceOfWord
    <3> QED BY <3>2, <3>3
  <2> QED BY <1>1, <1>3, <1>4, <2>1 DEF Block
<1>5. CASE d.multi
  <2>1. PICK b \in Nat, r \in 0 .. d.factor - 1 : done = b * d.factor + r
    BY <1>5 DEF Block
  <2> DEFINE unit == d.factor * SectorWords
             y    == r * SectorWords + (d.off + 1)
  <2>2. r \in Nat /\ r < d.factor
    BY <1>1, <2>1
  <2>3. /\ r * SectorWords \in Nat /\ unit \in Nat
        /\ r * SectorWords + SectorWords <= unit
    BY <1>1, <2>2, SmallerProduct
  <2>4. unit \in Nat \ {0} /\ y \in 0 .. unit - 1 /\ y # 0
    BY <1>1, <2>3
  <2>5. done * SectorWords = b * unit + r * SectorWords
    BY <1>1, <2>1, <2>2, BlockProduct
  <2>6. b * unit \in Nat
    BY <2>3, NextProduct
  <2>7. j.moved + 1 = b * unit + y
    BY <1>1, <2>3, <2>5, <2>6 DEF Sectors
  <2>8. j.unit = unit
    BY <1>5 DEF Block
  <2> HIDE DEF unit, y
  <2>9. (b * unit + y) % unit = y
    BY <2>4, PlaceOfWord
  <2>10. (j.moved + 1) % unit = y
    BY <2>7, <2>9
  <2> QED BY <1>3, <2>4, <2>8, <2>10
<1> QED BY <1>4, <1>5

(* A word that does not end a sector.                                       *)
LEMMA WordMoves ==
  ASSUME NEW d, NEW j, InTransfer(d, j), d.off + 1 < SectorWords
  PROVE  LET e == [d EXCEPT !.off = @ + 1]
             m == Next(j)
         IN /\ e # d /\ e.image = d.image
            /\ Tidy(e) /\ Course(e, m) /\ m \in Jobs /\ Rings(d, e, m)
            /\ m.moved # m.asked
<1> DEFINE e == [d EXCEPT !.off = d.off + 1]
           m == Next(j)
<1>1. d \in IdeRegs /\ j \in Jobs /\ ~d.err
  BY DEF InTransfer, Tidy
<1>2. d.off + 1 \in 0 .. SectorWords - 1 /\ d.off \in Nat
  BY <1>1, IdeAssumption DEF IdeRegs
<1>3. e \in IdeRegs /\ e.off = d.off + 1
  BY <1>1, <1>2 DEF IdeRegs
<1>4. /\ e.kind = d.kind /\ e.image = d.image /\ e.bsy = d.bsy /\ e.drq = d.drq
      /\ e.err = d.err /\ e.slave = d.slave /\ e.xfer = d.xfer /\ e.in = d.in
      /\ e.pio = d.pio /\ e.toBuffer = d.toBuffer /\ e.irq = d.irq
      /\ e.left = d.left /\ e.next = d.next /\ e.factor = d.factor
      /\ e.multi = d.multi /\ e.block = d.block /\ e.packet = d.packet
      /\ e.count = d.count
  BY <1>1 DEF IdeRegs
<1> HIDE DEF e
<1>5. /\ m \in Jobs /\ m.moved = j.moved + 1 /\ m.cmd = j.cmd /\ m.lba = j.lba
      /\ m.asked = j.asked /\ m.unit = j.unit
  BY <1>1, NextJob
<1> HIDE DEF m
<1>6. Tidy(e)
  BY <1>3, <1>4 DEF InTransfer, Tidy
<1>7. PICK done \in Nat : Sectors(d, j, done) /\ Place(d, j, done) /\ Block(d, j, done)
  BY DEF InTransfer, Course, Underway
<1>8. done * SectorWords \in Nat
  BY IdeAssumption, NextProduct
<1>9. Sectors(e, m, done)
  BY <1>2, <1>3, <1>4, <1>5, <1>7, <1>8 DEF Sectors
<1>10. Place(e, m, done) /\ Block(e, m, done)
  BY <1>4, <1>5, <1>7 DEF Place, Block
<1>11. Underway(e, m)
  BY <1>9, <1>10 DEF Underway
<1>12. Course(e, m)
  BY <1>4, <1>5, <1>11 DEF InTransfer, Course, Tally
<1>13. m.moved % m.unit # 0 /\ m.moved # m.asked
  BY <1>1, <1>5, <1>7, WithinSector
<1>14. Rings(d, e, m)
  BY <1>1, <1>4, <1>13 DEF Rings, Due
<1>15. e # d
  BY <1>2, <1>3
<1> QED BY <1>4, <1>5, <1>6, <1>12, <1>13, <1>14, <1>15 DEF e, m

LEMMA SectorDone ==
  ASSUME NEW d \in IdeRegs, NEW j \in Jobs, NEW done \in Nat,
         Sectors(d, j, done), d.off + 1 = SectorWords
  PROVE  /\ j.moved + 1 = (done + 1) * SectorWords
         /\ d.left = 1 => j.moved + 1 = j.asked
         /\ d.left # 1 => j.moved + 1 # j.asked /\ d.left >= 2
<1>1. d.off \in Nat /\ d.left \in Nat /\ SectorWords \in Nat \ {0}
  BY IdeAssumption DEF IdeRegs
<1>2. /\ done * SectorWords \in Nat
      /\ (done + 1) * SectorWords = done * SectorWords + SectorWords
  BY <1>1, NextProduct
<1>3. j.moved + 1 = (done + 1) * SectorWords
  BY <1>1, <1>2 DEF Sectors
<1>4. d.left # 1 =>
        (done + 1) * SectorWords + SectorWords <= (done + d.left) * SectorWords
  BY <1>1, SmallerProduct DEF Sectors
<1> QED BY <1>1, <1>2, <1>3, <1>4 DEF Sectors

(* Where sectors and blocks begin.                                          *)
LEMMA SectorStart ==
  ASSUME NEW n \in Nat, NEW s \in Nat \ {0}
  PROVE  ((n + 1) * s) % s = 0
BY SMT

LEMMA SectorCount ==
  ASSUME NEW n \in Nat, NEW s \in Nat \ {0}
  PROVE  ((n + 1) * s) \div s = n + 1
BY SMT

LEMMA BlockStart ==
  ASSUME NEW b \in Nat, NEW f \in Nat, f >= 1, NEW s \in Nat \ {0}
  PROVE  (((b + 1) * f + 0) * s) % (f * s) = 0
<1>1. f * s \in Nat \ {0}
  BY SMT
<1>2. ((b + 1) * f + 0) * s = (b + 1) * (f * s)
  BY SMT
<1> QED BY <1>1, <1>2, SectorStart

LEMMA NextInBlock ==
  ASSUME NEW b \in Nat, NEW f \in Nat, NEW r \in Nat, r + 1 < f, NEW s \in Nat \ {0}
  PROVE  ((b * f + (r + 1)) * s) % (f * s) # 0
<1> DEFINE u == f * s
           y == (r + 1) * s
<1>1. /\ u \in Nat /\ y \in Nat /\ y + s <= u
      /\ y = r * s + s /\ r * s \in Nat
  BY SmallerProduct, NextProduct
<1>2. u \in Nat \ {0} /\ y \in 0 .. u - 1 /\ y # 0
  BY <1>1
<1>3. (b * f + (r + 1)) * s = b * u + y
  BY BlockProduct
<1> HIDE DEF u, y
<1>4. (b * u + y) % u = y
  BY <1>2, PlaceOfWord
<1> QED BY <1>2, <1>3, <1>4 DEF u

(* A sector done with more to come: under MULTIPLE the block goes on, or is *)
(* over and the next one is announced.                                      *)
LEMMA BlockGoesOn ==
  ASSUME NEW d \in IdeRegs, NEW j \in Jobs, NEW done \in Nat,
         Sectors(d, j, done), Block(d, j, done), d.off + 1 = SectorWords,
         d.left >= 2,
         NEW c \in IdeRegs, c.left = d.left - 1, c.factor = d.factor, c.irq = d.irq,
         c.multi = d.multi, d.multi /\ d.block > 0 => c.block = d.block - 1,
         ~c.err
  PROVE  LET e == NextSector(c)
             m == Next(j)
         IN Block(e, m, done + 1) /\ Rings(d, e, m)
<1> DEFINE e == NextSector(c)
           m == Next(j)
<1>1. /\ Like(c, e) /\ e.left = c.left /\ e.multi = c.multi /\ e.err = c.err
      /\ ~c.multi => e.irq
      /\ c.multi /\ c.block = 0 => e.irq /\ e.block = MultipleBlock(c, c.left)
      /\ c.multi /\ c.block # 0 => e.irq = c.irq /\ e.block = c.block
  BY NextSectorFacts
<1> HIDE DEF e
<1>2. m.moved = j.moved + 1 /\ m.unit = j.unit /\ m.asked = j.asked
  BY NextJob
<1> HIDE DEF m
<1>3. /\ m.moved = (done + 1) * SectorWords /\ m.moved # m.asked
  BY <1>2, SectorDone
<1>4. d.left \in Nat /\ d.factor \in Nat /\ SectorWords \in Nat \ {0} /\ ~e.err
      /\ e.factor = d.factor /\ e.left = d.left - 1 /\ d.block \in Nat
  BY <1>1, IdeAssumption DEF IdeRegs, Like, Stays
<1>5. CASE ~d.multi
  <2>1. m.unit = SectorWords /\ ~e.multi /\ e.irq
    BY <1>1, <1>2, <1>5 DEF Block
  <2>2. ((done + 1) * SectorWords) % SectorWords = 0
    BY <1>4, SectorStart
  <2>3. m.moved % m.unit = 0
    BY <1>3, <2>1, <2>2
  <2> QED BY <2>1, <2>3 DEF Block, Rings, Due, e, m
<1>6. CASE d.multi
  <2>1. PICK b \in Nat, r \in 0 .. d.factor - 1 :
          /\ done = b * d.factor + r
          /\ d.factor - r < d.left => d.block = d.factor - r
          /\ ~(d.factor - r < d.left) => d.block = d.left
    BY <1>6 DEF Block
  <2>2. d.factor >= 1 /\ m.unit = d.factor * SectorWords /\ e.multi
    BY <1>1, <1>2, <1>6 DEF Block
  <2>3. r \in Nat /\ r < d.factor /\ d.block >= 1 /\ c.block = d.block - 1
    BY <1>4, <1>6, <2>1, <2>2
  <2>4. CASE r + 1 < d.factor
    <3>1. c.block # 0 /\ e.irq = d.irq /\ e.block = c.block
      BY <1>1, <1>4, <1>6, <2>1, <2>3, <2>4
    <3>2. done + 1 = b * d.factor + (r + 1) /\ r + 1 \in 0 .. d.factor - 1
      <4>1. b * d.factor \in Nat
        BY <1>4, NextProduct
      <4> QED BY <1>4, <2>1, <2>3, <2>4, <4>1
    <3>3. /\ d.factor - (r + 1) < e.left => e.block = d.factor - (r + 1)
          /\ ~(d.factor - (r + 1) < e.left) => e.block = e.left
      BY <1>4, <2>1, <2>3, <2>4, <3>1
    <3>4. Block(e, m, done + 1)
      BY <1>4, <2>2, <3>2, <3>3 DEF Block
    <3>5. r + 1 \in Nat /\ r + 1 # 0
      BY <2>3
    <3>6. m.moved % m.unit # 0
      <4>1. ((b * d.factor + (r + 1)) * SectorWords) % (d.factor * SectorWords) # 0
        BY <1>4, <2>3, <2>4, NextInBlock
      <4>2. m.moved = (b * d.factor + (r + 1)) * SectorWords
        BY <1>3, <3>2
      <4> QED BY <2>2, <4>1, <4>2
    <3>7. ~Due(e, m)
      BY <1>3, <1>4, <3>6 DEF Due
    <3> QED BY <3>1, <3>4, <3>7 DEF Rings, e, m
  <2>5. CASE r + 1 = d.factor
    <3>1. c.block = 0 /\ e.irq /\ e.block = MultipleBlock(c, c.left)
      BY <1>1, <1>4, <1>6, <2>1, <2>3, <2>5
    <3>2. done + 1 = (b + 1) * d.factor + 0 /\ 0 \in 0 .. d.factor - 1 /\ b + 1 \in Nat
      <4>1. b * d.factor \in Nat /\ (b + 1) * d.factor = b * d.factor + d.factor
        BY <1>4, NextProduct
      <4> QED BY <1>4, <2>1, <2>3, <2>5, <4>1
    <3>3. /\ d.factor - 0 < e.left => e.block = d.factor - 0
          /\ ~(d.factor - 0 < e.left) => e.block = e.left
      BY <1>1, <1>4, <3>1 DEF MultipleBlock
    <3>4. Block(e, m, done + 1)
      BY <1>4, <2>2, <3>2, <3>3 DEF Block
    <3>5. m.moved % m.unit = 0
      <4>1. (((b + 1) * d.factor + 0) * SectorWords) % (d.factor * SectorWords) = 0
        BY <1>4, <2>2, BlockStart
      <4>2. m.moved = ((b + 1) * d.factor + 0) * SectorWords
        BY <1>3, <3>2
      <4> QED BY <2>2, <4>1, <4>2
    <3> QED BY <3>1, <3>4, <3>5 DEF Rings, Due, e, m
  <2> QED BY <2>3, <2>4, <2>5, <1>4
<1> QED BY <1>5, <1>6

(* The sector the device goes on with.                                      *)
LEMMA NextLoaded ==
  ASSUME NEW d \in IdeRegs, OnDisk(d, d.next)
  PROVE  LET x == [LoadSector(d, d.next) EXCEPT !.next = @ + 1, !.off = 0] IN
         /\ Like(d, x) /\ x.left = d.left /\ x.next = d.next + 1 /\ x.off = 0
         /\ x.pio = d.image[d.next]
         /\ x.drq = d.drq /\ x.xfer = d.xfer /\ x.in = d.in /\ x.err = d.err
         /\ x.irq = d.irq /\ x.count = d.count /\ x.multi = d.multi
         /\ x.block = d.block
<1> DEFINE y == LoadSector(d, d.next)
           x == [y EXCEPT !.next = y.next + 1, !.off = 0]
<1>1. d.next \in Lbas
  BY DEF OnDisk
<1>2. /\ y \in IdeRegs /\ y.pio = d.image[d.next]
      /\ y = [d EXCEPT !.pio = d.image[d.next], !.buffer = d.image[d.next]]
  BY <1>1, Loads
<1>3. /\ Like(d, y) /\ y.left = d.left /\ y.next = d.next
      /\ y.drq = d.drq /\ y.xfer = d.xfer /\ y.in = d.in /\ y.err = d.err
      /\ y.irq = d.irq /\ y.count = d.count /\ y.multi = d.multi
      /\ y.block = d.block
  BY <1>2 DEF Like, Stays, IdeRegs
<1> HIDE DEF y
<1>4. x \in IdeRegs /\ x.next = d.next + 1 /\ x.off = 0 /\ x.pio = d.image[d.next]
  <2>1. y \in IdeRegs /\ y.next + 1 \in Nat /\ y.next = d.next
        /\ y.pio = d.image[d.next]
    BY <1>2, <1>3 DEF IdeRegs
  <2> QED BY <2>1, FirstValues DEF IdeRegs
<1>5. /\ Like(y, x) /\ x.left = y.left
      /\ x.drq = y.drq /\ x.xfer = y.xfer /\ x.in = y.in /\ x.err = y.err
      /\ x.irq = y.irq /\ x.count = y.count /\ x.multi = y.multi
      /\ x.block = y.block
  BY <1>2, <1>4, ZenonT(60) DEF Like, Stays, IdeRegs
<1> HIDE DEF x
<1>6. Like(d, x)
  BY <1>3, <1>5 DEF Like, Stays
<1> QED BY <1>3, <1>4, <1>5, <1>6 DEF x, y

LEMMA LastWordRead ==
  ASSUME NEW d, NEW j, InTransfer(d, j), ~d.in, d.off + 1 = SectorWords
  PROVE  LET e == FinishSectorPioOut(d)
             m == Next(j)
         IN /\ e # d /\ (d.kind = "ata" => e.image = d.image)
            /\ Tidy(e) /\ Course(e, m) /\ Rings(d, e, m)
<1> DEFINE e == FinishSectorPioOut(d)
           m == Next(j)
           c == Counted(d)
<1>1. /\ d \in IdeRegs /\ j \in Jobs /\ ~d.err /\ ~d.bsy /\ d.drq /\ d.kind # "none"
      /\ d.packet.phase = "idle"
      /\ d.kind = "ata" => d.image \in [Lbas -> Content]
      /\ d.slave => HdHas("select")
  BY DEF InTransfer, Tidy, Course
<1>2. PICK done \in Nat : Sectors(d, j, done) /\ Place(d, j, done) /\ Block(d, j, done)
  BY DEF InTransfer, Course, Underway
<1>3. d.left >= 1 /\ d.left \in Nat /\ d.next \in Nat
  BY <1>1, <1>2 DEF Sectors, IdeRegs
<1>4. /\ Like(d, c) /\ c.left = d.left - 1
      /\ c.drq = d.drq /\ c.xfer = d.xfer /\ c.in = d.in /\ c.err = d.err
      /\ c.irq = d.irq /\ c.off = d.off /\ c.pio = d.pio /\ c.next = d.next
      /\ c.count = d.count /\ c.ext = d.ext /\ c.multi = d.multi
      /\ d.multi /\ d.block > 0 => c.block = d.block - 1
  BY <1>1, <1>3, CountedFacts
<1>5. e = CASE c.left = 0 -> TransferOver(c)
            [] c.left > 0 /\ ~OnDisk(c, c.next) -> Abort(c)
            [] OTHER -> NextSector(CountDown([LoadSector(c, c.next) EXCEPT
                                                !.next = @ + 1, !.off = 0]))
  BY DEF FinishSectorPioOut
<1>6. /\ m \in Jobs /\ m.moved = j.moved + 1 /\ m.cmd = j.cmd /\ m.lba = j.lba
      /\ m.asked = j.asked /\ m.unit = j.unit
  BY <1>1, NextJob
<1>7. ~d.toBuffer
  <2> SUFFICES ASSUME d.toBuffer PROVE FALSE
    OBVIOUS
  <2>1. j.cmd = "write_buffer"
    BY <1>1 DEF InTransfer, Course
  <2> QED BY <1>2, <2>1 DEF Place
<1>8. ~c.bsy /\ ~c.toBuffer /\ c.packet.phase = "idle" /\ c \in IdeRegs
      /\ c.left \in Nat /\ c.next \in Nat
  BY <1>1, <1>3, <1>4, <1>7 DEF Like, Stays
<1> HIDE DEF c, m
<1>9. CASE d.left = 1
  <2>1. e = TransferOver(c)
    BY <1>3, <1>4, <1>5, <1>9
  <2>2. Ended(c, e) /\ e.irq
    BY <1>8, <2>1, TransferOverEnds
  <2> HIDE DEF e
  <2>3. m.moved = m.asked
    BY <1>1, <1>2, <1>6, <1>9, SectorDone
  <2>4. e # d /\ (d.kind = "ata" => e.image = d.image)
    BY <1>1, <1>4, <2>2 DEF Ended, Like, Stays
  <2>5. Rings(d, e, m)
    BY <2>2, <2>3 DEF Rings, Due
  <2>6. Tidy(e) /\ Course(e, m)
    BY <1>1, <1>4, <1>8, <2>2, OutcomeSound DEF Outcome, Like, Stays
  <2> QED BY <2>4, <2>5, <2>6 DEF e, m
<1>10. CASE d.left # 1
  <2>1. d.left >= 2 /\ c.left >= 1 /\ c.left # 0
    BY <1>3, <1>4, <1>10
  <2>2. j.cmd \in DiskReads
    BY <1>2, <1>10 DEF Place
  <2>3. d.kind = "ata" /\ j.lba + done \in Lbas /\ d.next = j.lba + done + 1
    BY <1>2, <2>2 DEF Place
  <2>4. CASE ~OnDisk(c, c.next)
    <3>1. e = Abort(c)
      BY <1>5, <1>8, <2>1, <2>4
    <3>2. Ended(c, e) /\ e.irq /\ e.err
      BY <1>8, <3>1, AbortEnds
    <3> HIDE DEF e
    <3>3. e # d /\ e.image = d.image
      BY <1>1, <1>4, <2>3, <3>2 DEF Ended, Like, Stays
    <3>4. Rings(d, e, m)
      BY <3>2 DEF Rings, Due
    <3>5. Tidy(e) /\ Course(e, m)
      BY <1>1, <1>4, <1>8, <3>2, OutcomeSound DEF Outcome, Like, Stays
    <3> QED BY <3>3, <3>4, <3>5 DEF e, m
  <2>5. CASE OnDisk(c, c.next)
    <3> DEFINE x == [LoadSector(c, c.next) EXCEPT !.next = @ + 1, !.off = 0]
               y == CountDown(x)
    <3>1. e = NextSector(y)
      BY <1>5, <1>8, <2>1, <2>5
    <3>2. /\ Like(c, x) /\ x.left = c.left /\ x.next = c.next + 1 /\ x.off = 0
          /\ x.pio = c.image[c.next]
          /\ x.drq = c.drq /\ x.xfer = c.xfer /\ x.in = c.in /\ x.err = c.err
          /\ x.irq = c.irq /\ x.count = c.count /\ x.multi = c.multi
          /\ x.block = c.block
      BY <1>8, <2>5, NextLoaded
    <3> HIDE DEF x
    <3>3. /\ Like(x, y) /\ y.left = x.left
          /\ y.drq = x.drq /\ y.xfer = x.xfer /\ y.in = x.in /\ y.err = x.err
          /\ y.irq = x.irq /\ y.off = x.off /\ y.pio = x.pio /\ y.next = x.next
          /\ y.multi = x.multi /\ y.block = x.block
          /\ x.count = x.left + 1 => y.count = x.left
      BY <3>2, CountDownFacts DEF Like
    <3> HIDE DEF y
    <3>4. y \in IdeRegs /\ Like(c, y)
      BY <3>2, <3>3 DEF Like, Stays
    <3>5. Block(e, m, done + 1) /\ Rings(d, e, m)
      <4>1. /\ y.left = d.left - 1 /\ y.factor = d.factor /\ y.irq = d.irq
            /\ y.multi = d.multi /\ (d.multi /\ d.block > 0 => y.block = d.block - 1)
            /\ ~y.err
        BY <1>1, <1>4, <3>2, <3>3, <3>4 DEF Like, Stays
      <4> QED BY <1>1, <1>2, <2>1, <3>1, <3>4, <4>1, BlockGoesOn DEF m
    <3>6. /\ Like(y, e) /\ e.left = y.left
          /\ e.drq = y.drq /\ e.xfer = y.xfer /\ e.in = y.in /\ e.err = y.err
          /\ e.off = y.off /\ e.pio = y.pio /\ e.next = y.next
          /\ e.count = y.count
      BY <3>1, <3>4, NextSectorFacts
    <3> HIDE DEF e
    <3>7. /\ e \in IdeRegs /\ e.kind = d.kind /\ e.slave = d.slave /\ e.bsy = d.bsy
          /\ e.image = d.image /\ e.toBuffer = d.toBuffer /\ e.packet = d.packet
          /\ e.left = d.left - 1 /\ e.next = d.next + 1 /\ e.off = 0
          /\ e.pio = d.image[d.next] /\ e.drq /\ e.xfer /\ ~e.in /\ ~e.err
      BY <1>1, <1>4, <3>2, <3>3, <3>6 DEF Like, Stays, InTransfer
    <3>8. d.next \in Lbas
      BY <1>4, <2>5 DEF OnDisk
    <3>9. /\ j.lba \in Nat /\ j.lba + (done + 1) = d.next
          /\ e.next = j.lba + (done + 1) + 1
      BY <1>1, <2>3, <3>7 DEF Jobs
    <3>10. j.cmd \notin DiskWrites /\ j.cmd # "write_buffer"
      BY <2>2 DEF DiskReads, DiskWrites
    <3>11. Place(e, m, done + 1)
      BY <1>6, <2>2, <2>3, <3>7, <3>8, <3>9, <3>10 DEF Place
    <3>12. Sectors(e, m, done + 1)
      <4>1. (done + 1) + e.left = done + d.left
        BY <1>3, <3>7
      <4>2. m.moved = (done + 1) * SectorWords
        BY <1>1, <1>2, <1>6, SectorDone
      <4>3. (done + 1) * SectorWords \in Nat
        BY IdeAssumption, NextProduct
      <4>4. e.left >= 1
        BY <1>3, <2>1, <3>7
      <4> QED BY <1>2, <1>6, <3>7, <4>1, <4>2, <4>3, <4>4 DEF Sectors
    <3>13. Underway(e, m)
      BY <3>5, <3>11, <3>12 DEF Underway
    <3>14. Tally(e, m)
      <4>1. Tally(d, j)
        BY DEF InTransfer, Course
      <4>2. d.count = d.left => e.count = e.left
        BY <1>3, <1>4, <3>2, <3>3, <3>6, <3>7
      <4> QED BY <1>6, <4>1, <4>2 DEF Tally
    <3>15. Started(d, e, m)
      BY <1>1, <1>7, <2>3, <3>7, <3>13, <3>14 DEF Started
    <3>16. Tidy(e) /\ Course(e, m)
      BY <1>1, <3>15, OutcomeSound DEF Outcome
    <3>17. e # d
      BY <1>3, <3>7
    <3> QED BY <3>5, <3>7, <3>16, <3>17 DEF e, m
  <2> QED BY <2>4, <2>5
<1> QED BY <1>9, <1>10

(* The disk after a sector has come whole.                                  *)
LEMMA Landed ==
  ASSUME NEW image \in [Lbas -> Content], NEW lba \in Nat, NEW done \in Nat,
         lba + done \in Lbas, \A k \in 0 .. done - 1 : image[lba + k] = HostSector(k)
  PROVE  LET f == [image EXCEPT ![lba + done] = HostSector(done)] IN
         /\ HostSector(done) \in Content /\ f \in [Lbas -> Content]
         /\ \A k \in 0 .. done : f[lba + k] = HostSector(k)
<1> DEFINE f == [image EXCEPT ![lba + done] = HostSector(done)]
<1>1. HostSector(done) \in Content
  BY DEF HostSector, Content
<1>2. f \in [Lbas -> Content]
  BY <1>1
<1>3. ASSUME NEW k \in 0 .. done PROVE f[lba + k] = HostSector(k)
  <2>1. lba + k \in Lbas
    BY IdeAssumption DEF Lbas
  <2>2. CASE k = done
    BY <2>1, <2>2
  <2>3. CASE k # done
    <3>1. k \in 0 .. done - 1 /\ lba + k # lba + done
      BY <2>3
    <3> QED BY <2>1, <3>1
  <2> QED BY <2>2, <2>3
<1> QED BY <1>1, <1>2, <1>3

LEMMA HasItsDisk ==
  ASSUME NEW d \in IdeRegs, d.image \in [Lbas -> Content], NEW lba
  PROVE  OnDisk(d, lba) <=> lba \in Lbas
<1>1. DOMAIN NoMedium = {} /\ DOMAIN d.image = Lbas /\ 0 \in Lbas
  BY IdeAssumption DEF NoMedium, Lbas
<1>2. d.image # NoMedium
  BY <1>1
<1> QED BY <1>2 DEF OnDisk, HasMedium

(* A sector for the buffer ends the transfer.                               *)
LEMMA BufferFilled ==
  ASSUME NEW d, NEW j, InTransfer(d, j), d.toBuffer, d.off + 1 = SectorWords,
         NEW content \in Content
  PROVE  LET e == FinishSectorPioIn([d EXCEPT !.pio = content])
             m == Next(j)
         IN /\ e # d /\ e.image = d.image
            /\ Tidy(e) /\ Course(e, m) /\ Rings(d, e, m)
<1> DEFINE w == [d EXCEPT !.pio = content]
           x == [w EXCEPT !.buffer = w.pio, !.toBuffer = FALSE, !.left = 0]
           e == TransferOver(x)
           m == Next(j)
<1>1. /\ d \in IdeRegs /\ j \in Jobs /\ ~d.err /\ ~d.bsy /\ d.drq /\ d.kind # "none"
      /\ d.packet.phase = "idle"
      /\ d.kind = "ata" => d.image \in [Lbas -> Content]
      /\ d.slave => HdHas("select")
  BY DEF InTransfer, Tidy, Course
<1>2. d.kind = "ata" /\ j.cmd = "write_buffer"
  BY <1>1 DEF InTransfer, Course
<1>3. PICK done \in Nat : Sectors(d, j, done) /\ Place(d, j, done)
  BY DEF InTransfer, Course, Underway
<1>4. d.left = 1
  BY <1>2, <1>3 DEF Place, DiskReads, DiskWrites
<1>5. /\ w \in IdeRegs /\ w.kind = d.kind /\ w.image = d.image /\ w.slave = d.slave
      /\ w.bsy = d.bsy /\ w.packet = d.packet /\ w.toBuffer
  BY <1>1 DEF IdeRegs
<1> HIDE DEF w
<1>6. FinishSectorPioIn(w) = e
  BY <1>5 DEF FinishSectorPioIn
<1>7. /\ x \in IdeRegs /\ x.kind = d.kind /\ x.image = d.image /\ x.slave = d.slave
      /\ x.bsy = d.bsy /\ x.packet = d.packet /\ ~x.toBuffer
  <2>1. x \in IdeRegs
    <3>1. w \in IdeRegs /\ w.pio \in Content
      BY <1>5 DEF IdeRegs
    <3> QED BY ZenonT(60), <3>1 DEF IdeRegs
  <2>2. /\ x.kind = w.kind /\ x.image = w.image /\ x.slave = w.slave
        /\ x.bsy = w.bsy /\ x.packet = w.packet /\ ~x.toBuffer
    BY <1>5 DEF IdeRegs
  <2> QED BY <1>5, <2>1, <2>2
<1> HIDE DEF x
<1>8. Ended(x, e) /\ e.irq
  BY <1>1, <1>7, TransferOverEnds
<1> HIDE DEF e
<1>9. m.moved = j.moved + 1 /\ m.asked = j.asked
  BY <1>1, NextJob
<1>10. m.moved = m.asked
  BY <1>1, <1>3, <1>4, <1>9, SectorDone
<1> HIDE DEF m
<1>11. Rings(d, e, m)
  BY <1>8, <1>10 DEF Rings, Due
<1>12. Tidy(e) /\ Course(e, m)
  BY <1>1, <1>7, <1>8, OutcomeSound DEF Outcome
<1>13. e # d /\ e.image = d.image
  BY <1>1, <1>2, <1>7, <1>8 DEF Ended
<1> QED BY <1>6, <1>11, <1>12, <1>13 DEF e, m, w

(* A sector for the disk lands there.                                       *)
Written(d, done) == FinishSectorPioIn([d EXCEPT !.pio = HostSector(done)])

Landing(d, e, j, m, done) ==
  /\ e.image = [d.image EXCEPT ![j.lba + done] = HostSector(done)]
  /\ m.moved = j.asked =>
       \A k \in 0 .. (j.asked \div SectorWords) - 1 :
         e.image[j.lba + k] = HostSector(k)

LEMMA SectorWritten ==
  ASSUME NEW d, NEW j, InTransfer(d, j), d.in, ~d.toBuffer, d.off + 1 = SectorWords,
         NEW k, k = j.moved \div SectorWords
  PROVE  LET e == Written(d, k)
             m == Next(j)
         IN /\ e # d /\ j.cmd \in DiskWrites
            /\ Tidy(e) /\ Course(e, m) /\ Rings(d, e, m)
            /\ Landing(d, e, j, m, k)
<1>1. /\ d \in IdeRegs /\ j \in Jobs /\ ~d.err /\ ~d.bsy /\ d.drq /\ d.kind # "none"
      /\ d.packet.phase = "idle"
      /\ d.kind = "ata" => d.image \in [Lbas -> Content]
      /\ d.slave => HdHas("select")
  BY DEF InTransfer, Tidy, Course
<1>2. PICK done \in Nat : Sectors(d, j, done) /\ Place(d, j, done) /\ Block(d, j, done)
  BY DEF InTransfer, Course, Underway
<1> DEFINE f == [d.image EXCEPT ![j.lba + done] = HostSector(done)]
           w == [d EXCEPT !.pio = HostSector(done)]
           s == StoreSector(w, w.next)
           c == Counted(s)
           e == Written(d, done)
           m == Next(j)
<1>3. j.cmd \in DiskWrites
  BY <1>2 DEF Place
<1>4. /\ d.kind = "ata" /\ d.image \in [Lbas -> Content]
      /\ d.next = j.lba + done /\ d.next \in Lbas /\ j.lba \in Nat
      /\ \A i \in 0 .. done - 1 : d.image[j.lba + i] = HostSector(i)
  BY <1>1, <1>2, <1>3 DEF Place, Jobs
<1>5. /\ HostSector(done) \in Content /\ f \in [Lbas -> Content]
      /\ \A i \in 0 .. done : f[j.lba + i] = HostSector(i)
  BY <1>4, Landed
<1>6. /\ k = done
      /\ j.moved + 1 = (done + 1) * SectorWords
      /\ j.moved + 1 = j.asked <=> d.left = 1
      /\ d.left \in Nat /\ d.left >= 1
  <2>1. d.off \in 0 .. SectorWords - 1 /\ SectorWords \in Nat \ {0}
        /\ j.moved = done * SectorWords + d.off
    BY <1>1, <1>2, IdeAssumption DEF IdeRegs, Sectors
  <2>2. (done * SectorWords + d.off) \div SectorWords = done
    BY <2>1, PlaceOfWord
  <2>3. d.left \in Nat /\ d.left >= 1
    BY <1>1, <1>2 DEF IdeRegs, Sectors
  <2>4. /\ j.moved + 1 = (done + 1) * SectorWords
        /\ d.left = 1 => j.moved + 1 = j.asked
        /\ d.left # 1 => j.moved + 1 # j.asked /\ d.left >= 2
    BY <1>1, <1>2, SectorDone
  <2> QED BY <2>1, <2>2, <2>3, <2>4
<1>7. /\ w \in IdeRegs /\ Stays(d, w) /\ w.image = d.image
      /\ w.toBuffer = d.toBuffer /\ w.packet = d.packet /\ w.pio = HostSector(done)
      /\ w.drq = d.drq /\ w.xfer = d.xfer /\ w.in = d.in /\ w.err = d.err
      /\ w.irq = d.irq /\ w.off = d.off /\ w.next = d.next /\ w.left = d.left
      /\ w.count = d.count /\ w.multi = d.multi /\ w.block = d.block
  BY <1>1, <1>5 DEF IdeRegs, Stays
<1> HIDE DEF w
<1>8. \A lba : OnDisk(w, lba) <=> lba \in Lbas
  BY <1>4, <1>7, HasItsDisk
<1>9. /\ s \in IdeRegs /\ Stays(d, s) /\ s.image = f
      /\ s.toBuffer = d.toBuffer /\ s.packet = d.packet
      /\ s.drq = d.drq /\ s.xfer = d.xfer /\ s.in = d.in /\ s.err = d.err
      /\ s.irq = d.irq /\ s.off = d.off /\ s.next = d.next /\ s.left = d.left
      /\ s.count = d.count /\ s.multi = d.multi /\ s.block = d.block
  <2>1. w.next \in Lbas /\ OnDisk(w, w.next)
    BY <1>4, <1>7, <1>8
  <2>2. /\ s \in IdeRegs /\ s.image = [w.image EXCEPT ![w.next] = w.pio]
        /\ s = [w EXCEPT !.image = [w.image EXCEPT ![w.next] = w.pio], !.buffer = w.pio]
    BY <1>7, <2>1, Stores
  <2>3. s.image = f
    BY <1>4, <1>7, <2>2
  <2> HIDE DEF s, f
  <2>4. /\ s.kind = w.kind /\ s.bsy = w.bsy /\ s.slave = w.slave /\ s.factor = w.factor
        /\ s.toBuffer = w.toBuffer /\ s.packet = w.packet
        /\ s.drq = w.drq /\ s.xfer = w.xfer /\ s.in = w.in /\ s.err = w.err
        /\ s.irq = w.irq /\ s.off = w.off /\ s.next = w.next /\ s.left = w.left
        /\ s.count = w.count /\ s.multi = w.multi /\ s.block = w.block
    BY ZenonT(60), <1>7, <2>2 DEF IdeRegs
  <2> QED BY <1>7, <2>2, <2>3, <2>4 DEF Stays
<1> HIDE DEF s
<1>10. /\ Like(s, c) /\ c.left = d.left - 1
       /\ c.drq = d.drq /\ c.xfer = d.xfer /\ c.in = d.in /\ c.err = d.err
       /\ c.irq = d.irq /\ c.off = d.off /\ c.next = d.next
       /\ c.count = d.count /\ c.multi = d.multi
       /\ d.multi /\ d.block > 0 => c.block = d.block - 1
  BY <1>6, <1>9, CountedFacts, ZenonT(60)
<1> HIDE DEF c
<1>11. /\ c \in IdeRegs /\ c.kind = d.kind /\ c.slave = d.slave /\ c.factor = d.factor
       /\ c.image = f /\ ~c.bsy /\ ~c.toBuffer /\ c.packet.phase = "idle"
       /\ c.packet = d.packet /\ ~c.err
  BY <1>1, <1>9, <1>10 DEF Like, Stays
<1>12. c.left \in Nat /\ c.next \in Nat /\ d.next \in Nat
  BY <1>11, <1>1 DEF IdeRegs
<1>13. e = CASE w.toBuffer ->
                  TransferOver([w EXCEPT !.buffer = w.pio, !.toBuffer = FALSE, !.left = 0])
             [] ~w.toBuffer /\ ~OnDisk(w, w.next) -> Abort(w)
             [] ~w.toBuffer /\ OnDisk(w, w.next) /\ c.left = 0 -> TransferOver(c)
             [] ~w.toBuffer /\ OnDisk(w, w.next) /\ c.left > 0
                  /\ ~OnDisk(w, w.next + 1) -> Abort([c EXCEPT !.next = @ + 1])
             [] OTHER -> NextSector(CountDown([c EXCEPT !.next = @ + 1, !.off = 0,
                                                        !.pio = Blank]))
  BY DEF Written, FinishSectorPioIn, c, s, w
<1>14. ~w.toBuffer /\ OnDisk(w, w.next)
  BY <1>4, <1>7, <1>8
<1>15. /\ m \in Jobs /\ m.moved = j.moved + 1 /\ m.cmd = j.cmd /\ m.lba = j.lba
       /\ m.asked = j.asked /\ m.unit = j.unit
  BY <1>1, NextJob
<1> HIDE DEF m, f
(* Whatever follows, the sector has landed.                                 *)
<1>16. ASSUME e.image = f, d.left = 1 \/ m.moved # j.asked
       PROVE  Landing(d, e, j, m, done)
  <2> SUFFICES ASSUME m.moved = j.asked
               PROVE  \A i \in 0 .. (j.asked \div SectorWords) - 1 :
                        e.image[j.lba + i] = HostSector(i)
    BY <1>16 DEF Landing, f
  <2>1. j.asked = (done + 1) * SectorWords
    BY <1>6, <1>15
  <2>2. j.asked \div SectorWords = done + 1
    BY <2>1, IdeAssumption, SectorCount
  <2> QED BY <1>5, <1>16, <2>2
<1>17. CASE d.left = 1
  <2>1. e = TransferOver(c)
    BY <1>10, <1>13, <1>14, <1>17
  <2>2. Ended(c, e) /\ e.irq
    BY <1>11, <2>1, TransferOverEnds
  <2> HIDE DEF e
  <2>3. m.moved = m.asked
    BY <1>6, <1>15, <1>17
  <2>4. e # d /\ e.image = f
    BY <1>1, <1>4, <1>11, <2>2 DEF Ended
  <2>5. Rings(d, e, m)
    BY <2>2, <2>3 DEF Rings, Due
  <2>6. Tidy(e) /\ Course(e, m)
    BY <1>1, <1>5, <1>11, <2>2, OutcomeSound DEF Outcome
  <2> QED BY <1>3, <1>6, <1>16, <1>17, <2>4, <2>5, <2>6 DEF e, m, w
<1>18. CASE d.left # 1
  <2>1. d.left >= 2 /\ c.left # 0 /\ c.left > 0 /\ m.moved # j.asked
    BY <1>6, <1>10, <1>15, <1>18
  <2>2. CASE ~OnDisk(w, w.next + 1)
    <3> DEFINE x == [c EXCEPT !.next = c.next + 1]
    <3>1. e = Abort(x)
      BY <1>13, <1>14, <2>1, <2>2
    <3>2. /\ x \in IdeRegs /\ ~x.bsy /\ x.kind = c.kind /\ x.image = c.image
          /\ x.slave = c.slave
      BY <1>11, <1>12 DEF IdeRegs
    <3> HIDE DEF x
    <3>3. Ended(x, e) /\ e.irq /\ e.err
      BY <3>1, <3>2, AbortEnds
    <3> HIDE DEF e
    <3>4. e # d /\ e.image = f
      BY <1>1, <1>4, <1>11, <3>2, <3>3 DEF Ended
    <3>5. Rings(d, e, m)
      BY <3>3 DEF Rings, Due
    <3>6. Tidy(e) /\ Course(e, m)
      BY <1>1, <1>5, <1>11, <3>2, <3>3, OutcomeSound DEF Outcome
    <3> QED BY <1>3, <1>6, <1>16, <2>1, <3>4, <3>5, <3>6 DEF e, m, w
  <2>3. CASE OnDisk(w, w.next + 1)
    <3> DEFINE x == [c EXCEPT !.next = c.next + 1, !.off = 0, !.pio = Blank]
               y == CountDown(x)
    <3>1. e = NextSector(y)
      BY <1>13, <1>14, <2>1, <2>3
    <3>2. /\ x \in IdeRegs /\ x.next = d.next + 1 /\ x.off = 0
      <4>1. c.next + 1 \in Nat /\ c.next + 1 = d.next + 1
        BY <1>10, <1>12
      <4> QED BY <1>11, <4>1, FirstValues, ZenonT(60) DEF IdeRegs
    <3>3. /\ Stays(c, x) /\ x.image = c.image /\ x.toBuffer = c.toBuffer
          /\ x.packet = c.packet /\ x.left = c.left
          /\ x.drq = c.drq /\ x.xfer = c.xfer /\ x.in = c.in /\ x.err = c.err
          /\ x.irq = c.irq /\ x.count = c.count /\ x.multi = c.multi
          /\ x.block = c.block
      BY <1>11 DEF IdeRegs, Stays
    <3> HIDE DEF x
    <3>4. /\ Like(x, y) /\ y.left = x.left
          /\ y.drq = x.drq /\ y.xfer = x.xfer /\ y.in = x.in /\ y.err = x.err
          /\ y.irq = x.irq /\ y.off = x.off /\ y.next = x.next
          /\ y.multi = x.multi /\ y.block = x.block
          /\ x.count = x.left + 1 => y.count = x.left
      BY <3>2, CountDownFacts
    <3> HIDE DEF y
    <3>5. Block(e, m, done + 1) /\ Rings(d, e, m)
      <4>1. /\ y.left = d.left - 1 /\ y.factor = d.factor /\ y.irq = d.irq
            /\ y.multi = d.multi /\ (d.multi /\ d.block > 0 => y.block = d.block - 1)
            /\ ~y.err /\ y \in IdeRegs
        BY <1>10, <1>11, <3>3, <3>4 DEF Like, Stays
      <4> QED BY <1>1, <1>2, <2>1, <3>1, <4>1, BlockGoesOn DEF m
    <3>6. /\ Like(y, e) /\ e.left = y.left
          /\ e.drq = y.drq /\ e.xfer = y.xfer /\ e.in = y.in /\ e.err = y.err
          /\ e.off = y.off /\ e.next = y.next
          /\ e.count = y.count
      BY <3>1, <3>4, NextSectorFacts DEF Like
    <3> HIDE DEF e
    <3>7. /\ e \in IdeRegs /\ e.kind = d.kind /\ e.slave = d.slave /\ ~e.bsy
          /\ e.image = f /\ ~e.toBuffer /\ e.packet.phase = "idle"
          /\ e.left = d.left - 1 /\ e.next = d.next + 1 /\ e.off = 0
          /\ e.drq /\ e.xfer /\ e.in /\ ~e.err
      BY <1>1, <1>10, <1>11, <3>2, <3>3, <3>4, <3>6 DEF Like, Stays, InTransfer
    <3>8. e.next = j.lba + (done + 1) /\ e.next \in Lbas
      BY <1>4, <1>7, <1>8, <2>3, <3>7
    <3>9. j.cmd \notin DiskReads /\ j.cmd # "write_buffer"
      BY <1>3 DEF DiskReads, DiskWrites
    <3>10. \A at \in 0 .. (done + 1) - 1 : e.image[j.lba + at] = HostSector(at)
      BY <1>5, <3>7
    <3>11. Place(e, m, done + 1)
      BY <1>3, <1>4, <1>15, <3>7, <3>8, <3>9, <3>10 DEF Place
    <3>12. Sectors(e, m, done + 1)
      <4>1. (done + 1) + e.left = done + d.left
        BY <1>6, <3>7
      <4>2. (done + 1) * SectorWords \in Nat
        BY IdeAssumption, NextProduct
      <4>3. e.left >= 1
        BY <1>6, <2>1, <3>7
      <4> QED BY <1>2, <1>6, <1>15, <3>7, <4>1, <4>2, <4>3 DEF Sectors
    <3>13. Underway(e, m)
      BY <3>5, <3>11, <3>12 DEF Underway
    <3>14. Tally(e, m)
      <4>1. Tally(d, j)
        BY DEF InTransfer, Course
      <4>2. d.count = d.left => e.count = e.left
        BY <1>6, <1>10, <3>3, <3>4, <3>6, <3>7
      <4> QED BY <1>15, <4>1, <4>2 DEF Tally
    <3>15. Started(c, e, m)
      BY <1>4, <1>11, <3>7, <3>13, <3>14 DEF Started
    <3>16. Tidy(e) /\ Course(e, m)
      BY <1>1, <1>5, <1>11, <3>15, OutcomeSound DEF Outcome
    <3>17. e # d
      BY <1>6, <3>7
    <3> QED BY <1>3, <1>6, <1>16, <2>1, <3>5, <3>7, <3>16, <3>17 DEF e, m, w
  <2> QED BY <2>2, <2>3
<1> QED BY <1>17, <1>18

----------------------------------------------------------------------------
(* The packet device's phases.                                              *)

LEMMA PacketEnds ==
  ASSUME NEW d \in IdeRegs, ~d.bsy, ~d.toBuffer, NEW sense \in Senses
  PROVE  /\ Ended(d, PacketGood(d)) /\ PacketGood(d).irq
         /\ Ended(d, CheckCondition(d, sense))
BY FirstValues DEF PacketGood, CheckCondition, IdeRegs, Ended

(* A block of a packet's data begins at a multiple of the host's limit.     *)
LEMMA PacketBlockAsks ==
  ASSUME NEW d \in IdeRegs, d.kind = "packet", ~d.bsy, ~d.toBuffer, ~d.xfer,
         NEW b \in Nat, d.packet.limit >= 1, d.packet.off = b * d.packet.limit,
         d.packet.off < d.packet.len,
         NEW j, j.cmd = "packet", j.unit = d.packet.limit, j.asked = d.packet.len,
         j.moved = d.packet.off
  PROVE  LET e == PacketBlock(d) IN
         /\ Asking(d, e, j) /\ e.irq
         /\ e.packet.off = d.packet.off /\ e.packet.phase = "data_in"
<1> DEFINE p    == d.packet
           rest == p.len - p.off
           end  == p.off + (IF rest < p.limit THEN rest ELSE p.limit)
           q    == [p EXCEPT !.blockEnd = end, !.phase = "data_in"]
           e    == [d EXCEPT !.packet = q, !.drq = TRUE, !.err = FALSE, !.irq = TRUE]
<1>1. p \in PacketState
  BY DEF IdeRegs
<1>2. /\ p.off \in Nat /\ p.len \in Nat /\ p.limit \in Nat /\ p.off < p.len
      /\ p.limit >= 1 /\ p.off = b * p.limit
  BY <1>1 DEF PacketState
<1>3. (b + 1) * p.limit = p.off + p.limit
  BY <1>2, NextProduct
<1>4. e = PacketBlock(d)
  BY <1>1 DEF PacketBlock, IdeRegs
<1> HIDE DEF p
<1>5. /\ end \in Nat /\ p.off < end
      /\ p.off + p.limit < p.len => end = p.off + p.limit
      /\ ~(p.off + p.limit < p.len) => end = p.len
  BY <1>2
<1> HIDE DEF end
<1>6. /\ q \in PacketState /\ q.phase = "data_in" /\ q.off = p.off /\ q.len = p.len
      /\ q.limit = p.limit /\ q.blockEnd = end
  BY <1>1, <1>5 DEF PacketState
<1> HIDE DEF q
<1>7. /\ e \in IdeRegs /\ e.packet = q /\ e.drq /\ ~e.err /\ e.irq
      /\ e.kind = d.kind /\ e.slave = d.slave /\ ~e.xfer /\ ~e.bsy /\ ~e.toBuffer
  BY <1>6 DEF IdeRegs
<1> HIDE DEF e
<1>8. Asks(e, j)
  BY <1>2, <1>3, <1>5, <1>6, <1>7 DEF Asks, p
<1>9. Asking(d, e, j)
  BY <1>6, <1>7, <1>8 DEF Asking
<1>10. e.irq /\ e.packet.off = d.packet.off /\ e.packet.phase = "data_in"
  BY <1>6, <1>7 DEF p
<1> QED BY <1>4, <1>9, <1>10

(* The device and the job in a phase of a packet.                           *)
InPacket(d, j) ==
  /\ Tidy(d) /\ j \in Jobs /\ Course(d, j)
  /\ d.drq /\ d.packet.phase # "idle"

LEMMA InPacketFacts ==
  ASSUME NEW d, NEW j, InPacket(d, j)
  PROVE  /\ d \in IdeRegs /\ d.packet \in PacketState /\ j \in Jobs
         /\ ~d.xfer /\ ~d.bsy /\ ~d.err /\ d.kind = "packet" /\ ~d.toBuffer
         /\ d.slave => HdHas("select")
         /\ Asks(d, j)
BY DEF InPacket, Tidy, Course, IdeRegs

LEMMA PacketWordRead ==
  ASSUME NEW d, NEW j, InPacket(d, j), d.packet.phase = "data_in"
  PROVE  LET e == ReadPacketData(d)
             m == Next(j)
         IN e # d /\ Tidy(e) /\ Course(e, m) /\ Rings(d, e, m)
<1> DEFINE p == d.packet
           q == [p EXCEPT !.off = p.off + 1]
           x == [d EXCEPT !.packet.off = @ + 1]
           e == ReadPacketData(d)
           m == Next(j)
<1>1. /\ d \in IdeRegs /\ p \in PacketState /\ j \in Jobs
      /\ ~d.xfer /\ ~d.bsy /\ ~d.err /\ d.kind = "packet" /\ ~d.toBuffer /\ d.drq
      /\ p.phase = "data_in"
      /\ d.slave => HdHas("select")
  BY InPacketFacts DEF InPacket
<1>2. PICK b \in Nat :
        /\ b * p.limit <= p.off
        /\ (b + 1) * p.limit < p.len => p.blockEnd = (b + 1) * p.limit
        /\ ~((b + 1) * p.limit < p.len) => p.blockEnd = p.len
  BY InPacketFacts DEF Asks
<1>3. /\ j.cmd = "packet" /\ p.limit >= 1 /\ j.unit = p.limit /\ j.asked = p.len
      /\ j.moved = p.off /\ p.off < p.blockEnd
  BY InPacketFacts DEF Asks
<1>4. /\ m \in Jobs /\ m.moved = j.moved + 1 /\ m.cmd = j.cmd
      /\ m.asked = j.asked /\ m.unit = j.unit
  BY <1>1, NextJob
<1> HIDE DEF m
<1>5. x = [d EXCEPT !.packet = q]
  OBVIOUS
<1> HIDE DEF x
<1>6. e = CASE x.packet.off < p.blockEnd -> x
            [] x.packet.off >= p.blockEnd /\ x.packet.off >= p.len -> PacketGood(x)
            [] OTHER -> PacketBlock(x)
  BY DEF ReadPacketData, x
<1> HIDE DEF e
<1> HIDE DEF p
<1>7. /\ p.off \in Nat /\ p.len \in Nat /\ p.limit \in Nat /\ p.blockEnd \in Nat
      /\ b * p.limit \in Nat /\ (b + 1) * p.limit = b * p.limit + p.limit
      /\ p.blockEnd <= p.len
  <2>1. p.off \in Nat /\ p.len \in Nat /\ p.limit \in Nat /\ p.blockEnd \in Nat
    BY <1>1 DEF PacketState
  <2>2. b * p.limit \in Nat /\ (b + 1) * p.limit = b * p.limit + p.limit
    BY <2>1, NextProduct
  <2> QED BY <1>2, <2>1, <2>2
<1>8. /\ q \in PacketState /\ q.off = p.off + 1 /\ q.phase = "data_in"
      /\ q.len = p.len /\ q.limit = p.limit /\ q.blockEnd = p.blockEnd
  BY <1>1, <1>7 DEF PacketState
<1> HIDE DEF q
<1>9. /\ x \in IdeRegs /\ x.packet = q /\ x.drq /\ ~x.err /\ x.irq = d.irq
      /\ x.kind = "packet" /\ x.slave = d.slave /\ ~x.xfer /\ ~x.bsy /\ ~x.toBuffer
  BY <1>1, <1>5, <1>8 DEF IdeRegs
<1>10. x # d
  BY <1>7, <1>8, <1>9 DEF p
<1>11. CASE p.off + 1 < p.blockEnd
  <2> DEFINE inBlock == x.packet.off < p.blockEnd
  <2>a. x.packet.off = p.off + 1
    BY <1>8, <1>9
  <2>b. inBlock
    BY <1>11, <2>a
  <2>c. ~(x.packet.off >= p.blockEnd)
    BY <1>7, <1>11, <2>a
  <2>1. e = x
    BY <1>6, <2>b, <2>c, Zenon
  <2>2. Asks(x, m)
    BY <1>2, <1>3, <1>4, <1>7, <1>8, <1>9, <1>11 DEF Asks
  <2>3. Asking(d, x, m)
    BY <1>1, <1>8, <1>9, <2>2 DEF Asking
  <2>4. Tidy(x) /\ Course(x, m)
    BY <1>1, <2>3, OutcomeSound DEF Outcome
  <2>5. m.moved # m.asked /\ m.moved = p.off + 1
    BY <1>3, <1>4, <1>7, <1>11
  <2>6. m.moved % m.unit # 0
    <3> DEFINE y == p.off + 1 - b * p.limit
    <3>1. p.limit \in Nat \ {0} /\ y \in 0 .. p.limit - 1 /\ y # 0
          /\ p.off + 1 = b * p.limit + y
      BY <1>2, <1>3, <1>7, <1>11
    <3> HIDE DEF y
    <3>2. (b * p.limit + y) % p.limit = y
      BY <3>1, PlaceOfWord
    <3> QED BY <1>3, <1>4, <2>5, <3>1, <3>2
  <2>7. Rings(d, x, m)
    BY <1>9, <2>5, <2>6 DEF Rings, Due
  <2> QED BY <1>10, <2>1, <2>4, <2>7 DEF e, m
<1>12. CASE p.off + 1 = p.len
  <2>1. e = PacketGood(x)
    BY <1>3, <1>6, <1>7, <1>8, <1>9, <1>12
  <2>2. Ended(x, e) /\ e.irq
    BY <1>9, <2>1, PacketEnds, FirstValues
  <2>3. Tidy(e) /\ Course(e, m)
    BY <1>1, <1>9, <2>2, OutcomeSound DEF Outcome
  <2>4. Rings(d, e, m)
    BY <1>3, <1>4, <1>12, <2>2 DEF Rings, Due
  <2>5. e # d
    BY <1>1, <2>2 DEF Ended
  <2> QED BY <2>3, <2>4, <2>5 DEF e, m
<1>13. CASE p.off + 1 = p.blockEnd /\ p.off + 1 # p.len
  <2>1. e = PacketBlock(x)
    BY <1>6, <1>7, <1>8, <1>9, <1>13
  <2>2. q.off = (b + 1) * q.limit /\ q.off < q.len /\ q.limit >= 1
    BY <1>2, <1>3, <1>7, <1>8, <1>13
  <2>3. PICK n \in Nat : n = b + 1
    OBVIOUS
  <2>4. /\ m.cmd = "packet" /\ m.unit = q.limit /\ m.asked = q.len
        /\ m.moved = q.off
    BY <1>3, <1>4, <1>8
  <2>5. Asking(x, e, m) /\ e.irq /\ e.packet.off = q.off
    BY <1>9, <2>1, <2>2, <2>3, <2>4, PacketBlockAsks
  <2>6. Tidy(e) /\ Course(e, m)
    BY <1>1, <1>9, <2>5, OutcomeSound DEF Outcome
  <2>7. Rings(d, e, m)
    <3>1. q.limit \in Nat \ {0}
      BY <1>7, <1>8, <2>2
    <3>2. ((b + 1) * q.limit) % q.limit = 0
      BY <3>1, SectorStart
    <3> QED BY <2>2, <2>4, <2>5, <3>2 DEF Rings, Due
  <2>8. e # d
    <3>1. q.off # p.off
      BY <1>7, <1>8
    <3>2. p = d.packet
      BY DEF p
    <3> QED BY <2>5, <3>1, <3>2, Zenon
  <2> QED BY <2>6, <2>7, <2>8 DEF e, m
<1>14. \/ p.off + 1 < p.blockEnd
       \/ p.off + 1 = p.len
       \/ p.off + 1 = p.blockEnd /\ p.off + 1 # p.len
  BY <1>3, <1>7
<1> QED BY <1>11, <1>12, <1>13, <1>14

LEMMA PacketTypes ==
  ASSUME NEW pkt \in Packets
  PROVE  pkt.len \in Nat /\ Answer10(pkt) \in Nat
<1>1. pkt.len \in Nat
  <2>1. HdLengths \subseteq Nat
    BY HostAssumption
  <2>2. CASE pkt \in [op : {"test_unit_ready", "eject", "prevent", "allow", "unknown"},
                      lba : {0}, len : {0}]
    BY <2>2
  <2>3. CASE pkt \in [op : {"request_sense", "inquiry"}, lba : {0}, len : HdLengths]
    BY <2>1, <2>3
  <2>4. CASE pkt \in [op : {"read10"}, lba : HdLbas, len : 0 .. 2]
    <3>1. pkt.len \in 0 .. 2
      BY <2>4
    <3> QED BY <3>1
  <2> QED BY <2>2, <2>3, <2>4 DEF Packets
<1>2. pkt.len * CdWords \in Nat
  BY <1>1, IdeAssumption, NextProduct
<1> QED BY <1>1, <1>2 DEF Answer10

(* The packet is over, or its data wait for the host.                       *)
Answered(d, e, j) == Ended(d, e) \/ (Asking(d, e, j) /\ e.packet.phase = "data_in")

(* An answer goes out by blocks, unless there is nothing to answer.         *)
LEMMA AnswerStarts ==
  ASSUME NEW d \in IdeRegs, d.kind = "packet", ~d.bsy, ~d.xfer, ~d.toBuffer,
         d.packet.limit >= 1,
         NEW len \in Nat, NEW j \in Jobs, j.cmd = "packet", j.moved = 0,
         j.asked = len, j.unit = d.packet.limit
  PROVE  Answered(d, PacketDataIn(d, len), j)
<1>1. CASE len = 0
  <2>1. Ended(d, PacketGood(d))
    BY FirstValues, PacketEnds
  <2>2. PacketDataIn(d, len) = PacketGood(d)
    BY <1>1 DEF PacketDataIn
  <2> QED BY <2>1, <2>2 DEF Answered
<1>2. CASE len # 0
  <2> DEFINE p == d.packet
             q == [p EXCEPT !.len = len, !.off = 0]
             x == [d EXCEPT !.packet.len = len, !.packet.off = 0]
             y == [d EXCEPT !.packet = q]
  <2>1. p \in PacketState
    BY DEF IdeRegs
  <2>2. x = y
    BY <2>1 DEF IdeRegs, PacketState
  <2> HIDE DEF p
  <2>3. q \in PacketState /\ q.off = 0 /\ q.len = len /\ q.limit = p.limit
    BY <2>1 DEF PacketState
  <2> HIDE DEF q
  <2>4. /\ y \in IdeRegs /\ y.packet = q /\ y.kind = d.kind /\ y.slave = d.slave
        /\ ~y.bsy /\ ~y.xfer /\ ~y.toBuffer
    BY <2>3 DEF IdeRegs
  <2>5. PacketDataIn(d, len) = PacketBlock(x)
    BY <1>2 DEF PacketDataIn
  <2> HIDE DEF x, y
  <2>6. p.limit \in Nat /\ 0 * p.limit = 0
    BY <2>1, NextProduct DEF PacketState
  <2>7. Asking(y, PacketBlock(y), j) /\ PacketBlock(y).packet.phase = "data_in"
    BY <1>2, <2>3, <2>4, <2>6, PacketBlockAsks DEF p
  <2>8. Asking(d, PacketBlock(y), j)
    BY <2>4, <2>7 DEF Asking
  <2> QED BY <2>2, <2>5, <2>7, <2>8 DEF Answered
<1> QED BY <1>1, <1>2

LEMMA PacketExecuted ==
  ASSUME NEW d \in IdeRegs, d.kind = "packet", ~d.bsy, ~d.xfer, ~d.toBuffer,
         d.packet.limit >= 1, NEW pkt \in Packets,
         NEW j \in Jobs, j.cmd = "packet", j.moved = 0, j.asked = Answer10(pkt),
         j.unit = d.packet.limit
  PROVE  Answered(d, ExecutePacket(d, pkt), j)
<1> DEFINE q == [d.packet EXCEPT !.phase = "idle"]
           x == [d EXCEPT !.packet.phase = "idle"]
           e == ExecutePacket(d, pkt)
<1>1. pkt.len \in Nat
  BY PacketTypes
<1>2. d.packet \in PacketState
  BY DEF IdeRegs
<1>3. q \in PacketState /\ q.limit = d.packet.limit
  BY <1>2 DEF PacketState
<1>4. x = [d EXCEPT !.packet = q]
  BY <1>2 DEF IdeRegs
<1> HIDE DEF q
<1> DEFINE y == [d EXCEPT !.packet = q]
<1>5. /\ y \in IdeRegs /\ y.packet = q /\ y.kind = d.kind /\ y.slave = d.slave
      /\ ~y.bsy /\ ~y.xfer /\ ~y.toBuffer
  BY <1>3 DEF IdeRegs
<1>6. x = y
  BY <1>4
<1> HIDE DEF x, y
<1>7. \A f : Answered(y, f, j) => Answered(d, f, j)
  BY <1>5 DEF Answered, Ended, Asking
<1>8. \A sense \in Senses : Answered(y, CheckCondition(y, sense), j)
  BY <1>5, PacketEnds DEF Answered
<1>9. Answered(y, PacketGood(y), j)
  BY <1>5, FirstValues, PacketEnds DEF Answered
<1>10. CASE pkt.op = "test_unit_ready"
  <2>1. e = TestUnitReady(y)
    BY <1>6, <1>10 DEF ExecutePacket, x
  <2>2. Answered(y, e, j)
    BY <1>8, <1>9, <2>1 DEF TestUnitReady, Senses
  <2> QED BY <1>7, <2>2
<1>11. CASE pkt.op = "request_sense"
  <2> DEFINE s == IF pkt.len > 0 THEN NoSense ELSE y.sense
             z == [y EXCEPT !.sense = s]
  <2>1. s \in Senses
    BY <1>5, FirstValues DEF IdeRegs
  <2> HIDE DEF s
  <2>2. /\ z \in IdeRegs /\ z.packet = q /\ z.kind = d.kind /\ z.slave = d.slave
        /\ ~z.bsy /\ ~z.xfer /\ ~z.toBuffer
    BY <1>5, <2>1 DEF IdeRegs
  <2>3. e = PacketDataIn(z, pkt.len)
    BY <1>6, <1>11 DEF ExecutePacket, RequestSense, x, s
  <2> HIDE DEF z
  <2>4. j.asked = pkt.len
    BY <1>11 DEF Answer10
  <2>5. Answered(z, e, j)
    BY <1>1, <1>3, <2>2, <2>3, <2>4, AnswerStarts
  <2> QED BY <2>2, <2>5 DEF Answered, Ended, Asking
<1>12. CASE pkt.op = "inquiry"
  <2>1. e = PacketDataIn(y, pkt.len)
    BY <1>6, <1>12 DEF ExecutePacket, x
  <2>2. j.asked = pkt.len
    BY <1>12 DEF Answer10
  <2>3. Answered(y, e, j)
    BY <1>1, <1>3, <1>5, <2>1, <2>2, AnswerStarts
  <2> QED BY <1>7, <2>3
<1>13. CASE pkt.op = "read10"
  <2>1. e = Read10(y, pkt.lba, pkt.len)
    BY <1>6, <1>13 DEF ExecutePacket, x
  <2>2. j.asked = pkt.len * CdWords
    BY <1>13 DEF Answer10
  <2>3. pkt.len * CdWords \in Nat
    BY <1>1, IdeAssumption, NextProduct
  <2>4. Answered(y, PacketDataIn(y, pkt.len * CdWords), j)
    BY <1>3, <1>5, <2>2, <2>3, AnswerStarts
  <2>5. Answered(y, e, j)
    BY <1>1, <1>8, <1>9, <2>1, <2>4 DEF Read10, Senses
  <2> QED BY <1>7, <2>5
<1>14. CASE pkt.op = "eject"
  <2> DEFINE z == [y EXCEPT !.image = NoMedium]
  <2>1. /\ z \in IdeRegs /\ z.kind = d.kind /\ z.slave = d.slave
        /\ ~z.bsy /\ ~z.toBuffer
    BY <1>5 DEF IdeRegs
  <2>2. e = EjectTray(y)
    BY <1>6, <1>14 DEF ExecutePacket, x
  <2>3. CASE y.prevent
    <3>1. Answered(y, e, j)
      BY <1>8, <2>2, <2>3 DEF EjectTray, Senses
    <3> QED BY <1>7, <3>1
  <2>4. CASE ~y.prevent
    <3>1. e = PacketGood(z)
      BY <2>2, <2>4 DEF EjectTray
    <3> HIDE DEF z
    <3>2. Ended(z, e)
      BY <2>1, <3>1, FirstValues, PacketEnds
    <3> QED BY <2>1, <3>2 DEF Answered, Ended
  <2> QED BY <2>3, <2>4
<1>15. ASSUME NEW prevent \in BOOLEAN, e = PreventAllow(y, prevent)
       PROVE  Answered(d, e, j)
  <2> DEFINE z == [y EXCEPT !.prevent = prevent]
  <2>1. /\ z \in IdeRegs /\ z.kind = d.kind /\ z.slave = d.slave
        /\ ~z.bsy /\ ~z.toBuffer
    BY <1>5 DEF IdeRegs
  <2>2. e = PacketGood(z)
    BY <1>15 DEF PreventAllow
  <2> HIDE DEF z
  <2>3. Ended(z, e)
    BY <2>1, <2>2, FirstValues, PacketEnds
  <2> QED BY <2>1, <2>3 DEF Answered, Ended
<1>16. CASE pkt.op = "prevent"
  <2>1. e = PreventAllow(y, TRUE)
    BY <1>6, <1>16 DEF ExecutePacket, x
  <2> QED BY <1>15, <2>1
<1>17. CASE pkt.op = "allow"
  <2>1. e = PreventAllow(y, FALSE)
    BY <1>6, <1>17 DEF ExecutePacket, x
  <2> QED BY <1>15, <2>1
<1>18. CASE pkt.op = "unknown"
  <2>1. e = CheckCondition(y, "illegal_request")
    BY <1>6, <1>18 DEF ExecutePacket, x
  <2>2. Answered(y, e, j)
    BY <1>8, <2>1 DEF Senses
  <2> QED BY <1>7, <2>2
<1> QED BY <1>10, <1>11, <1>12, <1>13, <1>14, <1>16, <1>17, <1>18 DEF Packets

(* A word of a packet; the last one executes it.                            *)
LEMMA PacketSound ==
  ASSUME IdeInv, NEW pkt \in Packets, WritePacket(pkt), UNCHANGED hdGuest
  PROVE  IdeInv' /\ NoWord(ide, ide', job, job')
<1> DEFINE p == ide.packet
           q == [p EXCEPT !.off = p.off + 1]
           x == [ide EXCEPT !.packet.off = @ + 1]
           y == [ide EXCEPT !.packet = q]
           j == [job EXCEPT !.asked = Answer10(pkt), !.unit = p.limit]
<1>1. Tidy(ide) /\ ide \in IdeRegs /\ job \in Jobs /\ Course(ide, job)
  BY DEF IdeInv, Tidy
<1>2. /\ p \in PacketState /\ p.off \in Nat /\ p.limit \in Nat /\ p.phase = "command"
      /\ ide.kind = "packet" /\ ide.kind # "ata"
  BY <1>1 DEF IdeRegs, PacketState, WritePacket, Tidy
<1>3. CASE ide.slave \/ ~ide.drq
  <2>1. ide' = ide
    BY <1>3 DEF WritePacket, WriteIdeData
  <2>2. job' = job
    BY <1>2, <2>1 DEF WritePacket
  <2> QED BY <1>1, <1>2, <2>1, <2>2, IdeInvKept DEF NoWord
<1>4. CASE ~ide.slave /\ ide.drq
  <2>1. /\ ~ide.xfer /\ ~ide.bsy /\ ~ide.err /\ ~ide.toBuffer /\ Asks(ide, job)
    BY <1>1, <1>2, <1>4, InPacketFacts DEF InPacket
  <2>2. job.cmd = "packet" /\ p.limit >= 1 /\ job.moved = 0
    BY <1>2, <2>1 DEF Asks
  <2>3. x = y
    BY <1>2 DEF IdeRegs
  <2>4. ide' = IF x.packet.off < PacketWords THEN x ELSE ExecutePacket(x, pkt)
    BY <1>2, <1>4 DEF WritePacket, WriteIdeData
  <2> HIDE DEF p
  <2>5. /\ q \in PacketState /\ q.phase = "command" /\ q.limit = p.limit
        /\ q.off = p.off + 1
    BY <1>2 DEF PacketState
  <2> HIDE DEF q
  <2>6. /\ y \in IdeRegs /\ y.packet = q /\ y.kind = "packet" /\ y.slave = ide.slave
        /\ ~y.bsy /\ ~y.xfer /\ ~y.toBuffer /\ y.drq /\ ~y.err
    BY <1>1, <1>2, <1>4, <2>1, <2>5 DEF IdeRegs
  <2> HIDE DEF x, y
  <2>7. CASE x.packet.off < PacketWords
    <3>1. ide' = y
      BY <2>3, <2>4, <2>7
    <3>2. job' = job
      BY <2>5, <2>6, <3>1 DEF WritePacket
    <3>3. Asks(y, job)
      BY <2>2, <2>5, <2>6 DEF Asks
    <3>4. Asking(ide, y, job)
      BY <1>2, <2>5, <2>6, <3>3 DEF Asking
    <3>5. Tidy(ide') /\ Course(ide', job)
      BY <1>1, <3>1, <3>4, OutcomeSound DEF Outcome, Course, Tidy
    <3> QED BY <1>1, <1>2, <3>2, <3>5, IdeInvKept DEF NoWord
  <2>8. CASE ~(x.packet.off < PacketWords)
    <3>1. ide' = ExecutePacket(y, pkt)
      BY <2>3, <2>4, <2>8
    <3>2. Answer10(pkt) \in Nat
      BY PacketTypes
    <3>3. /\ j \in Jobs /\ j.cmd = job.cmd /\ j.moved = job.moved
          /\ j.asked = Answer10(pkt) /\ j.unit = p.limit
      BY <1>1, <1>2, <3>2 DEF Jobs
    <3> HIDE DEF j
    <3>4. Answered(y, ide', j)
      BY <2>2, <2>5, <2>6, <3>1, <3>3, PacketExecuted
    <3>5. Tidy(ide') /\ Course(ide', j)
      BY <1>1, <1>2, <2>6, <3>4, OutcomeSound DEF Answered, Outcome, Course
    <3>6. job' = j
      <4>1. ide'.packet.phase # "command"
        BY <3>4 DEF Answered, Ended
      <4> QED BY <4>1 DEF WritePacket, j, p
    <3> QED BY <1>2, <3>3, <3>5, <3>6, IdeInvKept DEF NoWord
  <2> QED BY <2>7, <2>8
<1> QED BY <1>3, <1>4

----------------------------------------------------------------------------
(* The host's other accesses.                                               *)

(* The sectors so far on the disk.                                          *)
Lands(d, e, j, m) ==
  \/ /\ e.image = d.image
     /\ j.cmd \in DiskWrites => m.moved # j.asked
  \/ /\ j.cmd \in DiskWrites
     /\ Landing(d, e, j, m, j.moved \div SectorWords)

(* A step that moves a word.                                                *)
Word(d, e, j, m) ==
  /\ m = Next(j) /\ Rings(d, e, m)
  /\ j.cmd \in DiskWrites => d.kind = "ata"
  /\ d.kind = "ata" => Lands(d, e, j, m)

LEMMA ReadSound ==
  ASSUME IdeInv, ReadDataPort, UNCHANGED hdGuest
  PROVE  IdeInv' /\ (NoWord(ide, ide', job, job') \/ Word(ide, ide', job, job'))
<1> DEFINE m == Next(job)
<1>1. Tidy(ide) /\ ide \in IdeRegs /\ job \in Jobs /\ Course(ide, job)
  BY DEF IdeInv, Tidy
<1>2. m \in Jobs /\ m.moved = job.moved + 1
  BY <1>1, NextJob
<1>3. /\ ide' = ReadIdeData(ide)
      /\ ide' = ide => job' = job
      /\ ide' # ide => job' = m
  BY DEF ReadDataPort, Progress, Next
<1> HIDE DEF m
<1>4. CASE ide' = ide
  BY <1>1, <1>3, <1>4, IdeInvKept DEF NoWord
<1>5. CASE ide.drq /\ ~ide.slave /\ ide.packet.phase = "data_in"
  <2>1. InPacket(ide, job)
    BY <1>1, <1>5 DEF InPacket
  <2>2. ide.kind = "packet" /\ job.cmd = "packet"
    BY <2>1, InPacketFacts DEF Asks
  <2>3. ide' = ReadPacketData(ide)
    BY <1>3, <1>5 DEF ReadIdeData
  <2>4. ide' # ide /\ Tidy(ide') /\ Course(ide', m) /\ Rings(ide, ide', m)
    BY <1>5, <2>1, <2>3, PacketWordRead DEF m
  <2>5. IdeInv'
    BY <1>2, <1>3, <2>4, IdeInvKept
  <2> QED BY <1>3, <2>2, <2>4, <2>5 DEF Word, DiskWrites, m
<1>6. CASE /\ ide.drq /\ ~ide.slave /\ ide.packet.phase # "data_in"
           /\ ide.xfer /\ ~ide.in
  <2>1. InTransfer(ide, job)
    BY <1>1, <1>6 DEF InTransfer
  <2>2. PICK done \in Nat : Place(ide, job, done)
    BY <1>1, <1>6 DEF Course, Underway
  <2>3. job.cmd \notin DiskWrites
    BY <1>6, <2>2 DEF Place
  <2>4. CASE ide.off + 1 < SectorWords
    <3>1. ide' = [ide EXCEPT !.off = @ + 1]
      BY <1>3, <1>6, <2>4 DEF ReadIdeData
    <3>2. /\ ide' # ide /\ Tidy(ide') /\ Course(ide', m) /\ Rings(ide, ide', m)
          /\ ide'.image = ide.image
      BY <2>1, <2>4, <3>1, WordMoves DEF m
    <3>3. IdeInv'
      BY <1>2, <1>3, <3>2, IdeInvKept
    <3> QED BY <1>3, <2>3, <3>2, <3>3 DEF Word, Lands, m
  <2>5. CASE ~(ide.off + 1 < SectorWords)
    <3>1. ide' = FinishSectorPioOut(ide)
      BY <1>3, <1>6, <2>5 DEF ReadIdeData
    <3>2. ide.off + 1 = SectorWords
      BY <1>1, <2>5, IdeAssumption DEF IdeRegs
    <3>3. /\ ide' # ide /\ Tidy(ide') /\ Course(ide', m) /\ Rings(ide, ide', m)
          /\ ide.kind = "ata" => ide'.image = ide.image
      BY <1>6, <2>1, <3>1, <3>2, LastWordRead DEF m
    <3>4. IdeInv'
      BY <1>2, <1>3, <3>3, IdeInvKept
    <3> QED BY <1>3, <2>3, <3>3, <3>4 DEF Word, Lands, m
  <2> QED BY <2>4, <2>5
<1>7. CASE /\ ~(ide.drq /\ ~ide.slave /\ ide.packet.phase = "data_in")
           /\ ~(/\ ide.drq /\ ~ide.slave /\ ide.packet.phase # "data_in"
                /\ ide.xfer /\ ~ide.in)
  <2>1. ide' = ide
    BY <1>3, <1>7 DEF ReadIdeData
  <2> QED BY <1>4, <2>1
<1> QED BY <1>5, <1>6, <1>7

LEMMA WriteSound ==
  ASSUME IdeInv, WriteDataPort, UNCHANGED hdGuest
  PROVE  IdeInv' /\ (NoWord(ide, ide', job, job') \/ Word(ide, ide', job, job'))
<1> DEFINE m == Next(job)
           k == job.moved \div SectorWords
<1>1. Tidy(ide) /\ ide \in IdeRegs /\ job \in Jobs /\ Course(ide, job)
  BY DEF IdeInv, Tidy
<1>2. m \in Jobs /\ m.moved = job.moved + 1 /\ m.asked = job.asked
  BY <1>1, NextJob
<1>3. /\ ide' = WriteIdeData(ide, HostSector(k), NoPacket)
      /\ ide.packet.phase # "command"
      /\ ide' = ide => job' = job
      /\ ide' # ide => job' = m
  BY DEF WriteDataPort, Progress, Next
<1> HIDE DEF m
<1>4. CASE ide' = ide
  BY <1>1, <1>3, <1>4, IdeInvKept DEF NoWord
<1>5. CASE ide.drq /\ ~ide.slave /\ ide.xfer /\ ide.in
  <2>1. InTransfer(ide, job)
    BY <1>1, <1>5 DEF InTransfer
  <2>2. PICK done \in Nat : Place(ide, job, done)
    BY <1>1, <1>5 DEF Course, Underway
  <2>3. job.cmd \in DiskWrites => ide.kind = "ata" /\ ~ide.toBuffer
    BY <2>2 DEF Place
  <2>4. CASE ide.off + 1 < SectorWords
    <3>1. ide' = [ide EXCEPT !.off = @ + 1]
      BY <1>3, <1>5, <2>4 DEF WriteIdeData
    <3>2. /\ ide' # ide /\ Tidy(ide') /\ Course(ide', m) /\ Rings(ide, ide', m)
          /\ ide'.image = ide.image /\ m.moved # m.asked
      BY <2>1, <2>4, <3>1, WordMoves DEF m
    <3>3. IdeInv'
      BY <1>2, <1>3, <3>2, IdeInvKept
    <3> QED BY <1>2, <1>3, <2>3, <3>2, <3>3 DEF Word, Lands, m
  <2>5. CASE ~(ide.off + 1 < SectorWords)
    <3>1. ide' = FinishSectorPioIn([ide EXCEPT !.pio = HostSector(k)])
      BY <1>3, <1>5, <2>5 DEF WriteIdeData
    <3>2. ide.off + 1 = SectorWords
      BY <1>1, <2>5, IdeAssumption DEF IdeRegs
    <3>3. CASE ide.toBuffer
      <4>1. HostSector(k) \in Content
        <5>1. k \in Nat
          BY <1>1, IdeAssumption DEF Jobs
        <5> QED BY <5>1 DEF HostSector, Content
      <4>2. /\ ide' # ide /\ Tidy(ide') /\ Course(ide', m) /\ Rings(ide, ide', m)
            /\ ide'.image = ide.image
        BY <2>1, <3>1, <3>2, <3>3, <4>1, BufferFilled DEF m
      <4>3. IdeInv'
        BY <1>2, <1>3, <4>2, IdeInvKept
      <4> QED BY <1>3, <2>3, <3>3, <4>2, <4>3 DEF Word, Lands, m
    <3>4. CASE ~ide.toBuffer
      <4>1. /\ ide' # ide /\ job.cmd \in DiskWrites
            /\ Tidy(ide') /\ Course(ide', m) /\ Rings(ide, ide', m)
            /\ Landing(ide, ide', job, m, k)
        BY <1>5, <2>1, <3>1, <3>2, <3>4, SectorWritten DEF m, Written
      <4>2. IdeInv'
        BY <1>2, <1>3, <4>1, IdeInvKept
      <4> QED BY <1>3, <2>3, <4>1, <4>2 DEF Word, Lands, m
    <3> QED BY <3>3, <3>4
  <2> QED BY <2>4, <2>5
<1>6. CASE ~(ide.drq /\ ~ide.slave /\ ide.xfer /\ ide.in)
  <2>1. ide' = ide
    BY <1>3, <1>6 DEF WriteIdeData
  <2> QED BY <1>4, <2>1
<1> QED BY <1>5, <1>6

(* What no transfer depends on may change.                                  *)
Same(d, e) ==
  /\ e \in IdeRegs
  /\ e.kind = d.kind /\ e.bsy = d.bsy /\ e.drq = d.drq /\ e.err = d.err
  /\ e.xfer = d.xfer /\ e.in = d.in /\ e.off = d.off /\ e.pio = d.pio
  /\ e.toBuffer = d.toBuffer /\ e.left = d.left /\ e.next = d.next
  /\ e.factor = d.factor /\ e.multi = d.multi /\ e.block = d.block
  /\ e.packet = d.packet /\ e.count = d.count
  /\ d.kind = "ata" => e.image = d.image

LEMMA SameCourse ==
  ASSUME NEW d, NEW e, NEW j, Tidy(d), Course(d, j), Same(d, e),
         e.slave => HdHas("select")
  PROVE  Tidy(e) /\ Course(e, j)
<1>1. Tidy(e)
  BY DEF Tidy, Same
<1>2. Underway(d, j) => Underway(e, j)
  <2> SUFFICES ASSUME NEW done \in Nat,
                      Sectors(d, j, done), Place(d, j, done), Block(d, j, done)
               PROVE  Sectors(e, j, done) /\ Place(e, j, done) /\ Block(e, j, done)
    BY DEF Underway
  <2>1. Sectors(e, j, done)
    BY DEF Sectors, Same
  <2>2. Place(e, j, done)
    BY DEF Place, Same
  <2>3. Block(e, j, done)
    BY DEF Block, Same
  <2> QED BY <2>1, <2>2, <2>3
<1>3. Asks(d, j) => Asks(e, j)
  BY DEF Asks, Same
<1>4. Tally(d, j) => Tally(e, j)
  BY DEF Tally, Same
<1>5. Course(e, j)
  BY <1>2, <1>3, <1>4 DEF Course, Same
<1> QED BY <1>1, <1>5

(* A device as new has nothing under way.                                   *)
LEMMA ReadyAgain ==
  ASSUME NEW d \in IdeRegs, d.kind = "ata" => d.image \in [Lbas -> Content], NEW j
  PROVE  LET e == ResetReady(d) IN
         Tidy(e) /\ Course(e, j) /\ e.image = d.image
<1> DEFINE e == ResetReady(d)
<1>1. /\ e \in IdeRegs /\ e.kind = d.kind /\ e.image = d.image
      /\ ~e.drq /\ ~e.bsy /\ ~e.err /\ ~e.toBuffer /\ ~e.slave
      /\ e.packet.phase = "idle"
  BY NewIdeReady DEF ResetReady, IdeRegs
<1> HIDE DEF e
<1> QED BY <1>1 DEF Tidy, Course, e

LEMMA StatusSound ==
  ASSUME IdeInv, ReadStatus, UNCHANGED hdGuest
  PROVE  IdeInv' /\ NoWord(ide, ide', job, job')
<1>1. Tidy(ide) /\ ide \in IdeRegs /\ job \in Jobs /\ Course(ide, job) /\ job' = job
  BY DEF IdeInv, Tidy, ReadStatus
<1> DEFINE e == [ide EXCEPT !.irq = FALSE]
<1>2. Same(ide, e) /\ e.slave = ide.slave /\ e.image = ide.image
  BY <1>1 DEF IdeRegs, Same
<1>3. Same(ide, ide)
  BY <1>1 DEF Same
<1> HIDE DEF e
<1>4. ide' = ide \/ ide' = e
  BY DEF ReadStatus, ReadIdeStatus, e
<1>5. Same(ide, ide') /\ ide'.slave = ide.slave /\ ide'.image = ide.image
  BY <1>2, <1>3, <1>4
<1>6. ide'.slave => HdHas("select")
  BY <1>1, <1>5 DEF Course
<1> QED BY <1>1, <1>5, <1>6, SameCourse, IdeInvKept DEF NoWord

LEMMA ResetBegins ==
  ASSUME NEW d \in IdeRegs, NEW bsy \in BOOLEAN
  PROVE  [d EXCEPT !.bsy = bsy, !.drq = FALSE, !.err = FALSE, !.irq = FALSE] \in IdeRegs
BY ZenonT(60) DEF IdeRegs

LEMMA DevCtrlSound ==
  ASSUME IdeInv, NEW srst \in BOOLEAN, NEW nien \in BOOLEAN, StoreDevCtrl(srst, nien),
         UNCHANGED hdGuest
  PROVE  IdeInv' /\ NoWord(ide, ide', job, job')
<1>1. Tidy(ide) /\ ide \in IdeRegs /\ job \in Jobs /\ Course(ide, job) /\ job' = job
  BY DEF IdeInv, Tidy, StoreDevCtrl
<1> DEFINE e == [ide EXCEPT !.srst = srst, !.nien = nien]
           b == Present(ide)
           f == [e EXCEPT !.bsy = b, !.drq = FALSE, !.err = FALSE, !.irq = FALSE]
           g == [e EXCEPT !.irq = FALSE]
<1>2. Same(ide, e) /\ e.slave = ide.slave /\ e.image = ide.image /\ e.kind = ide.kind
  <2>1. e \in IdeRegs
    BY <1>1 DEF IdeRegs
  <2>2. /\ e.kind = ide.kind /\ e.bsy = ide.bsy /\ e.drq = ide.drq /\ e.err = ide.err
        /\ e.xfer = ide.xfer /\ e.in = ide.in /\ e.off = ide.off /\ e.pio = ide.pio
        /\ e.toBuffer = ide.toBuffer /\ e.left = ide.left /\ e.next = ide.next
        /\ e.factor = ide.factor /\ e.multi = ide.multi /\ e.block = ide.block
        /\ e.packet = ide.packet /\ e.count = ide.count
        /\ e.image = ide.image /\ e.slave = ide.slave
    BY <1>1 DEF IdeRegs
  <2> QED BY <2>1, <2>2 DEF Same
<1>3. ide' = CASE srst /\ ~ide.srst -> f
               [] ~srst /\ ide.srst -> IF Present(ide) THEN ResetReady(e) ELSE g
               [] OTHER -> e
  BY DEF StoreDevCtrl, WriteDevCtrl
<1> HIDE DEF e
<1>4. e \in IdeRegs /\ b \in BOOLEAN
  BY <1>2 DEF Same, Present
<1> HIDE DEF b
<1>5. Tidy(e) /\ Course(e, job)
  BY <1>1, <1>2, SameCourse DEF Course
<1>6. Tidy(f) /\ Course(f, job) /\ f.image = e.image
  <2>1. f \in IdeRegs
    BY <1>4, ResetBegins
  <2>2. /\ f.kind = e.kind /\ f.image = e.image /\ f.packet = e.packet
        /\ f.slave = e.slave /\ f.toBuffer = e.toBuffer /\ ~f.drq /\ ~f.err
        /\ f.bsy = b
    BY <1>4 DEF IdeRegs
  <2> HIDE DEF f
  <2>3. f.kind = "none" => f.packet.phase = "idle"
    BY <1>5, <2>2 DEF Tidy
  <2>4. f.kind # "none" => f.bsy
    BY <1>2, <2>2 DEF b, Present
  <2>5. Tidy(f)
    BY <1>5, <2>1, <2>2, <2>3, <2>4 DEF Tidy
  <2>6. Course(f, job)
    BY <1>5, <2>2, <2>4 DEF Course
  <2> QED BY <2>2, <2>5, <2>6
<1>7. Same(ide, g) /\ g.slave = ide.slave /\ g.image = ide.image
  BY <1>2, <1>4 DEF IdeRegs, Same
<1>8. Tidy(g) /\ Course(g, job)
  BY <1>1, <1>7, SameCourse DEF Course
<1>9. LET h == ResetReady(e) IN Tidy(h) /\ Course(h, job) /\ h.image = e.image
  BY <1>4, <1>5, ReadyAgain DEF Tidy
<1> HIDE DEF f, g
<1>10. ide' \in {e, f, g, ResetReady(e)}
  BY <1>3
<1>11. Tidy(ide') /\ Course(ide', job) /\ ide'.image = ide.image
  BY <1>2, <1>5, <1>6, <1>7, <1>8, <1>9, <1>10
<1> QED BY <1>1, <1>11, IdeInvKept DEF NoWord

LEMMA DriveSound ==
  ASSUME IdeInv, NEW slave \in BOOLEAN, StoreDrive(slave), UNCHANGED hdGuest
  PROVE  IdeInv' /\ NoWord(ide, ide', job, job')
<1>1. /\ Tidy(ide) /\ ide \in IdeRegs /\ job \in Jobs /\ Course(ide, job)
      /\ job' = job /\ HdHas("select")
  BY DEF IdeInv, Tidy, StoreDrive
<1>2. Same(ide, ide') /\ ide'.image = ide.image
  BY <1>1 DEF IdeRegs, Same, StoreDrive, SelectDrive
<1> QED BY <1>1, <1>2, SameCourse, IdeInvKept DEF NoWord

LEMMA ResetSound ==
  ASSUME IdeInv, ResetMachine, UNCHANGED hdGuest
  PROVE  IdeInv' /\ NoWord(ide, ide', job, job')
<1>1. /\ Tidy(ide) /\ ide \in IdeRegs /\ job \in Jobs /\ job' = job
      /\ ide' = ResetReady(ide)
  BY DEF IdeInv, Tidy, ResetMachine, ResetIde
<1>2. Tidy(ide') /\ Course(ide', job) /\ ide'.image = ide.image
  BY <1>1, ReadyAgain DEF Tidy
<1> QED BY <1>1, <1>2, IdeInvKept DEF NoWord

LEMMA FactoryContent == FactoryImage \in [Lbas -> Content]
BY DEF FactoryImage, FactorySector, Content, Lbas

LEMMA MediumSound ==
  ASSUME IdeInv, ChangeMedium, UNCHANGED hdGuest
  PROVE  IdeInv' /\ NoWord(ide, ide', job, job')
<1>1. Tidy(ide) /\ ide \in IdeRegs /\ job \in Jobs /\ Course(ide, job) /\ job' = job
  BY DEF IdeInv, Tidy, ChangeMedium
<1>2. PICK image \in {FactoryImage, NoMedium} : ide' = LoadMedium(ide, image)
  BY DEF ChangeMedium, UnloadMedium
<1>3. image \in [Lbas -> Content] \cup {NoMedium}
  BY FactoryContent
<1>4. CASE ide.kind = "packet"
  <2>1. Same(ide, ide') /\ ide'.slave = ide.slave
    BY <1>1, <1>2, <1>3, <1>4 DEF IdeRegs, Same, LoadMedium
  <2> QED BY <1>1, <1>4, <2>1, SameCourse, IdeInvKept DEF NoWord, Course
<1>5. CASE ide.kind # "packet"
  <2>1. ide' = ide
    BY <1>2, <1>5 DEF LoadMedium
  <2> QED BY <1>1, <2>1, IdeInvKept DEF NoWord
<1> QED BY <1>4, <1>5

----------------------------------------------------------------------------
(* The invariant.                                                           *)

LEMMA InitSound ==
  ASSUME StorageInit
  PROVE  IdeInv
<1> DEFINE kind  == KindOf(hdGuest)
           image == IF kind = "none" THEN NoMedium ELSE FactoryImage
<1>1. /\ kind \in {"ata", "packet", "none"}
      /\ image \in [Lbas -> Content] \cup {NoMedium}
      /\ kind = "ata" => image \in [Lbas -> Content]
  BY FactoryContent DEF KindOf
<1>2. ide = NewIde(kind, image) /\ job = NoJob
  BY DEF StorageInit, IdeInit
<1> HIDE DEF kind, image
<1>3. /\ ide \in IdeRegs /\ ide.kind = kind /\ ide.image = image
      /\ ~ide.drq /\ ~ide.bsy /\ ~ide.err /\ ~ide.toBuffer /\ ~ide.slave
      /\ ide.packet.phase = "idle"
  BY <1>1, <1>2, NewIdeReady
<1>4. job \in Jobs
  BY <1>2 DEF NoJob, Jobs
<1> QED BY <1>1, <1>3, <1>4 DEF IdeInv, Tidy, Course

(* Every step keeps the invariant, and moves a word or none.                *)
LEMMA StepSound ==
  ASSUME IdeInv, [StorageNext]_storageVars
  PROVE  IdeInv' /\ (NoWord(ide, ide', job, job') \/ Word(ide, ide', job, job'))
<1>1. CASE UNCHANGED ideVars
  <2>1. ide' = ide /\ job' = job /\ hdGuest' = hdGuest
    BY <1>1 DEF ideVars
  <2>2. Tidy(ide) /\ Course(ide, job) /\ job \in Jobs
    BY DEF IdeInv
  <2> QED BY <2>1, <2>2, IdeInvKept DEF NoWord
<1>2. CASE IdeNext
  <2>1. UNCHANGED hdGuest
    BY <1>2 DEF IdeNext
  <2>2. ASSUME NEW r \in Requests(hdGuest), IssueCommand(r)
        PROVE  IdeInv' /\ NoWord(ide, ide', job, job')
    BY <2>1, <2>2, CommandSound
  <2>3. CASE ReadDataPort
    BY <2>1, <2>3, ReadSound
  <2>4. CASE WriteDataPort
    BY <2>1, <2>4, WriteSound
  <2>5. ASSUME NEW pkt \in Packets, WritePacket(pkt)
        PROVE  IdeInv' /\ NoWord(ide, ide', job, job')
    BY <2>1, <2>5, PacketSound
  <2>6. CASE ReadStatus
    BY <2>1, <2>6, StatusSound
  <2>7. ASSUME NEW srst \in BOOLEAN, NEW nien \in BOOLEAN, StoreDevCtrl(srst, nien)
        PROVE  IdeInv' /\ NoWord(ide, ide', job, job')
    BY <2>1, <2>7, DevCtrlSound
  <2>8. ASSUME NEW slave \in BOOLEAN, StoreDrive(slave)
        PROVE  IdeInv' /\ NoWord(ide, ide', job, job')
    BY <2>1, <2>8, DriveSound
  <2>9. CASE ResetMachine
    BY <2>1, <2>9, ResetSound
  <2>10. CASE ChangeMedium
    BY <2>1, <2>10, MediumSound
  <2> QED BY <1>2, <2>2, <2>3, <2>4, <2>5, <2>6, <2>7, <2>8, <2>9, <2>10 DEF IdeNext
<1> QED BY <1>1, <1>2 DEF StorageNext, storageVars

(* The invariant holds of every behaviour, whichever of the machine's disks *)
(* it uses.                                                                 *)
THEOREM ChannelSound == StorageSpec => []IdeInv
<1>1. StorageInit => IdeInv
  BY InitSound
<1>2. IdeInv /\ [StorageNext]_storageVars => IdeInv'
  BY StepSound
<1> QED BY <1>1, <1>2, PTL DEF StorageSpec

(* DRQ asks for one thing, a packet, a packet's data or a sector; an error  *)
(* asks for nothing; no phase survives the end of its command.              *)
THEOREM ChannelWaitsOnOne == StorageSpec => []WaitsOnOne
<1>1. IdeInv => WaitsOnOne
  <2> SUFFICES ASSUME IdeInv
               PROVE  WaitsOnOne
    OBVIOUS
  <2>1. /\ ide.xfer \in BOOLEAN
        /\ ide.drq => ~ide.err
        /\ ide.drq /\ ide.xfer => ide.packet.phase = "idle"
        /\ ide.drq /\ ~ide.xfer => ide.packet.phase # "idle"
        /\ ~ide.drq /\ ~ide.bsy => ide.packet.phase = "idle"
    BY DEF IdeInv, Tidy, IdeRegs
  <2>2. ide.drq => ide.xfer # (ide.packet.phase # "idle")
    BY <2>1, Zenon
  <2> QED BY <2>1, <2>2, Zenon DEF WaitsOnOne
<1> QED BY <1>1, ChannelSound, PTL

(* Words and sectors on either side agree.                                  *)
LEMMA SumOfSectors ==
  ASSUME NEW m \in Nat, NEW n \in Nat, NEW s \in Nat
  PROVE  /\ m * s \in Nat /\ n * s \in Nat
         /\ (m + n) * s = m * s + n * s
BY SMT

(* What the device still expects is what the host still has to move, from   *)
(* the sector the host thinks it is at, whatever transfer was abandoned or  *)
(* reset before; and the sector count register tells what is left.          *)
THEOREM TransfersOnCourse == StorageSpec => []TransferOnCourse
<1>1. IdeInv => TransferOnCourse
  <2> SUFFICES ASSUME IdeInv
               PROVE  TransferOnCourse
    OBVIOUS
  <2>1. /\ Tidy(ide) /\ ide \in IdeRegs /\ job \in Jobs /\ Course(ide, job)
        /\ SectorWords \in Nat \ {0}
    BY IdeAssumption DEF IdeInv, Tidy
  <2>2. ASSUME ide.drq, ide.xfer
        PROVE  /\ ide.left * SectorWords - ide.off = job.asked - job.moved
               /\ job.cmd \in DiskReads => ide.pio = ide.image[SectorNow]
               /\ job.cmd \in DiskWrites => ide.next = SectorNow /\ ~ide.toBuffer
               /\ job.cmd \in DiskReads \cup DiskWrites /\ ~HdHas("select")
                    /\ job.asked < CountBase * SectorWords => ide.count = ide.left
    <3>1. PICK done \in Nat : Sectors(ide, job, done) /\ Place(ide, job, done)
      BY <2>1, <2>2 DEF Course, Underway
    <3>2. /\ ide.off \in 0 .. SectorWords - 1 /\ ide.left \in Nat
          /\ job.asked = (done + ide.left) * SectorWords
          /\ job.moved = done * SectorWords + ide.off
      BY <2>1, <3>1 DEF IdeRegs, Sectors
    <3>3. /\ done * SectorWords \in Nat /\ ide.left * SectorWords \in Nat
          /\ job.asked = done * SectorWords + ide.left * SectorWords
      BY <2>1, <3>2, SumOfSectors
    <3>4. ide.left * SectorWords - ide.off = job.asked - job.moved
      BY <3>2, <3>3
    <3>5. (done * SectorWords + ide.off) \div SectorWords = done
      BY <2>1, <3>2, PlaceOfWord
    <3>6. SectorNow = job.lba + done
      BY <3>2, <3>5 DEF SectorNow
    <3>7. Tally(ide, job)
      BY <2>1, <2>2 DEF Course
    <3> QED BY <3>1, <3>4, <3>6, <3>7 DEF Place, Tally
  <2>3. ASSUME ide.drq, ide.packet.phase = "data_in"
        PROVE  ide.packet.len - ide.packet.off = job.asked - job.moved
    BY <2>1, <2>3 DEF Tidy, Course, Asks
  <2> QED BY <2>2, <2>3 DEF TransferOnCourse
<1> QED BY <1>1, ChannelSound, PTL

(* The disk changes by whole sectors, each the one the host is at and with  *)
(* what it sent; a write that has moved everything has all of it on disk.   *)
THEOREM SectorsAlwaysLand == StorageSpec => SectorsLand
<1> DEFINE ByTheSector ==
             ide.kind = "ata" /\ ide'.image # ide.image =>
               /\ job.cmd \in DiskWrites
               /\ ide'.image = [ide.image EXCEPT
                                  ![SectorNow] = HostSector(job.moved \div SectorWords)]
           AllThere ==
             job.cmd \in DiskWrites /\ job'.moved = job.asked /\ job.moved < job.asked =>
               \A k \in 0 .. (job.asked \div SectorWords) - 1 :
                 ide'.image[job.lba + k] = HostSector(k)
<1>1. ASSUME IdeInv, [StorageNext]_storageVars
      PROVE  ByTheSector /\ AllThere
  <2>1. job.moved \in Nat /\ job.asked \in Nat
    BY <1>1 DEF IdeInv, Jobs
  <2>2. CASE NoWord(ide, ide', job, job')
    BY <2>1, <2>2 DEF NoWord
  <2>3. CASE Word(ide, ide', job, job')
    <3>1. ByTheSector
      BY <2>3 DEF Word, Lands, Landing, SectorNow
    <3>2. AllThere
      BY <2>3 DEF Word, Lands, Landing
    <3> QED BY <3>1, <3>2
  <2> QED BY <1>1, <2>2, <2>3, StepSound
<1>2. IdeInv /\ [StorageNext]_storageVars => [ByTheSector /\ AllThere]_ideVars
  BY <1>1
<1> QED BY <1>2, ChannelSound, PTL DEF StorageSpec, SectorsLand

(* Moving a word interrupts at the end of each block and of the transfer,   *)
(* and where the transfer fails, and nowhere else.                          *)
THEOREM BlocksAlwaysInterrupt == StorageSpec => BlocksInterrupt
<1> DEFINE Announced ==
             job'.moved = job.moved + 1 =>
               ide'.irq = (\/ ide.irq \/ job'.moved % job.unit = 0
                           \/ job'.moved = job.asked \/ ide'.err)
<1>1. ASSUME IdeInv, [StorageNext]_storageVars
      PROVE  Announced
  <2> SUFFICES ASSUME job'.moved = job.moved + 1
               PROVE  ide'.irq = (\/ ide.irq \/ job'.moved % job.unit = 0
                                  \/ job'.moved = job.asked \/ ide'.err)
    OBVIOUS
  <2>1. job \in Jobs /\ job.moved \in Nat
    BY <1>1 DEF IdeInv, Jobs
  <2>2. Word(ide, ide', job, job')
    BY <1>1, <2>1, StepSound DEF NoWord
  <2>3. job'.unit = job.unit /\ job'.asked = job.asked
    BY <2>1, <2>2, NextJob DEF Word
  <2>4. /\ ide.irq \in BOOLEAN /\ ide'.irq \in BOOLEAN
    BY <1>1, StepSound DEF IdeInv, Tidy, IdeRegs
  <2> DEFINE due == \/ job'.moved % job.unit = 0 \/ job'.moved = job.asked \/ ide'.err
  <2>5. Due(ide', job') <=> due
    BY <2>3 DEF Due
  <2>6. (due => ide'.irq) /\ (~due => ide'.irq = ide.irq)
    BY <2>2, <2>5 DEF Word, Rings
  <2> QED BY <2>4, <2>6, Zenon
<1>2. IdeInv /\ [StorageNext]_storageVars => [Announced]_ideVars
  BY <1>1
<1> QED BY <1>2, ChannelSound, PTL DEF StorageSpec, BlocksInterrupt

----------------------------------------------------------------------------
(* The bounds of the channel's registers.                                   *)

Most == CountBase * CountBase

(* The offset is one into the packet, or into the data it asked for.        *)
TightPackets ==
  {p \in PacketState : /\ p.off <= p.len + PacketWords
                       /\ p.phase = "command" => p.off < PacketWords}

(* The registers with the bounds of IdeTypeOK.                              *)
TightRegs ==
  [kind : {"ata", "packet", "none"}, image : [Lbas -> Contents] \cup {NoMedium},
   bsy : BOOLEAN, drq : BOOLEAN, err : BOOLEAN, irq : BOOLEAN, nien : BOOLEAN,
   srst : BOOLEAN, slave : BOOLEAN, count : 0 .. Most, xfer : BOOLEAN, in : BOOLEAN,
   off : 0 .. SectorWords - 1, pio : Contents, buffer : Contents,
   toBuffer : BOOLEAN, left : 0 .. Most, next : 0 .. IdeSectors, ext : BOOLEAN,
   factor : 0 .. MaxMultiple, multi : BOOLEAN, block : 0 .. MaxMultiple,
   packet : TightPackets, sense : Senses, prevent : BOOLEAN]

LEMMA SquareAtLeast ==
  ASSUME NEW n \in Nat \ {0}
  PROVE  n * n \in Nat \ {0} /\ n <= n * n
<1>1. n * n >= n * 1
  BY SMT
<1> QED BY <1>1

LEMMA MostFacts ==
  Most \in Nat \ {0} /\ CountBase <= Most /\ CountBase \in Nat \ {0}
BY IdeAssumption, SquareAtLeast DEF Most

LEMMA TightFirst ==
  /\ 0 \in 0 .. Most /\ 1 \in 0 .. Most
  /\ 0 \in 0 .. SectorWords - 1 /\ 0 \in 0 .. MaxMultiple /\ 0 \in 0 .. IdeSectors
  /\ NoPacket \in TightPackets /\ Blank \in Contents /\ NoSense \in Senses
<1>1. NoPacket \in PacketState /\ NoPacket.off <= NoPacket.len + PacketWords
      /\ NoPacket.phase # "command"
  BY IdeAssumption DEF NoPacket, PacketState
<1> QED BY <1>1, MostFacts, IdeAssumption, FirstValues DEF TightPackets, Contents

LEMMA NewIdeTight ==
  ASSUME NEW kind \in {"ata", "packet", "none"},
         NEW image \in [Lbas -> Contents] \cup {NoMedium}
  PROVE  NewIde(kind, image) \in TightRegs
BY TightFirst, ZenonT(60) DEF NewIde, TightRegs, NoSense

LEMMA AbortTight ==
  ASSUME NEW d \in TightRegs
  PROVE  Abort(d) \in TightRegs
BY TightFirst, ZenonT(60) DEF Abort, TightRegs

LEMMA PlainEndsTight ==
  ASSUME NEW d \in TightRegs, NEW count \in 0 .. Most
  PROVE  /\ NonData(d, count) \in TightRegs /\ NoDevice(d) \in TightRegs
         /\ [d EXCEPT !.count = count] \in TightRegs
         /\ [d EXCEPT !.ext = FALSE] \in TightRegs
<1>1. NonData(d, count) \in TightRegs
  BY TightFirst, ZenonT(60) DEF NonData, TightRegs
<1>2. NoDevice(d) \in TightRegs
  BY TightFirst, ZenonT(60) DEF NoDevice, TightRegs
<1>3. [d EXCEPT !.count = count] \in TightRegs
  BY ZenonT(60) DEF TightRegs
<1>4. [d EXCEPT !.ext = FALSE] \in TightRegs
  BY ZenonT(60) DEF TightRegs
<1> QED BY <1>1, <1>2, <1>3, <1>4

LEMMA DeviceResetTight ==
  ASSUME NEW d \in TightRegs
  PROVE  DeviceReset(d) \in TightRegs
<1> DEFINE e == [d EXCEPT !.packet = NoPacket, !.sense = NoSense, !.prevent = FALSE,
                          !.xfer = FALSE, !.in = FALSE, !.toBuffer = FALSE,
                          !.multi = FALSE, !.block = 0, !.left = 0, !.ext = FALSE,
                          !.count = 1, !.drq = FALSE, !.err = FALSE, !.irq = FALSE]
<1>1. e \in TightRegs
  BY TightFirst, ZenonT(60) DEF TightRegs
<1>2. DeviceReset(d) \in {e, Abort(d)}
  BY DEF DeviceReset
<1> QED BY <1>1, <1>2, AbortTight

LEMMA BeginsTight ==
  ASSUME NEW d \in TightRegs
  PROVE  BeginPioOut(d) \in TightRegs /\ BeginPioIn(d) \in TightRegs
<1>1. BeginPioOut(d) \in TightRegs
  BY TightFirst, ZenonT(60) DEF BeginPioOut, TightRegs
<1> DEFINE o == BeginPioOut(d)
<1>2. BeginPioIn(d) = [o EXCEPT !.pio = Blank, !.in = TRUE]
  BY DEF BeginPioIn
<1> HIDE DEF o
<1>3. o \in TightRegs
  BY <1>1 DEF o
<1>4. [o EXCEPT !.pio = Blank, !.in = TRUE] \in TightRegs
  BY <1>3, TightFirst, ZenonT(60) DEF TightRegs
<1> QED BY <1>1, <1>2, <1>4

LEMMA MultipleBlockTight ==
  ASSUME NEW d \in TightRegs, NEW left \in 0 .. Most
  PROVE  MultipleBlock(d, left) \in 0 .. MaxMultiple
<1>1. d.factor \in 0 .. MaxMultiple
  BY DEF TightRegs
<1> QED BY <1>1, MostFacts, IdeAssumption DEF MultipleBlock

LEMMA SizedTight ==
  ASSUME NEW d \in TightRegs, NEW left \in 0 .. Most, NEW next \in 0 .. IdeSectors
  PROVE  /\ SingleSectors(d, left, next) \in TightRegs
         /\ MultipleSectors(d, left, next) \in TightRegs
<1>1. SingleSectors(d, left, next) \in TightRegs
  BY TightFirst DEF SingleSectors, TightRegs
<1> DEFINE block == MultipleBlock(d, left)
<1>2. block \in 0 .. MaxMultiple
  BY MultipleBlockTight
<1> HIDE DEF block
<1>3. [d EXCEPT !.multi = TRUE, !.left = left, !.block = block, !.next = next]
        \in TightRegs
  BY <1>2 DEF TightRegs
<1> QED BY <1>1, <1>3 DEF MultipleSectors, block

LEMMA LoadedTight ==
  ASSUME NEW d \in TightRegs, NEW lba, OnDisk(d, lba)
  PROVE  LoadSector(d, lba) \in TightRegs
<1>1. d.image[lba] \in Contents
  BY DEF OnDisk, HasMedium, TightRegs
<1> QED BY <1>1 DEF LoadSector, TightRegs

LEMMA StoredTight ==
  ASSUME NEW d \in TightRegs, NEW lba, OnDisk(d, lba)
  PROVE  StoreSector(d, lba) \in TightRegs
<1> DEFINE image == [d.image EXCEPT ![lba] = d.pio]
<1>1. d.image \in [Lbas -> Contents] /\ d.pio \in Contents
  BY DEF OnDisk, HasMedium, TightRegs
<1>2. image \in [Lbas -> Contents]
  BY <1>1
<1>3. StoreSector(d, lba) = [d EXCEPT !.image = image, !.buffer = d.pio]
  BY <1>1, <1>2 DEF StoreSector, TightRegs
<1> HIDE DEF image
<1> QED BY <1>1, <1>2, <1>3, ZenonT(60) DEF TightRegs

LEMMA OverTight ==
  ASSUME NEW d \in TightRegs
  PROVE  TransferOver(d) \in TightRegs
<1> DEFINE x == [d EXCEPT !.xfer = FALSE, !.in = FALSE, !.multi = FALSE, !.block = 0,
                          !.off = 0, !.drq = FALSE, !.err = FALSE, !.irq = TRUE]
           n == IF x.kind = "packet" THEN 1 ELSE 0
<1>1. x \in TightRegs
  BY TightFirst, ZenonT(60) DEF TightRegs
<1>2. TransferOver(d) = [x EXCEPT !.count = n, !.ext = FALSE]
  BY DEF TransferOver, CountOver
<1>3. n \in 0 .. Most
  BY TightFirst
<1> HIDE DEF n, x
<1> QED BY <1>1, <1>2, <1>3, ZenonT(60) DEF TightRegs

LEMMA CountedTight ==
  ASSUME NEW d \in TightRegs
  PROVE  Counted(d) \in TightRegs /\ CountDown(d) \in TightRegs
<1> DEFINE left  == IF d.left > 0 THEN d.left - 1 ELSE 0
           block == IF d.multi /\ d.block > 0 THEN d.block - 1 ELSE d.block
           n     == IF d.ext THEN d.left ELSE IF d.count = 0 THEN 0 ELSE d.count - 1
<1>1. /\ d.left \in 0 .. Most /\ d.block \in 0 .. MaxMultiple /\ d.count \in 0 .. Most
  BY DEF TightRegs
<1>2. left \in 0 .. Most /\ block \in 0 .. MaxMultiple /\ n \in 0 .. Most
  BY <1>1, MostFacts, IdeAssumption
<1>3. /\ Counted(d) = [d EXCEPT !.left = left, !.block = block]
      /\ CountDown(d) = [d EXCEPT !.count = n]
  BY DEF Counted, CountDown
<1> HIDE DEF left, block, n
<1>4. [d EXCEPT !.left = left, !.block = block] \in TightRegs
  BY <1>2 DEF TightRegs
<1>5. [d EXCEPT !.count = n] \in TightRegs
  BY <1>2 DEF TightRegs
<1> QED BY <1>3, <1>4, <1>5

LEMMA NextSectorTight ==
  ASSUME NEW d \in TightRegs
  PROVE  NextSector(d) \in TightRegs
<1> DEFINE block == MultipleBlock(d, d.left)
<1>1. block \in 0 .. MaxMultiple
  BY MultipleBlockTight DEF TightRegs
<1> HIDE DEF block
<1>2. /\ [d EXCEPT !.irq = TRUE] \in TightRegs
      /\ [d EXCEPT !.block = block, !.irq = TRUE] \in TightRegs
  BY <1>1 DEF TightRegs
<1>3. NextSector(d) \in {d, [d EXCEPT !.irq = TRUE],
                         [d EXCEPT !.block = block, !.irq = TRUE]}
  BY DEF NextSector, block
<1> QED BY <1>2, <1>3

(* A sector done.                                                           *)
LEMMA ReadOverTight ==
  ASSUME NEW d \in TightRegs
  PROVE  FinishSectorPioOut(d) \in TightRegs
<1> DEFINE e == Counted(d)
<1>1. e \in TightRegs
  BY CountedTight
<1>2. CASE e.left = 0
  BY <1>1, <1>2, OverTight DEF FinishSectorPioOut
<1>3. CASE e.left > 0 /\ ~OnDisk(e, e.next)
  <2>1. FinishSectorPioOut(d) = Abort(e)
    BY <1>3 DEF FinishSectorPioOut
  <2> QED BY <1>1, <2>1, AbortTight
<1>4. CASE e.left # 0 /\ OnDisk(e, e.next)
  <2> DEFINE n == e.next
             x == LoadSector(e, n)
             m == x.next + 1
             y == [x EXCEPT !.next = m, !.off = 0]
  <2>1. FinishSectorPioOut(d) = NextSector(CountDown(y))
    BY <1>4 DEF FinishSectorPioOut
  <2> HIDE DEF e
  <2>2. x \in TightRegs
    BY <1>1, <1>4, LoadedTight
  <2>3. x.next = n
    BY <1>1 DEF LoadSector, TightRegs
  <2>4. m \in 0 .. IdeSectors
    BY <1>4, <2>3, IdeAssumption DEF OnDisk, Lbas
  <2> HIDE DEF x, m
  <2>5. y \in TightRegs
    BY <2>2, <2>4, TightFirst DEF TightRegs
  <2> HIDE DEF y
  <2> QED BY <2>1, <2>5, CountedTight, NextSectorTight
<1>5. e.left \in Nat
  BY <1>1, MostFacts DEF TightRegs
<1> QED BY <1>2, <1>3, <1>4, <1>5

LEMMA WrittenTight ==
  ASSUME NEW d \in TightRegs
  PROVE  FinishSectorPioIn(d) \in TightRegs
<1> DEFINE s == StoreSector(d, d.next)
           e == Counted(s)
<1>1. CASE d.toBuffer
  <2> DEFINE x == [d EXCEPT !.buffer = d.pio, !.toBuffer = FALSE, !.left = 0]
  <2>1. FinishSectorPioIn(d) = TransferOver(x)
    BY <1>1 DEF FinishSectorPioIn
  <2>2. d.pio \in Contents
    BY DEF TightRegs
  <2>3. x \in TightRegs
    BY <2>2, TightFirst DEF TightRegs
  <2> HIDE DEF x
  <2> QED BY <2>1, <2>3, OverTight
<1>2. CASE ~d.toBuffer /\ ~OnDisk(d, d.next)
  <2>1. FinishSectorPioIn(d) = Abort(d)
    BY <1>2 DEF FinishSectorPioIn
  <2> QED BY <2>1, AbortTight
<1>3. CASE ~d.toBuffer /\ OnDisk(d, d.next)
  <2>1. s \in TightRegs
    BY <1>3, StoredTight
  <2>2. e \in TightRegs
    BY <2>1, CountedTight
  <2>3. s.next = d.next
    BY DEF StoreSector, TightRegs
  <2>4. e.next = s.next
    <3> HIDE DEF s
    <3> QED BY <2>1 DEF Counted, TightRegs
  <2> DEFINE n == e.next + 1
             x == [e EXCEPT !.next = n]
             y == [e EXCEPT !.next = n, !.off = 0, !.pio = Blank]
  <2>5. n \in 0 .. IdeSectors
    BY <1>3, <2>3, <2>4, IdeAssumption DEF OnDisk, Lbas
  <2>6. FinishSectorPioIn(d) \in {TransferOver(e), Abort(x), NextSector(CountDown(y))}
    BY <1>3 DEF FinishSectorPioIn
  <2> HIDE DEF e, n
  <2>7. x \in TightRegs /\ y \in TightRegs
    BY <2>2, <2>5, TightFirst DEF TightRegs
  <2> HIDE DEF x, y
  <2>8. CountDown(y) \in TightRegs
    BY <2>7, CountedTight
  <2> QED BY <2>2, <2>6, <2>7, <2>8, OverTight, AbortTight, NextSectorTight
<1> QED BY <1>1, <1>2, <1>3

(* Commands.                                                                *)
LEMMA TightCounts ==
  ASSUME NEW n \in 0 .. CountBase - 1
  PROVE  /\ n \in 0 .. Most /\ Effective(n) \in 0 .. Most
         /\ Effective48(n) \in 0 .. Most
BY MostFacts DEF Effective, Effective48, Most

LEMMA RequestBounds ==
  ASSUME NEW r \in Requests(hdGuest)
  PROVE  /\ r.count \in 0 .. Most
         /\ r.cmd \in DiskReads \cup DiskWrites => r.count \in 0 .. CountBase - 1
<1> DEFINE given == CommandsFor(hdGuest)
           data  == DiskReads \cup DiskWrites
<1>1. HdCounts \subseteq 0 .. CountBase - 1 /\ HdLimits \subseteq 0 .. Most
  BY HostAssumption DEF Most
<1>2. HdCounts \subseteq 0 .. Most
  BY <1>1, MostFacts
<1>3. 0 \in 0 .. Most /\ 1 \in 0 .. Most
  BY TightFirst
<1>4. \A c \in data : c \notin Unlimited
                        /\ c \notin {"set_multiple", "read_buffer", "write_buffer", "packet"}
  BY DEF DiskReads, DiskWrites, Unlimited
<1> HIDE DEF given, data
<1>5. CASE r \in {[cmd |-> cmd, lba |-> 0, count |-> 0] : cmd \in given \cap Unlimited}
  <2>1. PICK cmd \in given \cap Unlimited : r = [cmd |-> cmd, lba |-> 0, count |-> 0]
    BY <1>5
  <2>2. r.cmd \in Unlimited /\ r.count = 0
    BY <2>1
  <2> QED BY <1>3, <1>4, <2>2 DEF data
<1>6. CASE r \in {[cmd |-> "set_multiple", lba |-> 0, count |-> n] :
                    n \in IF "multiple" \in hdGuest THEN HdCounts ELSE {}}
  <2>1. PICK n \in HdCounts : r = [cmd |-> "set_multiple", lba |-> 0, count |-> n]
    BY <1>6
  <2>2. r.cmd = "set_multiple" /\ r.count \in HdCounts
    BY <2>1
  <2> QED BY <1>2, <1>4, <2>2 DEF data
<1>7. CASE r \in [cmd : given \cap (data \cup {"verify"}), lba : HdLbas, count : HdCounts]
  BY <1>1, <1>2, <1>7
<1>8. CASE r \in [cmd : given \cap {"read_buffer", "write_buffer"}, lba : {0}, count : {1}]
  <2>1. r.cmd \in {"read_buffer", "write_buffer"} /\ r.count = 1
    BY <1>8
  <2> QED BY <1>3, <1>4, <2>1 DEF data
<1>9. CASE r \in [cmd : given \cap {"packet"}, lba : {0}, count : HdLimits]
  <2>1. r.cmd = "packet" /\ r.count \in HdLimits
    BY <1>9
  <2> QED BY <1>1, <1>4, <2>1 DEF data
<1> QED BY <1>5, <1>6, <1>7, <1>8, <1>9 DEF Requests, given, data

LEMMA IdentifyTight ==
  ASSUME NEW d \in TightRegs
  PROVE  Identify(d) \in TightRegs
<1> DEFINE x == [d EXCEPT !.pio = Blank]
<1>1. x \in TightRegs
  BY TightFirst DEF TightRegs
<1> HIDE DEF x
<1>2. SingleSectors(x, 1, 0) \in TightRegs
  BY <1>1, TightFirst, SizedTight
<1> QED BY <1>2, BeginsTight DEF Identify, x

LEMMA BuffersTight ==
  ASSUME NEW d \in TightRegs
  PROVE  ReadBuffer(d) \in TightRegs /\ WriteBuffer(d) \in TightRegs
<1> DEFINE x == [d EXCEPT !.pio = d.buffer]
           y == [d EXCEPT !.toBuffer = TRUE]
<1>1. d.buffer \in Contents
  BY DEF TightRegs
<1>2. x \in TightRegs
  BY <1>1 DEF TightRegs
<1>3. y \in TightRegs
  BY DEF TightRegs
<1> HIDE DEF x, y
<1>4. SingleSectors(x, 1, 0) \in TightRegs /\ SingleSectors(y, 1, 0) \in TightRegs
  BY <1>2, <1>3, TightFirst, SizedTight
<1> QED BY <1>4, BeginsTight DEF ReadBuffer, WriteBuffer, x, y

LEMMA ReadsTight ==
  ASSUME NEW d \in TightRegs, NEW lba \in Nat, NEW count \in 0 .. CountBase - 1
  PROVE  /\ ReadSectors(d, lba, count) \in TightRegs
         /\ ReadSectorsExt(d, lba, count) \in TightRegs
         /\ ReadMultiple(d, lba, count) \in TightRegs
<1> DEFINE n == Effective(count)
           m == Effective48(count)
           l == LoadSector(d, lba)
           k == lba + 1
<1>1. n \in 0 .. Most /\ m \in 0 .. Most
  BY TightCounts
<1> HIDE DEF n, m
<1>2. CASE ~OnDisk(d, lba)
  BY <1>2, AbortTight DEF ReadSectors, ReadSectorsExt, ReadMultiple, InBounds48
<1>3. CASE OnDisk(d, lba)
  <2>1. l \in TightRegs /\ k \in 0 .. IdeSectors
    BY <1>3, LoadedTight, IdeAssumption DEF OnDisk, Lbas
  <2> DEFINE x == [l EXCEPT !.ext = FALSE]
             a == BeginPioOut(SingleSectors(x, n, k))
             b == BeginPioOut(SingleSectors(l, m, k))
             c == BeginPioOut(MultipleSectors(l, n, k))
             e == [b EXCEPT !.ext = TRUE, !.count = m]
  <2>2. /\ ReadSectors(d, lba, count) = a
        /\ ReadSectorsExt(d, lba, count) \in {e, Abort(d)}
        /\ ReadMultiple(d, lba, count) \in {c, Abort(d)}
    BY <1>3 DEF ReadSectors, ReadSectorsExt, ReadMultiple, n, m
  <2> HIDE DEF l, k
  <2>3. x \in TightRegs
    BY <2>1 DEF TightRegs
  <2> HIDE DEF x
  <2>4. a \in TightRegs /\ b \in TightRegs /\ c \in TightRegs
    BY <1>1, <2>1, <2>3, SizedTight, BeginsTight
  <2> HIDE DEF a, b, c
  <2>5. e \in TightRegs
    BY <1>1, <2>4 DEF TightRegs
  <2> QED BY <2>2, <2>4, <2>5, AbortTight
<1> QED BY <1>2, <1>3

LEMMA WritesTight ==
  ASSUME NEW d \in TightRegs, NEW lba \in Nat, NEW count \in 0 .. CountBase - 1
  PROVE  /\ WriteSectors(d, lba, count) \in TightRegs
         /\ WriteSectorsExt(d, lba, count) \in TightRegs
         /\ WriteMultiple(d, lba, count) \in TightRegs
<1> DEFINE n == Effective(count)
           m == Effective48(count)
<1>1. n \in 0 .. Most /\ m \in 0 .. Most
  BY TightCounts
<1> HIDE DEF n, m
<1>2. CASE ~OnDisk(d, lba)
  BY <1>2, AbortTight DEF WriteSectors, WriteSectorsExt, WriteMultiple, InBounds48
<1>3. CASE OnDisk(d, lba)
  <2>1. lba \in 0 .. IdeSectors
    BY <1>3, IdeAssumption DEF OnDisk, Lbas
  <2> DEFINE a == BeginPioIn(SingleSectors(d, n, lba))
             b == BeginPioIn(SingleSectors(d, m, lba))
             c == BeginPioIn(MultipleSectors(d, n, lba))
             e == [b EXCEPT !.ext = TRUE, !.count = m]
  <2>2. /\ WriteSectors(d, lba, count) = a
        /\ WriteSectorsExt(d, lba, count) \in {e, Abort(d)}
        /\ WriteMultiple(d, lba, count) \in {c, Abort(d)}
    BY <1>3 DEF WriteSectors, WriteSectorsExt, WriteMultiple, n, m
  <2>3. a \in TightRegs /\ b \in TightRegs /\ c \in TightRegs
    BY <1>1, <2>1, SizedTight, BeginsTight
  <2> HIDE DEF a, b, c
  <2>4. e \in TightRegs
    BY <1>1, <2>3 DEF TightRegs
  <2> QED BY <2>2, <2>3, <2>4, AbortTight
<1> QED BY <1>2, <1>3

LEMMA OthersTight ==
  ASSUME NEW d \in TightRegs, NEW lba, NEW count \in 0 .. Most
  PROVE  /\ VerifySectors(d, lba, count) \in TightRegs
         /\ SetMultiple(d, count) \in TightRegs
         /\ Diagnostic(d) \in TightRegs /\ NonData(d, d.count) \in TightRegs
<1>1. d.count \in 0 .. Most
  BY DEF TightRegs
<1> DEFINE x == NonData(d, d.count)
<1>2. x \in TightRegs /\ Diagnostic(d) \in TightRegs
  BY <1>1, TightFirst, PlainEndsTight DEF Diagnostic
<1>3. VerifySectors(d, lba, count) \in {x, Abort(d)}
  BY DEF VerifySectors
<1>4. CASE count <= MaxMultiple
  <2>1. SetMultiple(d, count) \in {[x EXCEPT !.factor = count], Abort(d)}
    BY DEF SetMultiple
  <2>2. count \in 0 .. MaxMultiple
    BY <1>4, MostFacts, IdeAssumption
  <2> HIDE DEF x
  <2>3. [x EXCEPT !.factor = count] \in TightRegs
    BY <1>2, <2>2 DEF TightRegs
  <2> QED BY <1>2, <1>3, <2>1, <2>3, AbortTight DEF x
<1>5. CASE ~(count <= MaxMultiple)
  <2>1. SetMultiple(d, count) = Abort(d)
    BY <1>5 DEF SetMultiple
  <2> QED BY <1>2, <1>3, <2>1, AbortTight
<1> QED BY <1>4, <1>5

LEMMA BeginPacketTight ==
  ASSUME NEW d \in TightRegs, NEW limit \in Nat
  PROVE  BeginPacket(d, limit) \in TightRegs
<1> DEFINE q == [NoPacket EXCEPT !.phase = "command", !.limit = limit]
           x == [d EXCEPT !.packet = q, !.xfer = FALSE, !.in = FALSE, !.toBuffer = FALSE,
                          !.multi = FALSE, !.block = 0, !.left = 0, !.drq = TRUE,
                          !.err = FALSE, !.irq = FALSE]
<1>1. q \in PacketState
  BY FirstValues DEF PacketState
<1>2. q.off = 0 /\ q.len = 0
  BY DEF NoPacket
<1> HIDE DEF q
<1>3. q \in TightPackets
  BY <1>1, <1>2, IdeAssumption DEF TightPackets
<1>4. x \in TightRegs
  BY <1>3, TightFirst, ZenonT(60) DEF TightRegs
<1>5. BeginPacket(d, limit) \in {x, Abort(d)}
  BY DEF BeginPacket, q
<1> QED BY <1>4, <1>5, AbortTight

LEMMA CommandTight ==
  ASSUME NEW d \in TightRegs, NEW r \in Requests(hdGuest)
  PROVE  WriteIdeCommand(d, r) \in TightRegs
<1> DEFINE e == [d EXCEPT !.count = r.count]
           f == [e EXCEPT !.ext = FALSE]
<1>1. /\ r.count \in 0 .. Most /\ r.count \in Nat /\ r.lba \in Nat
      /\ r.cmd \in DiskReads \cup DiskWrites => r.count \in 0 .. CountBase - 1
  BY RequestBounds, RequestTypes
<1>2. e \in TightRegs
  BY <1>1, PlainEndsTight
<1>3. f \in TightRegs
  <2> HIDE DEF e
  <2> QED BY <1>2, TightFirst, PlainEndsTight
<1>4. d.kind \in {"ata", "packet", "none"}
  BY DEF TightRegs
<1>5. WriteIdeCommand(d, r) \in {e, NoDevice(f), PacketDeviceCommand(f, r),
                                 DiskCommand(f, r)}
  BY <1>4 DEF WriteIdeCommand
<1> HIDE DEF e, f
<1>6. NoDevice(f) \in TightRegs
  BY <1>3, TightFirst, PlainEndsTight
<1>7. PacketDeviceCommand(f, r) \in TightRegs
  <2> DEFINE a == Abort(f)
  <2>1. a \in TightRegs
    BY <1>3, AbortTight
  <2>2. PacketDeviceCommand(f, r) \in
          {Identify(f), [a EXCEPT !.count = 1], BeginPacket(f, r.count),
           DeviceReset(f), Diagnostic(f), a}
    BY DEF PacketDeviceCommand, RefusedWithSignature
  <2> HIDE DEF a
  <2>3. [a EXCEPT !.count = 1] \in TightRegs
    BY <2>1, TightFirst, PlainEndsTight
  <2>4. Diagnostic(f) \in TightRegs
    BY <1>1, <1>3, OthersTight
  <2> QED BY <1>1, <1>3, <2>1, <2>2, <2>3, <2>4, IdentifyTight, BeginPacketTight,
             DeviceResetTight
<1>8. DiskCommand(f, r) \in TightRegs
  <2>1. CASE r.cmd \in DiskReads
    <3>1. DiskCommand(f, r) \in {ReadSectors(f, r.lba, r.count),
                                 ReadSectorsExt(f, r.lba, r.count),
                                 ReadMultiple(f, r.lba, r.count)}
      BY <2>1 DEF DiskCommand, DiskReads
    <3> QED BY <1>1, <1>3, <2>1, <3>1, ReadsTight
  <2>2. CASE r.cmd \in DiskWrites
    <3>1. DiskCommand(f, r) \in {WriteSectors(f, r.lba, r.count),
                                 WriteSectorsExt(f, r.lba, r.count),
                                 WriteMultiple(f, r.lba, r.count)}
      BY <2>2 DEF DiskCommand, DiskWrites
    <3> QED BY <1>1, <1>3, <2>2, <3>1, WritesTight
  <2>3. CASE r.cmd \notin DiskReads \cup DiskWrites
    <3>1. DiskCommand(f, r) \in
            {Identify(f), VerifySectors(f, r.lba, r.count), SetMultiple(f, r.count),
             ReadBuffer(f), WriteBuffer(f), Diagnostic(f), NonData(f, f.count), Abort(f)}
      BY <2>3 DEF DiskCommand, DiskReads, DiskWrites, Refused
    <3>2. /\ VerifySectors(f, r.lba, r.count) \in TightRegs
          /\ SetMultiple(f, r.count) \in TightRegs
          /\ Diagnostic(f) \in TightRegs /\ NonData(f, f.count) \in TightRegs
      BY <1>1, <1>3, OthersTight
    <3> QED BY <1>3, <3>1, <3>2, IdentifyTight, BuffersTight, AbortTight
  <2> QED BY <2>1, <2>2, <2>3
<1> QED BY <1>2, <1>5, <1>6, <1>7, <1>8

(* Packets.                                                                 *)
LEMMA PacketOverTight ==
  ASSUME NEW d \in TightRegs
  PROVE  /\ PacketGood(d) \in TightRegs
         /\ \A sense \in Senses : CheckCondition(d, sense) \in TightRegs
<1>1. PacketGood(d) \in TightRegs
  BY TightFirst DEF PacketGood, TightRegs
<1>2. ASSUME NEW sense \in Senses
      PROVE  CheckCondition(d, sense) \in TightRegs
  BY TightFirst DEF CheckCondition, TightRegs
<1> QED BY <1>1, <1>2

LEMMA PacketBlockTight ==
  ASSUME NEW d \in TightRegs, d.packet.off <= d.packet.len
  PROVE  PacketBlock(d) \in TightRegs
<1> DEFINE p    == d.packet
           rest == p.len - p.off
           end  == p.off + (IF rest < p.limit THEN rest ELSE p.limit)
           q    == [p EXCEPT !.blockEnd = end, !.phase = "data_in"]
           x    == [d EXCEPT !.packet = q, !.drq = TRUE, !.err = FALSE, !.irq = TRUE]
<1>1. p \in PacketState /\ p.off <= p.len + PacketWords
  BY DEF TightRegs, TightPackets
<1>2. p.off \in Nat /\ p.limit \in Nat /\ p.len \in Nat
  BY <1>1 DEF PacketState
<1>3. end \in Nat
  BY <1>2
<1>4. PacketBlock(d) = x
  BY DEF PacketBlock, TightRegs
<1> HIDE DEF end, p
<1>5. q \in PacketState
  BY <1>1, <1>3 DEF PacketState
<1>6. q.off = p.off /\ q.len = p.len /\ q.phase = "data_in"
  BY <1>1 DEF PacketState
<1> HIDE DEF q
<1>7. q \in TightPackets
  BY <1>1, <1>5, <1>6 DEF TightPackets
<1>8. x \in TightRegs
  BY <1>7 DEF TightRegs
<1> QED BY <1>4, <1>8


LEMMA PacketWordTight ==
  ASSUME NEW d \in TightRegs, d.packet.off + 1 <= d.packet.len,
         d.packet.phase # "command"
  PROVE  ReadPacketData(d) \in TightRegs
<1> DEFINE p == d.packet
           n == p.off + 1
           q == [p EXCEPT !.off = n]
           x == [d EXCEPT !.packet = q]
<1>1. p \in PacketState /\ n <= p.len /\ p.phase # "command"
  BY DEF TightRegs, TightPackets
<1>2. p.len \in Nat /\ n \in Nat
  BY <1>1 DEF PacketState
<1>3. [d EXCEPT !.packet.off = @ + 1] = x
  BY DEF TightRegs
<1> HIDE DEF p, n
<1>4. q \in PacketState /\ q.off = n /\ q.len = p.len /\ q.phase = p.phase
  BY <1>1, <1>2 DEF PacketState
<1> HIDE DEF q
<1>5. q \in TightPackets
  BY <1>1, <1>2, <1>4, IdeAssumption DEF TightPackets
<1>6. x \in TightRegs
  BY <1>5 DEF TightRegs
<1>7. x.packet = q
  BY DEF TightRegs
<1>8. ReadPacketData(d) \in {x, PacketGood(x), PacketBlock(x)}
  BY <1>3 DEF ReadPacketData
<1> HIDE DEF x
<1> QED BY <1>1, <1>4, <1>6, <1>7, <1>8, PacketOverTight, PacketBlockTight

LEMMA PacketDataTight ==
  ASSUME NEW d \in TightRegs, NEW len \in Nat, d.packet.phase # "command"
  PROVE  PacketDataIn(d, len) \in TightRegs
<1> DEFINE p == d.packet
           q == [p EXCEPT !.len = len, !.off = 0]
           x == [d EXCEPT !.packet = q]
<1>1. p \in PacketState /\ p.phase # "command"
  BY DEF TightRegs, TightPackets
<1>2. [d EXCEPT !.packet.len = len, !.packet.off = 0] = x
  BY DEF TightRegs
<1> HIDE DEF p
<1>3. q \in PacketState /\ q.off = 0 /\ q.len = len /\ q.phase = p.phase
  BY <1>1 DEF PacketState
<1> HIDE DEF q
<1>4. q \in TightPackets
  BY <1>1, <1>3, IdeAssumption DEF TightPackets
<1>5. x \in TightRegs
  BY <1>4 DEF TightRegs
<1>6. x.packet = q
  BY DEF TightRegs
<1>7. PacketDataIn(d, len) \in {PacketGood(d), PacketBlock(x)}
  BY <1>2 DEF PacketDataIn
<1> HIDE DEF x
<1> QED BY <1>3, <1>5, <1>6, <1>7, PacketOverTight, PacketBlockTight

LEMMA AnswersTight ==
  ASSUME NEW d \in TightRegs, NEW len \in Nat, NEW lba, d.packet.phase # "command"
  PROVE  /\ TestUnitReady(d) \in TightRegs /\ RequestSense(d, len) \in TightRegs
         /\ Read10(d, lba, len) \in TightRegs /\ EjectTray(d) \in TightRegs
         /\ \A b \in BOOLEAN : PreventAllow(d, b) \in TightRegs
<1>1. {"not_ready", "out_of_range", "removal_prevented", "illegal_request"} \subseteq Senses
  BY DEF Senses
<1>2. TestUnitReady(d) \in TightRegs
  BY <1>1, PacketOverTight DEF TestUnitReady
<1>3. RequestSense(d, len) \in TightRegs
  <2> DEFINE s == IF len > 0 THEN NoSense ELSE d.sense
             x == [d EXCEPT !.sense = s]
  <2>1. s \in Senses
    BY TightFirst DEF TightRegs
  <2>2. RequestSense(d, len) = PacketDataIn(x, len)
    BY DEF RequestSense
  <2> HIDE DEF s
  <2>3. x \in TightRegs /\ x.packet = d.packet
    BY <2>1 DEF TightRegs
  <2> HIDE DEF x
  <2> QED BY <2>2, <2>3, PacketDataTight
<1>4. Read10(d, lba, len) \in TightRegs
  <2>1. len * CdWords \in Nat
    BY IdeAssumption, NextProduct
  <2>2. Read10(d, lba, len) \in {CheckCondition(d, "not_ready"), PacketGood(d),
                                 CheckCondition(d, "out_of_range"),
                                 PacketDataIn(d, len * CdWords)}
    BY DEF Read10
  <2> QED BY <1>1, <2>1, <2>2, PacketOverTight, PacketDataTight
<1>5. EjectTray(d) \in TightRegs
  <2> DEFINE x == [d EXCEPT !.image = NoMedium]
  <2>1. x \in TightRegs
    BY DEF TightRegs
  <2>2. EjectTray(d) \in {CheckCondition(d, "removal_prevented"), PacketGood(x)}
    BY DEF EjectTray
  <2> HIDE DEF x
  <2> QED BY <1>1, <2>1, <2>2, PacketOverTight
<1>6. ASSUME NEW b \in BOOLEAN
      PROVE  PreventAllow(d, b) \in TightRegs
  <2> DEFINE x == [d EXCEPT !.prevent = b]
  <2>1. x \in TightRegs
    BY DEF TightRegs
  <2>2. PreventAllow(d, b) = PacketGood(x)
    BY DEF PreventAllow
  <2> HIDE DEF x
  <2> QED BY <2>1, <2>2, PacketOverTight
<1> QED BY <1>2, <1>3, <1>4, <1>5, <1>6

PacketOps ==
  {"test_unit_ready", "request_sense", "inquiry", "read10", "eject", "prevent", "allow",
   "unknown"}

LEMMA PacketOp ==
  ASSUME NEW pkt \in Packets
  PROVE  pkt.op \in PacketOps
BY DEF Packets, PacketOps

LEMMA ExecutedTight ==
  ASSUME NEW d \in TightRegs, d.packet.phase = "command", NEW pkt \in Packets
  PROVE  LET e == [d EXCEPT !.packet.off = @ + 1] IN
         /\ e.packet.off < PacketWords => e \in TightRegs
         /\ ExecutePacket(e, pkt) \in TightRegs
<1> DEFINE p == d.packet
           n == p.off + 1
           q == [p EXCEPT !.off = n]
           i == [q EXCEPT !.phase = "idle"]
           e == [d EXCEPT !.packet.off = @ + 1]
           x == [d EXCEPT !.packet = q]
           y == [d EXCEPT !.packet = i]
<1>1. p \in PacketState /\ p.off < PacketWords
  BY DEF TightRegs, TightPackets
<1>2. p.len \in Nat /\ n \in Nat /\ n <= PacketWords /\ PacketWords \in Nat
  BY <1>1, IdeAssumption DEF PacketState
<1>3. e = x
  BY DEF TightRegs
<1> HIDE DEF p, n, e
<1>4. q \in PacketState /\ q.off = n /\ q.len = p.len
  BY <1>1, <1>2 DEF PacketState
<1>5. [x EXCEPT !.packet.phase = "idle"] = y
  BY DEF TightRegs
<1> HIDE DEF q
<1>6. i \in PacketState /\ i.off = n /\ i.len = p.len /\ i.phase = "idle"
  BY <1>4 DEF PacketState
<1> HIDE DEF i
<1>7. i \in TightPackets
  BY <1>2, <1>6 DEF TightPackets
<1>8. n < PacketWords => q \in TightPackets
  BY <1>2, <1>4 DEF TightPackets
<1>9. y \in TightRegs
  BY <1>7 DEF TightRegs
<1>10. q \in TightPackets => x \in TightRegs
  BY DEF TightRegs
<1>11. x.packet = q /\ y.packet = i
  BY DEF TightRegs
<1> HIDE DEF x, y
<1>12. pkt.op \in PacketOps /\ pkt.len \in Nat
  BY PacketOp, PacketTypes
<1>13. ExecutePacket(x, pkt) \in
         {TestUnitReady(y), RequestSense(y, pkt.len), PacketDataIn(y, pkt.len),
          Read10(y, pkt.lba, pkt.len), EjectTray(y), PreventAllow(y, TRUE),
          PreventAllow(y, FALSE), CheckCondition(y, "illegal_request")}
  BY <1>5, <1>12 DEF ExecutePacket, PacketOps
<1>14. ExecutePacket(x, pkt) \in TightRegs
  <2>1. y.packet.phase # "command" /\ "illegal_request" \in Senses
    BY <1>6, <1>11 DEF Senses
  <2> QED BY <1>9, <1>12, <1>13, <2>1, AnswersTight, PacketDataTight, PacketOverTight
<1> QED BY <1>3, <1>4, <1>8, <1>10, <1>11, <1>14 DEF e

(* What the host moves.                                                     *)
AskedTight(j) ==
  j.cmd # "packet" => \E n \in 0 .. Most : j.asked = n * SectorWords

IdeBounds ==
  /\ IdeInv /\ ide \in TightRegs /\ commands \in 0 .. MaxCommands /\ AskedTight(job)

LEMMA SameProduct ==
  ASSUME NEW m \in Nat, NEW n \in Nat, NEW s \in Nat \ {0}, m * s = n * s
  PROVE  m = n
<1>1. ASSUME m < n
      PROVE  FALSE
  BY <1>1, SmallerProduct
<1>2. ASSUME n < m
      PROVE  FALSE
  BY <1>2, SmallerProduct
<1> QED BY <1>1, <1>2

LEMMA WordTight ==
  ASSUME NEW d \in TightRegs, d.off + 1 < SectorWords
  PROVE  [d EXCEPT !.off = @ + 1] \in TightRegs
<1> DEFINE n == d.off + 1
<1>1. n \in 0 .. SectorWords - 1
  BY IdeAssumption DEF TightRegs
<1>2. [d EXCEPT !.off = @ + 1] = [d EXCEPT !.off = n]
  OBVIOUS
<1> HIDE DEF n
<1> QED BY <1>1, <1>2 DEF TightRegs

LEMMA ReadTight ==
  ASSUME IdeBounds, ReadDataPort
  PROVE  ide' \in TightRegs
<1>1. ide' = ReadIdeData(ide) /\ ide \in TightRegs
  BY DEF ReadDataPort, IdeBounds
<1>2. CASE ide.drq /\ ~ide.slave /\ ide.packet.phase = "data_in"
  <2>1. ide' = ReadPacketData(ide)
    BY <1>1, <1>2 DEF ReadIdeData
  <2>2. ~ide.xfer /\ Asks(ide, job) /\ ide.packet \in PacketState
    BY <1>2 DEF IdeBounds, IdeInv, Tidy, Course, IdeRegs
  <2>3. ide.packet.off + 1 <= ide.packet.len
    BY <1>2, <2>2 DEF Asks, PacketState
  <2> QED BY <1>1, <1>2, <2>1, <2>3, PacketWordTight
<1>3. CASE ~(ide.drq /\ ~ide.slave /\ ide.packet.phase = "data_in")
  <2>1. CASE ide.off + 1 < SectorWords
    <3>1. ide' \in {ide, [ide EXCEPT !.off = @ + 1]}
      BY <1>1, <1>3, <2>1 DEF ReadIdeData
    <3> QED BY <1>1, <2>1, <3>1, WordTight
  <2>2. CASE ~(ide.off + 1 < SectorWords)
    <3>1. ide' \in {ide, FinishSectorPioOut(ide)}
      BY <1>1, <1>3, <2>2 DEF ReadIdeData
    <3> QED BY <1>1, <3>1, ReadOverTight
  <2> QED BY <2>1, <2>2
<1> QED BY <1>2, <1>3

LEMMA SentSector ==
  ASSUME IdeBounds, ide.drq, ide.xfer
  PROVE  HostSector(job.moved \div SectorWords) \in Contents
<1>1. /\ Course(ide, job) /\ ide \in IdeRegs /\ SectorWords \in Nat \ {0}
  BY IdeAssumption DEF IdeBounds, IdeInv, Tidy
<1>2. PICK done \in Nat : Sectors(ide, job, done) /\ Place(ide, job, done)
  BY <1>1 DEF Course, Underway
<1>3. /\ ide.off \in 0 .. SectorWords - 1 /\ ide.left \in Nat
      /\ job.asked = (done + ide.left) * SectorWords
      /\ job.moved = done * SectorWords + ide.off
  BY <1>1, <1>2 DEF IdeRegs, Sectors
<1>4. job.moved \div SectorWords = done
  BY <1>1, <1>3, PlaceOfWord
<1>5. CASE job.cmd = "packet"
  <2>1. done = 0
    BY <1>2, <1>5 DEF Place, DiskReads, DiskWrites
  <2> QED BY <1>4, <2>1, MostFacts DEF Contents, Most
<1>6. CASE job.cmd # "packet"
  <2>1. PICK n \in 0 .. Most : job.asked = n * SectorWords
    BY <1>6 DEF IdeBounds, AskedTight
  <2>2. n \in Nat /\ done + ide.left \in Nat
    BY <1>3, MostFacts
  <2>3. done + ide.left = n
    BY <1>1, <1>3, <2>1, <2>2, SameProduct
  <2>4. done \in 0 .. Most
    BY <1>3, <2>3, MostFacts
  <2> QED BY <1>4, <2>4 DEF Contents, Most
<1> QED BY <1>5, <1>6

LEMMA WriteTight ==
  ASSUME IdeBounds, WriteDataPort
  PROVE  ide' \in TightRegs
<1> DEFINE content == HostSector(job.moved \div SectorWords)
           x       == [ide EXCEPT !.pio = content]
<1>1. /\ ide' = WriteIdeData(ide, content, NoPacket) /\ ide \in TightRegs
      /\ ide.packet.phase # "command"
  BY DEF WriteDataPort, IdeBounds
<1>2. CASE ide.drq /\ ~ide.slave /\ ide.xfer /\ ide.in
  <2>1. content \in Contents
    BY <1>2, SentSector
  <2> HIDE DEF content
  <2>2. x \in TightRegs
    BY <1>1, <2>1 DEF TightRegs
  <2>3. CASE ide.off + 1 < SectorWords
    <3>1. ide' = [ide EXCEPT !.off = @ + 1]
      BY <1>1, <1>2, <2>3 DEF WriteIdeData
    <3> QED BY <1>1, <2>3, <3>1, WordTight
  <2>4. CASE ~(ide.off + 1 < SectorWords)
    <3>1. ide' = FinishSectorPioIn(x)
      BY <1>1, <1>2, <2>4 DEF WriteIdeData
    <3> QED BY <2>2, <3>1, WrittenTight
  <2> QED BY <2>3, <2>4
<1>3. CASE ~(ide.drq /\ ~ide.slave /\ ide.xfer /\ ide.in)
  BY <1>1, <1>3 DEF WriteIdeData
<1> QED BY <1>2, <1>3

LEMMA PacketTight ==
  ASSUME IdeBounds, NEW pkt \in Packets, WritePacket(pkt)
  PROVE  ide' \in TightRegs /\ AskedTight(job')
<1> DEFINE e == [ide EXCEPT !.packet.off = @ + 1]
<1>1. /\ ide' = WriteIdeData(ide, Blank, pkt) /\ ide \in TightRegs
      /\ ide.packet.phase = "command"
      /\ ide'.packet.phase = "command" => job' = job
      /\ ide'.packet.phase # "command" => job'.cmd = job.cmd
  BY DEF WritePacket, IdeBounds, IdeInv, Jobs
<1>2. CASE ide.slave \/ ~ide.drq
  <2>1. ide' = ide
    BY <1>1, <1>2 DEF WriteIdeData
  <2> QED BY <1>1, <2>1 DEF IdeBounds
<1>3. CASE ~ide.slave /\ ide.drq
  <2>1. \/ ide' = e /\ e.packet.off < PacketWords
        \/ ide' = ExecutePacket(e, pkt)
    BY <1>1, <1>3 DEF WriteIdeData
  <2>2. ide' \in TightRegs
    BY <1>1, <2>1, ExecutedTight
  <2>3. ~ide.xfer /\ job.cmd = "packet"
    BY <1>1, <1>3 DEF IdeBounds, IdeInv, Tidy, Course, IdeRegs, Asks
  <2> QED BY <1>1, <2>2, <2>3 DEF IdeBounds, AskedTight
<1> QED BY <1>2, <1>3

LEMMA IssueTight ==
  ASSUME IdeBounds, NEW r \in Requests(hdGuest), IssueCommand(r)
  PROVE  ide' \in TightRegs /\ AskedTight(job') /\ commands' \in 0 .. MaxCommands
<1>1. ide' \in TightRegs
  BY CommandTight DEF IdeBounds, IssueCommand
<1>2. commands' \in 0 .. MaxCommands
  <2>1. commands \in 0 .. MaxCommands /\ MaxCommands \in Nat
    BY HostAssumption DEF IdeBounds
  <2>2. r.cmd \notin Unlimited => commands > 0
    BY DEF IssueCommand
  <2>3. commands' = IF r.cmd \in Unlimited THEN commands ELSE commands - 1
    BY DEF IssueCommand
  <2> QED BY <2>1, <2>2, <2>3
<1>3. AskedTight(JobOf(r))
  <2>1. /\ r.count \in 0 .. Most
        /\ r.cmd \in DiskReads \cup DiskWrites => r.count \in 0 .. CountBase - 1
    BY RequestBounds
  <2>2. r.cmd \in DiskReads \cup DiskWrites =>
          Effective(r.count) \in 0 .. Most /\ Effective48(r.count) \in 0 .. Most
    BY <2>1, TightCounts
  <2>3. 1 \in 0 .. Most
    BY TightFirst
  <2>4. JobOf(r).cmd = r.cmd
    BY DEF JobOf
  <2>5. r.cmd # "packet" =>
          JobOf(r).asked \in {Effective48(r.count) * SectorWords,
                              Effective(r.count) * SectorWords, 1 * SectorWords}
    BY DEF JobOf
  <2>6. CASE r.cmd \in DiskReads \cup DiskWrites
    BY <2>2, <2>3, <2>4, <2>5, <2>6 DEF AskedTight
  <2>7. CASE r.cmd \notin DiskReads \cup DiskWrites
    <3>1. r.cmd # "packet" => JobOf(r).asked = 1 * SectorWords
      BY <2>7 DEF JobOf, DiskReads, DiskWrites
    <3> QED BY <2>3, <2>4, <3>1 DEF AskedTight
  <2> QED BY <2>6, <2>7
<1>4. job' \in {job, JobOf(r)}
  BY DEF IssueCommand
<1> QED BY <1>1, <1>2, <1>3, <1>4 DEF IdeBounds

LEMMA RestTight ==
  ASSUME IdeBounds,
         \/ ReadStatus
         \/ \E srst, nien \in BOOLEAN : StoreDevCtrl(srst, nien)
         \/ \E slave \in BOOLEAN : StoreDrive(slave)
         \/ ResetMachine \/ ChangeMedium
  PROVE  ide' \in TightRegs /\ UNCHANGED <<commands, job>>
<1>1. ide \in TightRegs
  BY DEF IdeBounds
<1>2. ASSUME NEW d \in TightRegs
      PROVE  ResetReady(d) \in TightRegs
  BY NewIdeTight DEF ResetReady, TightRegs
<1>3. CASE ReadStatus
  <2>1. [ide EXCEPT !.irq = FALSE] \in TightRegs
    BY <1>1 DEF TightRegs
  <2> QED BY <1>1, <1>3, <2>1 DEF ReadStatus, ReadIdeStatus
<1>4. ASSUME NEW srst \in BOOLEAN, NEW nien \in BOOLEAN, StoreDevCtrl(srst, nien)
      PROVE  ide' \in TightRegs /\ UNCHANGED <<commands, job>>
  <2> DEFINE e == [ide EXCEPT !.srst = srst, !.nien = nien]
             b == Present(ide)
             f == [e EXCEPT !.bsy = b, !.drq = FALSE, !.err = FALSE, !.irq = FALSE]
             g == [e EXCEPT !.irq = FALSE]
  <2>1. b \in BOOLEAN /\ e \in TightRegs
    <3>1. b \in BOOLEAN
      BY DEF Present
    <3>2. e \in TightRegs
      BY <1>1, ZenonT(60) DEF TightRegs
    <3> QED BY <3>1, <3>2
  <2>2. ide' \in {e, f, g, ResetReady(e)} /\ UNCHANGED <<commands, job>>
    BY <1>4 DEF StoreDevCtrl, WriteDevCtrl
  <2> HIDE DEF b, e
  <2>3. f \in TightRegs
    BY <2>1, ZenonT(60) DEF TightRegs
  <2>4. g \in TightRegs
    BY <2>1, ZenonT(60) DEF TightRegs
  <2> HIDE DEF f, g
  <2> QED BY <1>2, <2>1, <2>2, <2>3, <2>4
<1>5. ASSUME NEW slave \in BOOLEAN, StoreDrive(slave)
      PROVE  ide' \in TightRegs /\ UNCHANGED <<commands, job>>
  <2>1. [ide EXCEPT !.slave = slave] \in TightRegs
    BY <1>1 DEF TightRegs
  <2> QED BY <1>5, <2>1 DEF StoreDrive, SelectDrive
<1>6. CASE ResetMachine
  BY <1>1, <1>2, <1>6 DEF ResetMachine, ResetIde
<1>7. CASE ChangeMedium
  <2>1. FactoryImage \in [Lbas -> Contents]
    BY DEF FactoryImage, Contents
  <2>2. ASSUME NEW image \in {FactoryImage, NoMedium}
        PROVE  [ide EXCEPT !.image = image] \in TightRegs
    BY <1>1, <2>1, <2>2 DEF TightRegs
  <2>3. ide' \in {ide, [ide EXCEPT !.image = FactoryImage],
                  [ide EXCEPT !.image = NoMedium]} /\ UNCHANGED <<commands, job>>
    BY <1>7 DEF ChangeMedium, LoadMedium, UnloadMedium
  <2> QED BY <1>1, <2>2, <2>3
<1> QED BY <1>3, <1>4, <1>5, <1>6, <1>7

LEMMA BoundsInit ==
  ASSUME StorageInit
  PROVE  IdeBounds
<1> DEFINE kind  == KindOf(hdGuest)
           image == IF kind = "none" THEN NoMedium ELSE FactoryImage
<1>1. kind \in {"ata", "packet", "none"}
  BY DEF KindOf
<1>2. FactoryImage \in [Lbas -> Contents]
  BY DEF FactoryImage, Contents
<1>3. image \in [Lbas -> Contents] \cup {NoMedium}
  BY <1>2
<1>4. ide = NewIde(kind, image) /\ job = NoJob /\ commands = MaxCommands
  BY DEF StorageInit, IdeInit
<1> HIDE DEF kind, image
<1>5. ide \in TightRegs
  BY <1>1, <1>3, <1>4, NewIdeTight
<1>6. AskedTight(job)
  BY <1>4, TightFirst, IdeAssumption, NextProduct DEF AskedTight, NoJob
<1> QED BY <1>4, <1>5, <1>6, InitSound, HostAssumption DEF IdeBounds

LEMMA BoundsStep ==
  ASSUME IdeBounds, [StorageNext]_storageVars
  PROVE  IdeBounds'
<1>1. IdeInv'
  BY StepSound DEF IdeBounds
<1>2. ide' \in TightRegs /\ AskedTight(job') /\ commands' \in 0 .. MaxCommands
  <2>1. CASE UNCHANGED ideVars
    BY <2>1 DEF ideVars, IdeBounds
  <2>2. CASE IdeNext
    <3>1. CASE \E r \in Requests(hdGuest) : IssueCommand(r)
      BY <3>1, IssueTight
    <3>2. CASE ReadDataPort \/ WriteDataPort
      <4>1. job'.cmd = job.cmd /\ job'.asked = job.asked /\ commands' = commands
        BY <3>2 DEF ReadDataPort, WriteDataPort, Progress, IdeBounds, IdeInv, Jobs
      <4>2. ide' \in TightRegs
        BY <3>2, ReadTight, WriteTight
      <4> QED BY <4>1, <4>2 DEF IdeBounds, AskedTight
    <3>3. CASE \E pkt \in Packets : WritePacket(pkt)
      BY <3>3, PacketTight DEF WritePacket, IdeBounds
    <3>4. CASE \/ ReadStatus
               \/ \E srst, nien \in BOOLEAN : StoreDevCtrl(srst, nien)
               \/ \E slave \in BOOLEAN : StoreDrive(slave)
               \/ ResetMachine \/ ChangeMedium
      BY <3>4, RestTight DEF IdeBounds
    <3> QED BY <2>2, <3>1, <3>2, <3>3, <3>4 DEF IdeNext
  <2> QED BY <2>1, <2>2 DEF StorageNext, storageVars
<1> QED BY <1>1, <1>2 DEF IdeBounds

LEMMA BoundsTyped == IdeBounds => IdeTypeOK
<1> SUFFICES ASSUME IdeBounds
             PROVE  IdeTypeOK
  OBVIOUS
<1>1. ide \in TightRegs /\ commands \in 0 .. MaxCommands
  BY DEF IdeBounds
<1>2. /\ ide.packet \in PacketState /\ ide.packet.off <= ide.packet.len + PacketWords
  BY <1>1 DEF TightRegs, TightPackets
<1>3. /\ ide.packet.phase \in {"idle", "command", "data_in"}
      /\ ide.packet.off \in 0 .. ide.packet.len + PacketWords
  BY <1>2, IdeAssumption DEF PacketState
<1>4. {ide.pio, ide.buffer} \subseteq Contents
  BY <1>1 DEF TightRegs
<1> QED BY <1>1, <1>3, <1>4 DEF IdeTypeOK, TightRegs, Most

----------------------------------------------------------------------------
(* The DMA controller.                                                      *)

Digit == 0 .. Radix - 1

LEMMA Digits ==
  ASSUME NEW n \in Nat \ {0}, NEW high \in 0 .. n - 1, NEW low \in 0 .. n - 1
  PROVE  high * n + low \in 0 .. n * n - 1
<1>1. high + 1 <= n /\ high + 1 \in Nat
  OBVIOUS
<1>2. (high + 1) * n <= n * n
  BY <1>1
<1>3. (high + 1) * n = high * n + n /\ high * n \in Nat /\ n * n \in Nat
  OBVIOUS
<1> QED BY <1>2, <1>3

LEMMA DigitsOf ==
  ASSUME NEW n \in Nat \ {0}, NEW x \in 0 .. n * n - 1
  PROVE  x \div n \in 0 .. n - 1 /\ x % n \in 0 .. n - 1
<1>1. n * n \in Nat /\ x \in Nat
  OBVIOUS
<1>2. /\ x \div n \in Nat /\ x % n \in 0 .. n - 1
      /\ x = (n * (x \div n)) + (x % n)
  BY <1>1
<1>3. x \div n < n
  <2>1. ASSUME x \div n >= n
        PROVE  FALSE
    <3>1. n * (x \div n) >= n * n
      BY <1>2, <2>1
    <3>2. n * (x \div n) \in Nat
      BY <1>2
    <3> QED BY <1>1, <1>2, <3>1, <3>2
  <2> QED BY <1>2, <2>1
<1> QED BY <1>2, <1>3

LEMMA WithDigitTyped ==
  ASSUME NEW reg \in Word16, NEW high \in BOOLEAN, NEW byte \in Digit
  PROVE  WithDigit(reg, high, byte) \in Word16
<1>1. Radix \in Nat \ {0}
  BY DmaAssumption
<1>2. reg % Radix \in Digit /\ reg \div Radix \in Digit
  BY <1>1, DigitsOf DEF Word16, Digit
<1>3. /\ (byte * Radix) + (reg % Radix) \in Word16
      /\ (reg \div Radix) * Radix + byte \in Word16
  BY <1>1, <1>2, Digits DEF Word16, Digit
<1> QED BY <1>3 DEF WithDigit

LEMMA Registers ==
  ASSUME NEW d \in DmaController, NEW c \in DmaChannels
  PROVE  /\ d = [d EXCEPT !.flipFlop = @]
         /\ d.flipFlop \in BOOLEAN
         /\ d.channels \in [DmaChannels -> DmaChannel]
         /\ d.channels[c] \in DmaChannel
         /\ d.channels[c].mode \in Modes
         /\ {d.tc, d.request, d.mask} \subseteq SUBSET DmaChannels
         /\ d.page \in [DmaChannels -> 0 .. DmaPages - 1]
BY DEF DmaController, DmaChannel

LEMMA ChannelLoaded ==
  ASSUME NEW k \in DmaChannel, NEW x \in Word16, NEW y \in Word16
  PROVE  /\ [k EXCEPT !.addr = x, !.baseAddr = y] \in DmaChannel
         /\ [k EXCEPT !.count = x, !.baseCount = y] \in DmaChannel
         /\ [k EXCEPT !.addr = x, !.count = y] \in DmaChannel
BY DEF DmaChannel

LEMMA AddrByteTyped ==
  ASSUME NEW d \in DmaController, NEW c \in DmaChannels, NEW byte \in Digit
  PROVE  LET e == WriteAddrByte(d, c, byte) IN e \in DmaController /\ e.mask = d.mask
<1> DEFINE ch == d.channels[c]
           k  == [ch EXCEPT !.addr = WithDigit(ch.addr, d.flipFlop, byte),
                            !.baseAddr = WithDigit(ch.baseAddr, d.flipFlop, byte)]
<1>1. /\ WithDigit(ch.addr, d.flipFlop, byte) \in Word16
      /\ WithDigit(ch.baseAddr, d.flipFlop, byte) \in Word16
  BY Registers, WithDigitTyped DEF DmaChannel
<1>2. k \in DmaChannel
  BY <1>1, Registers, ChannelLoaded
<1> DEFINE high == ~d.flipFlop
<1>3. WriteAddrByte(d, c, byte) = [d EXCEPT !.flipFlop = high, !.channels[c] = k]
  BY DEF WriteAddrByte
<1>4. high \in BOOLEAN
  BY Registers
<1> HIDE DEF k, high
<1>5. LET e == [d EXCEPT !.flipFlop = high, !.channels[c] = k]
      IN e \in DmaController /\ e.mask = d.mask
  BY <1>2, <1>4 DEF DmaController
<1> QED BY <1>3, <1>5

LEMMA CountByteTyped ==
  ASSUME NEW d \in DmaController, NEW c \in DmaChannels, NEW byte \in Digit
  PROVE  LET e == WriteCountByte(d, c, byte) IN e \in DmaController /\ e.mask = d.mask
<1> DEFINE ch == d.channels[c]
           k  == [ch EXCEPT !.count = WithDigit(ch.count, d.flipFlop, byte),
                            !.baseCount = WithDigit(ch.baseCount, d.flipFlop, byte)]
<1>1. /\ WithDigit(ch.count, d.flipFlop, byte) \in Word16
      /\ WithDigit(ch.baseCount, d.flipFlop, byte) \in Word16
  BY Registers, WithDigitTyped DEF DmaChannel
<1>2. k \in DmaChannel
  BY <1>1, Registers, ChannelLoaded
<1> DEFINE high == ~d.flipFlop
<1>3. WriteCountByte(d, c, byte) = [d EXCEPT !.flipFlop = high, !.channels[c] = k]
  BY DEF WriteCountByte
<1>4. high \in BOOLEAN
  BY Registers
<1> HIDE DEF k, high
<1>5. LET e == [d EXCEPT !.flipFlop = high, !.channels[c] = k]
      IN e \in DmaController /\ e.mask = d.mask
  BY <1>2, <1>4 DEF DmaController
<1> QED BY <1>3, <1>5

LEMMA OtherRegisters ==
  ASSUME NEW d \in DmaController, NEW c \in DmaChannels, NEW on \in BOOLEAN,
         NEW mode \in Modes, NEW page \in 0 .. DmaPages - 1
  PROVE  /\ ReadRegisterByte(d) \in DmaController /\ ReadRegisterByte(d).mask = d.mask
         /\ ReadDmaStatus(d) \in DmaController /\ ReadDmaStatus(d).mask = d.mask
         /\ ClearFlipFlop(d) \in DmaController /\ ClearFlipFlop(d).mask = d.mask
         /\ WriteRequest(d, c, on) \in DmaController
         /\ WriteMaskBit(d, c, on) \in DmaController
         /\ WriteMode(d, c, mode) \in DmaController
         /\ WritePage(d, c, page) \in DmaController
<1>1. ReadRegisterByte(d) \in DmaController /\ ReadRegisterByte(d).mask = d.mask
  <2> DEFINE high == ~d.flipFlop
  <2>1. ReadRegisterByte(d) = [d EXCEPT !.flipFlop = high] /\ high \in BOOLEAN
    BY Registers DEF ReadRegisterByte
  <2> HIDE DEF high
  <2> QED BY <2>1 DEF DmaController
<1>2. ReadDmaStatus(d) \in DmaController /\ ReadDmaStatus(d).mask = d.mask
  BY DEF ReadDmaStatus, DmaController
<1>3. ClearFlipFlop(d) \in DmaController /\ ClearFlipFlop(d).mask = d.mask
  BY DEF ClearFlipFlop, DmaController
<1>4. WriteRequest(d, c, on) \in DmaController
  <2> DEFINE s == IF on THEN d.request \cup {c} ELSE d.request \ {c}
  <2>1. WriteRequest(d, c, on) = [d EXCEPT !.request = s] /\ s \in SUBSET DmaChannels
    BY Registers DEF WriteRequest
  <2> HIDE DEF s
  <2> QED BY <2>1 DEF DmaController
<1>5. WriteMaskBit(d, c, on) \in DmaController
  <2> DEFINE s == IF on THEN d.mask \cup {c} ELSE d.mask \ {c}
  <2>1. WriteMaskBit(d, c, on) = [d EXCEPT !.mask = s] /\ s \in SUBSET DmaChannels
    BY Registers DEF WriteMaskBit
  <2> HIDE DEF s
  <2> QED BY <2>1 DEF DmaController
<1>6. WriteMode(d, c, mode) \in DmaController
  <2> DEFINE m == [mode EXCEPT !.sel = c]
             k == [d.channels[c] EXCEPT !.mode = m]
  <2>1. m \in Modes
    BY DmaAssumption DEF Modes
  <2> HIDE DEF m
  <2>2. k \in DmaChannel
    BY <2>1, Registers DEF DmaChannel
  <2>3. WriteMode(d, c, mode) = [d EXCEPT !.channels[c] = k]
    BY DEF WriteMode, m
  <2> HIDE DEF k
  <2> QED BY <2>2, <2>3 DEF DmaController
<1>7. WritePage(d, c, page) \in DmaController
  BY DEF WritePage, DmaController
<1> QED BY <1>1, <1>2, <1>3, <1>4, <1>5, <1>6, <1>7

LEMMA ResetDmaTyped ==
  /\ ResetDma \in DmaController /\ ResetDma.mask = DmaChannels
  /\ \A d \in DmaController :
       MasterClear(d) \in DmaController /\ MasterClear(d).mask = DmaChannels
<1>1. 0 \in Word16 /\ 0 \in 0 .. DmaPages - 1 /\ ResetMode \in Modes
  <2>1. Radix * Radix >= 1 /\ Radix * Radix \in Nat
    BY DmaAssumption
  <2> QED BY <2>1, DmaAssumption DEF Word16, ResetMode, Modes
<1>2. [addr |-> 0, count |-> 0, baseAddr |-> 0, baseCount |-> 0, mode |-> ResetMode]
        \in DmaChannel
  BY <1>1 DEF DmaChannel
<1>3. ResetDma \in DmaController /\ ResetDma.mask = DmaChannels
  BY <1>1, <1>2 DEF ResetDma, DmaController
<1>4. ASSUME NEW d \in DmaController
      PROVE  MasterClear(d) \in DmaController /\ MasterClear(d).mask = DmaChannels
  <2>1. d.page \in [DmaChannels -> 0 .. DmaPages - 1]
    BY DEF DmaController
  <2> QED BY <1>3, <2>1 DEF MasterClear, DmaController
<1> QED BY <1>3, <1>4

(* Where a block lies.                                                      *)
LEMMA PageBytes ==
  PageSize = Radix * Radix /\ PageSize \in Nat \ {0} /\ MemorySize \in Nat
  /\ Word16 = 0 .. PageSize - 1 /\ LastCount \in Word16
<1>1. Radix * Radix \in Nat /\ Radix * Radix >= 1
  BY DmaAssumption
<1>2. PageSize = Radix * Radix
  BY <1>1 DEF PageSize, LastCount
<1>3. DmaPages * PageSize \in Nat
  BY <1>1, <1>2, DmaAssumption
<1> QED BY <1>1, <1>2, <1>3 DEF MemorySize, Word16, LastCount

LEMMA Remainder ==
  ASSUME NEW x \in Nat, NEW n \in Nat \ {0}
  PROVE  x % n \in 0 .. n - 1
BY SMT

LEMMA StepAddrTyped ==
  ASSUME NEW d \in DmaController, NEW c \in DmaChannels, NEW n \in 0 .. PageSize
  PROVE  StepAddr(d, c, n) \in Word16
<1>1. d.channels[c].addr \in 0 .. PageSize - 1
  BY Registers, PageBytes DEF DmaChannel
<1>2. d.channels[c].addr + PageSize - n \in Nat /\ d.channels[c].addr + n \in Nat
  BY <1>1, PageBytes, SMTT(30)
<1>3. /\ (d.channels[c].addr + PageSize - n) % PageSize \in 0 .. PageSize - 1
      /\ (d.channels[c].addr + n) % PageSize \in 0 .. PageSize - 1
  <2> DEFINE x == d.channels[c].addr + PageSize - n
             y == d.channels[c].addr + n
  <2> HIDE DEF x, y
  <2>1. x % PageSize \in 0 .. PageSize - 1 /\ y % PageSize \in 0 .. PageSize - 1
    <3>1. x \in Nat /\ y \in Nat /\ PageSize \in Nat \ {0}
      BY <1>2, PageBytes DEF x, y
    <3> QED BY <3>1, Remainder
  <2> QED BY <2>1 DEF x, y
<1> QED BY <1>3, PageBytes DEF StepAddr

LEMMA InPage ==
  ASSUME NEW n \in Nat \ {0}, NEW size \in Nat, NEW page \in 0 .. n - 1,
         NEW off \in 0 .. size - 1
  PROVE  page * size + off \in 0 .. n * size - 1
<1>1. page + 1 <= n /\ page + 1 \in Nat
  OBVIOUS
<1>2. (page + 1) * size <= n * size
  BY <1>1
<1>3. (page + 1) * size = page * size + size /\ page * size \in Nat /\ n * size \in Nat
  OBVIOUS
<1> QED BY <1>2, <1>3

LEMMA UnitsTyped ==
  ASSUME NEW d \in DmaController, NEW c \in DmaChannels
  PROVE  Units(d, c) \in 1 .. PageSize
BY Registers, PageBytes DEF Units, DmaChannel

LEMMA BytesInMemory ==
  ASSUME NEW d \in DmaController, NEW c \in DmaChannels
  PROVE  \A n \in 1 .. Units(d, c) : ByteAddr(d, c, n) \in Addresses
<1> SUFFICES ASSUME NEW n \in 1 .. Units(d, c)
             PROVE  ByteAddr(d, c, n) \in Addresses
  OBVIOUS
<1>1. n - 1 \in 0 .. PageSize
  BY UnitsTyped, PageBytes
<1>2. StepAddr(d, c, n - 1) \in 0 .. PageSize - 1
  BY <1>1, StepAddrTyped, PageBytes
<1>3. d.page[c] \in 0 .. DmaPages - 1
  BY Registers
<1>4. d.page[c] * PageSize + StepAddr(d, c, n - 1) \in 0 .. DmaPages * PageSize - 1
  BY <1>2, <1>3, PageBytes, DmaAssumption, InPage
<1> QED BY <1>4 DEF ByteAddr, Addresses, MemorySize

LEMMA TerminalCountTyped ==
  ASSUME NEW d \in DmaController, NEW c \in DmaChannels
  PROVE  LET e == TerminalCount(d, c) IN
         /\ e \in DmaController
         /\ c \notin e.mask => d.channels[c].mode.auto /\ c \notin d.mask
<1> DEFINE ch == d.channels[c]
           t  == d.tc \cup {c}
           u  == d.mask \cup {c}
           k  == [ch EXCEPT !.addr = ch.baseAddr, !.count = ch.baseCount]
           m  == [ch EXCEPT !.addr = StepAddr(d, c, Units(d, c)), !.count = LastCount]
<1>1. k \in DmaChannel /\ m \in DmaChannel
  <2>1. ch \in DmaChannel /\ ch.baseAddr \in Word16 /\ ch.baseCount \in Word16
    BY Registers DEF DmaChannel
  <2>2. StepAddr(d, c, Units(d, c)) \in Word16
    BY UnitsTyped, StepAddrTyped, PageBytes
  <2> QED BY <2>1, <2>2, PageBytes, ChannelLoaded
<1>2. t \in SUBSET DmaChannels /\ u \in SUBSET DmaChannels
  BY Registers
<1>3. /\ ch.mode.auto => TerminalCount(d, c) = [d EXCEPT !.tc = t, !.channels[c] = k]
      /\ ~ch.mode.auto =>
           TerminalCount(d, c) = [d EXCEPT !.tc = t, !.mask = u, !.channels[c] = m]
  BY DEF TerminalCount
<1>4. c \in u
  OBVIOUS
<1> HIDE DEF t, u, k, m
<1>5. CASE ch.mode.auto
  <2>1. /\ [d EXCEPT !.tc = t, !.channels[c] = k] \in DmaController
        /\ [d EXCEPT !.tc = t, !.channels[c] = k].mask = d.mask
    BY <1>1, <1>2 DEF DmaController
  <2> QED BY <1>3, <1>5, <2>1
<1>6. CASE ~ch.mode.auto
  <2>1. /\ [d EXCEPT !.tc = t, !.mask = u, !.channels[c] = m] \in DmaController
        /\ [d EXCEPT !.tc = t, !.mask = u, !.channels[c] = m].mask = u
    BY <1>1, <1>2 DEF DmaController
  <2> QED BY <1>3, <1>4, <1>6, <2>1
<1> QED BY <1>5, <1>6

----------------------------------------------------------------------------
(* The controller's registers.                                              *)

Phase == [kind : {"command", "params", "result"}, cmd : Commands \cup {"none"},
          left : Nat]

Sector == [1 .. SectorBytes -> Byte]

Transfer == [kind : {"read", "write"}, p : Params, data : Seq(Byte)]

FdConfig == [eis : BOOLEAN, fifo : BOOLEAN, pretrk : BOOLEAN]

FdRegs ==
  [released : BOOLEAN, dma : BOOLEAN, phase : Phase, mt : BOOLEAN, irq : BOOLEAN,
   seekEnd : 0 .. FddUnits, resetSense : 0 .. FddUnits, releaseOwed : BOOLEAN,
   pcn : [Units4 -> 0 .. MaxCylinder], readId : [Units4 -> 0 .. TrackSectors - 1],
   config : FdConfig, lock : BOOLEAN, answer : Answer,
   pending : {NoTransfer} \cup Transfer, lastWrite : Seq(Byte),
   image : [Cells -> Sector], media : BOOLEAN, wp : BOOLEAN, changed : BOOLEAN]

(* Nothing is done in reset; a phase that is not over has a byte left; the  *)
(* end of a seek is told after a reset's statuses.                          *)
Phased(f) ==
  /\ f.phase.kind = "command" => f.phase = CommandPhase
  /\ f.phase.kind # "command" => f.released /\ f.phase.left >= 1
  /\ f.phase.kind = "result" /\ f.phase.cmd = "sense_int" /\ f.answer.code = "seek_end" =>
       f.resetSense = FddUnits

(* What a data command does not touch.                                      *)
Beside(f, e) ==
  /\ e.released = f.released /\ e.dma = f.dma /\ e.mt = f.mt
  /\ e.seekEnd = f.seekEnd /\ e.resetSense = f.resetSense
  /\ e.media = f.media /\ e.wp = f.wp

LEMMA FdFirstValues ==
  /\ 0 \in Units4 /\ 0 \in Heads /\ NoAnswer \in Answer /\ CommandPhase \in Phase
  /\ CommandPhase.kind = "command" /\ CommandPhase.cmd = "none"
  /\ NoUnit \in 0 .. FddUnits /\ 0 \in 0 .. FddUnits
  /\ ResetConfig \in FdConfig /\ <<>> \in Seq(Byte)
  /\ [u \in Units4 |-> 0] \in [Units4 -> 0 .. MaxCylinder]
  /\ [u \in Units4 |-> 0] \in [Units4 -> 0 .. TrackSectors - 1]
<1>1. 0 \in Units4 /\ 0 \in Heads /\ FddUnits \in Nat /\ MaxCylinder \in Nat
      /\ 0 \in 0 .. TrackSectors - 1
  BY FdcAssumption DEF Units4, Heads
<1> QED BY <1>1 DEF NoAnswer, Answer, Codes, CommandPhase, Phase, NoUnit, ResetConfig,
               FdConfig

LEMMA NoTransferIsNone ==
  NoTransfer \notin Transfer
<1>1. NoTransfer.kind = "none"
  BY DEF NoTransfer
<1> QED BY <1>1 DEF Transfer

LEMMA ResetFdcTyped ==
  ASSUME NEW image \in [Cells -> Sector], NEW media \in BOOLEAN, NEW wp \in BOOLEAN,
         NEW changed \in BOOLEAN
  PROVE  LET e == ResetFdc(image, media, wp, changed) IN
         /\ e \in FdRegs /\ Phased(e) /\ e.pending = NoTransfer
         /\ e.image = image /\ ~e.irq /\ e.seekEnd = NoUnit /\ ~e.released /\ ~e.releaseOwed
<1> DEFINE e == ResetFdc(image, media, wp, changed)
<1>1. e \in FdRegs
  <2> DEFINE u == [x \in Units4 |-> 0]
  <2>1. /\ u \in [Units4 -> 0 .. MaxCylinder] /\ u \in [Units4 -> 0 .. TrackSectors - 1]
        /\ FddUnits \in 0 .. FddUnits
    BY FdFirstValues DEF NoUnit
  <2>2. e = [released |-> FALSE, dma |-> FALSE, phase |-> CommandPhase, mt |-> FALSE,
             irq |-> FALSE, seekEnd |-> NoUnit, resetSense |-> FddUnits,
             releaseOwed |-> FALSE, pcn |-> u, readId |-> u, config |-> ResetConfig,
             lock |-> FALSE, answer |-> NoAnswer, pending |-> NoTransfer,
             lastWrite |-> <<>>, image |-> image, media |-> media, wp |-> wp,
             changed |-> changed]
    BY DEF ResetFdc
  <2> HIDE DEF u, e
  <2> QED BY <2>1, <2>2, FdFirstValues DEF FdRegs
<1>2. /\ e.pending = NoTransfer /\ e.phase = CommandPhase /\ e.image = image
      /\ ~e.irq /\ e.seekEnd = NoUnit /\ ~e.released /\ ~e.releaseOwed
  BY DEF ResetFdc
<1>3. Phased(e)
  BY <1>2, FdFirstValues DEF Phased
<1> QED BY <1>1, <1>2, <1>3

LEMMA SoftwareResetFacts ==
  ASSUME NEW f \in FdRegs
  PROVE  LET e == SoftwareReset(f) IN
         /\ e \in FdRegs /\ e.phase = CommandPhase /\ e.pending = NoTransfer
         /\ ~e.irq /\ e.seekEnd = NoUnit
         /\ e.released = f.released /\ e.dma = f.dma
<1> DEFINE c == LockedConfig(f)
           u == [x \in Units4 |-> 0]
           e == [f EXCEPT !.irq = FALSE, !.phase = CommandPhase, !.seekEnd = NoUnit,
                          !.resetSense = FddUnits, !.mt = FALSE, !.pcn = u, !.readId = u,
                          !.answer = NoAnswer, !.pending = NoTransfer, !.lastWrite = <<>>,
                          !.config = c]
<1>1. SoftwareReset(f) = e
  BY DEF SoftwareReset
<1>2. c \in FdConfig
  BY FdFirstValues DEF LockedConfig, FdRegs, FdConfig
<1>3. u \in [Units4 -> 0 .. MaxCylinder] /\ u \in [Units4 -> 0 .. TrackSectors - 1]
      /\ FddUnits \in 0 .. FddUnits
  BY FdFirstValues DEF NoUnit
<1> HIDE DEF c, u
<1>4. e \in FdRegs
  BY ZenonT(60), <1>2, <1>3, FdFirstValues DEF FdRegs
<1>5. /\ e.phase = CommandPhase /\ e.pending = NoTransfer /\ ~e.irq /\ e.seekEnd = NoUnit
      /\ e.released = f.released /\ e.dma = f.dma
  BY DEF FdRegs
<1> QED BY <1>1, <1>4, <1>5

(* Between accesses no transfer is armed.                                   *)
Settled(f) == f \in FdRegs /\ f.pending = NoTransfer /\ Phased(f)

LEMMA ResetDoneFacts ==
  ASSUME NEW f \in FdRegs, f.phase = CommandPhase
  PROVE  LET e == ResetDone(f) IN
         /\ e \in FdRegs /\ e.phase = CommandPhase /\ e.pending = f.pending
         /\ e.irq /\ e.seekEnd = f.seekEnd
         /\ e.released = f.released /\ e.dma = f.dma
<1>1. ResetDone(f) \in FdRegs
  BY FdFirstValues DEF ResetDone, FdRegs
<1> QED BY <1>1 DEF ResetDone, FdRegs

LEMMA CommandPhased ==
  ASSUME NEW f, f.phase = CommandPhase
  PROVE  Phased(f)
BY FdFirstValues DEF Phased

LEMMA WriteDorFacts ==
  ASSUME NEW f \in FdRegs, f.pending = NoTransfer, Phased(f),
         NEW released \in BOOLEAN, NEW enable \in BOOLEAN
  PROVE  LET e == WriteDor(f, released, enable) IN
         /\ Settled(e) /\ e.dma = enable
         /\ ~released /\ f.released => ~e.irq /\ e.seekEnd = NoUnit
         /\ released /\ ~f.released /\ f.releaseOwed => e.irq /\ e.released
         /\ ~(~released /\ f.released) /\ ~(released /\ ~f.released /\ f.releaseOwed) =>
              e.irq = f.irq /\ e.seekEnd = f.seekEnd
<1> DEFINE g == [f EXCEPT !.released = released, !.dma = enable]
           x == SoftwareReset(g)
           h == [g EXCEPT !.releaseOwed = FALSE]
           r == [x EXCEPT !.releaseOwed = TRUE]
           e == WriteDor(f, released, enable)
<1>1. g \in FdRegs
  BY DEF FdRegs
<1>2. /\ g.released = released /\ g.dma = enable /\ g.irq = f.irq /\ g.seekEnd = f.seekEnd
      /\ g.phase = f.phase /\ g.pending = f.pending /\ g.answer = f.answer
      /\ g.resetSense = f.resetSense
  BY DEF FdRegs
<1>3. /\ ~released /\ f.released => e = r
      /\ released /\ ~f.released /\ f.releaseOwed => e = ResetDone(h)
      /\ ~(~released /\ f.released) /\ ~(released /\ ~f.released /\ f.releaseOwed) => e = g
  BY DEF WriteDor
<1> HIDE DEF e, g
<1>4. CASE ~released /\ f.released
  <2>1. /\ x \in FdRegs /\ x.phase = CommandPhase /\ x.pending = NoTransfer
        /\ ~x.irq /\ x.seekEnd = NoUnit /\ x.dma = enable
    BY <1>1, <1>2, SoftwareResetFacts
  <2> HIDE DEF x
  <2>2. r \in FdRegs
    BY <2>1 DEF FdRegs
  <2>3. /\ r.phase = CommandPhase /\ r.pending = NoTransfer
        /\ ~r.irq /\ r.seekEnd = NoUnit /\ r.dma = enable
    BY <2>1 DEF FdRegs
  <2> HIDE DEF r
  <2>4. Settled(r)
    BY <2>2, <2>3, CommandPhased DEF Settled
  <2>5. e = r
    BY <1>3, <1>4
  <2> QED BY <1>4, <2>3, <2>4, <2>5 DEF e
<1>5. CASE released /\ ~f.released /\ f.releaseOwed
  <2>1. h \in FdRegs /\ h.released /\ h.dma = enable /\ h.phase = f.phase
        /\ h.pending = NoTransfer
    <3>1. h \in FdRegs
      BY <1>1 DEF FdRegs
    <3> QED BY <1>1, <1>2, <1>5, <3>1 DEF FdRegs
  <2> HIDE DEF h
  <2>2. f.phase = CommandPhase
    <3>1. f.phase.kind = "command"
      <4>1. f.phase.kind # "command" => f.released
        BY DEF Phased
      <4> QED BY <1>5, <4>1
    <3> QED BY <3>1 DEF Phased
  <2> DEFINE y == ResetDone(h)
  <2>3. /\ y \in FdRegs /\ y.phase = CommandPhase /\ y.pending = NoTransfer
        /\ y.irq /\ y.released /\ y.dma = enable
    BY <2>1, <2>2, ResetDoneFacts
  <2> HIDE DEF y
  <2>4. Settled(y)
    BY <2>3, CommandPhased DEF Settled
  <2>5. e = y
    BY <1>3, <1>5 DEF y
  <2> QED BY <1>5, <2>3, <2>4, <2>5 DEF e
<1>6. CASE ~(~released /\ f.released) /\ ~(released /\ ~f.released /\ f.releaseOwed)
  <2>1. f.released => released
    BY <1>6
  <2>2. Phased(g)
    BY <1>2, <2>1 DEF Phased
  <2>3. e = g
    BY <1>3, <1>6
  <2>4. Settled(g)
    BY <1>1, <1>2, <2>2 DEF Settled
  <2> QED BY <1>2, <1>6, <2>3, <2>4 DEF e
<1> HIDE DEF x, r, h
<1> QED BY <1>4, <1>5, <1>6

LEMMA WriteDsrFacts ==
  ASSUME NEW f \in FdRegs, f.released
  PROVE  LET e == WriteDsrReset(f) IN Settled(e) /\ e.irq /\ e.released
<1> DEFINE x == SoftwareReset(f)
<1>1. /\ x \in FdRegs /\ x.phase = CommandPhase /\ x.pending = NoTransfer /\ x.released
  BY SoftwareResetFacts
<1> HIDE DEF x
<1> QED BY <1>1, ResetDoneFacts, CommandPhased DEF WriteDsrReset, x, Settled

LEMMA SeekEndsFacts ==
  ASSUME NEW f \in FdRegs, f.pending = NoTransfer, NEW unit \in Units4,
         NEW cylinder \in 0 .. MaxCylinder
  PROVE  LET e == SeekEnds(f, unit, cylinder) IN
         /\ Settled(e) /\ e.irq /\ e.seekEnd = unit /\ e.released = f.released
         /\ e.dma = f.dma
<1> DEFINE n == [f.pcn EXCEPT ![unit] = cylinder]
           c == f.changed /\ ~f.media
           e == [f EXCEPT !.pcn = n, !.changed = c, !.seekEnd = unit, !.irq = TRUE,
                          !.phase = CommandPhase]
<1>1. SeekEnds(f, unit, cylinder) = e
  BY DEF SeekEnds
<1>2. n \in [Units4 -> 0 .. MaxCylinder] /\ c \in BOOLEAN /\ unit \in 0 .. FddUnits
  BY FdcAssumption DEF FdRegs, Units4
<1> HIDE DEF n, c
<1>3. e \in FdRegs
  BY ZenonT(60), <1>2, FdFirstValues DEF FdRegs
<1>4. /\ e.pending = f.pending /\ e.irq /\ e.seekEnd = unit /\ e.released = f.released
      /\ e.dma = f.dma /\ e.phase = CommandPhase
  BY DEF FdRegs
<1> HIDE DEF e
<1> QED BY <1>1, <1>3, <1>4, CommandPhased DEF Settled

LEMMA SteppedTyped ==
  ASSUME NEW f \in FdRegs, NEW unit \in Units4, NEW n \in Nat, NEW in \in BOOLEAN
  PROVE  Stepped(f, unit, n, in) \in 0 .. MaxCylinder
<1>1. f.pcn[unit] \in 0 .. MaxCylinder /\ MaxCylinder \in Nat
  BY FdcAssumption DEF FdRegs
<1> QED BY <1>1 DEF Stepped

LEMMA SenseInterruptFacts ==
  ASSUME NEW f \in FdRegs, f.pending = NoTransfer, f.released
  PROVE  LET e == SenseInterrupt(f) IN
         /\ Settled(e) /\ ~e.irq
         /\ e.answer.code # "seek_end" =>
              \/ e.seekEnd = f.seekEnd
              \/ f.seekEnd = NoUnit
<1> DEFINE queued == f.resetSense < FddUnits
           ended  == ~queued /\ f.seekEnd # NoUnit
           code   == IF ended THEN "seek_end" ELSE "ready_change"
           unit   == IF queued THEN f.resetSense ELSE IF ended THEN f.seekEnd ELSE 0
           a      == [NoAnswer EXCEPT !.code = code, !.unit = unit]
           next   == IF queued THEN f.resetSense + 1 ELSE f.resetSense
           seek   == IF queued THEN f.seekEnd ELSE NoUnit
           ph     == [CommandPhase EXCEPT !.kind = "result", !.cmd = "sense_int",
                                          !.left = 2]
           e      == [f EXCEPT !.answer = a, !.resetSense = next, !.seekEnd = seek,
                               !.irq = FALSE, !.phase = ph]
<1>1. SenseInterrupt(f) = e
  BY DEF SenseInterrupt
<1>2. /\ f.resetSense \in 0 .. FddUnits /\ f.seekEnd \in 0 .. FddUnits
      /\ FddUnits \in Nat \ {0}
  BY FdcAssumption DEF FdRegs
<1>3. /\ next \in 0 .. FddUnits /\ seek \in 0 .. FddUnits /\ unit \in Units4
      /\ code \in Codes
      /\ code = "seek_end" => next = FddUnits
      /\ code # "seek_end" => seek = f.seekEnd \/ f.seekEnd = NoUnit
  BY <1>2 DEF Units4, NoUnit, Codes
<1> HIDE DEF next, seek, unit, code
<1>4. a \in Answer /\ a.code = code
  BY <1>3, FdFirstValues DEF NoAnswer, Answer
<1>5. ph \in Phase /\ ph.kind = "result" /\ ph.left = 2 /\ ph.cmd = "sense_int"
  BY DEF CommandPhase, Phase, Commands
<1> HIDE DEF a, ph
<1>6. e \in FdRegs
  BY <1>3, <1>4, <1>5 DEF FdRegs
<1>7. /\ e.pending = f.pending /\ e.phase = ph /\ ~e.irq /\ e.answer = a
      /\ e.seekEnd = seek /\ e.resetSense = next /\ e.released = f.released
  BY DEF FdRegs
<1> HIDE DEF e
<1>8. Phased(e)
  BY <1>3, <1>4, <1>5, <1>7 DEF Phased
<1> QED BY <1>1, <1>3, <1>4, <1>6, <1>7, <1>8 DEF Settled

----------------------------------------------------------------------------
(* Spans of cells and their data.                                           *)

LEMMA FunctionIsSequence ==
  ASSUME NEW S, NEW n \in Nat, NEW s \in [1 .. n -> S]
  PROVE  s \in Seq(S) /\ Len(s) = n /\ DOMAIN s = 1 .. n
OBVIOUS

Places == Nat \X Heads \X Nat

LEMMA CellsArePlaces == Cells \subseteq Places
BY FdcAssumption DEF Cells, Places

LEMMA SpanTyped ==
  ASSUME NEW p \in Params, NEW mt \in BOOLEAN
  PROVE  /\ Span(p, mt) \in Seq(Places) /\ Len(Span(p, mt)) >= 1
         /\ \A i \in 1 .. Len(Span(p, mt)) : Span(p, mt)[i][1] = p.c
         /\ LastSector(p) \in Nat
<1> DEFINE n == LastSector(p) - p.r + 1
           m == LastSector(p)
           s == [i \in 1 .. n |-> <<p.c, p.h, p.r + i - 1>>]
           u == [i \in 1 .. m |-> <<p.c, 1, i>>]
           t == IF TwoHeads(p, mt) THEN u ELSE <<>>
<1>1. p.c \in Nat /\ p.h \in Heads /\ p.r \in Nat /\ p.eot \in Nat /\ 1 \in Heads
  BY FdcAssumption DEF Params, Heads
<1>2. m \in Nat /\ n \in Nat /\ n >= 1
  BY <1>1 DEF LastSector
<1> HIDE DEF n, m
<1>3. /\ s \in [1 .. n -> Places] /\ u \in [1 .. m -> Places]
      /\ \A i \in 1 .. n : s[i][1] = p.c
      /\ \A i \in 1 .. m : u[i][1] = p.c
  BY <1>1, <1>2 DEF Places
<1> HIDE DEF s, u
<1>4. s \in Seq(Places) /\ Len(s) = n /\ u \in Seq(Places) /\ Len(u) = m
  BY <1>2, <1>3, FunctionIsSequence
<1>5. /\ t \in Seq(Places) /\ Len(t) \in Nat
      /\ \A i \in 1 .. Len(t) : t[i][1] = p.c
  <2>1. CASE TwoHeads(p, mt)
    BY <1>2, <1>3, <1>4, <2>1
  <2>2. CASE ~TwoHeads(p, mt)
    BY <2>2
  <2> QED BY <2>1, <2>2
<1>6. Span(p, mt) = s \o t
  BY DEF Span, s, t, u, n, m
<1> HIDE DEF t
<1>7. /\ s \o t \in Seq(Places) /\ Len(s \o t) = n + Len(t)
      /\ \A i \in 1 .. n + Len(t) : (s \o t)[i] = IF i <= n THEN s[i] ELSE t[i - n]
  BY <1>4, <1>5, ConcatProperties
<1>8. ASSUME NEW i \in 1 .. n + Len(t)
      PROVE  (s \o t)[i][1] = p.c
  BY <1>2, <1>3, <1>5, <1>7, <1>8
<1> HIDE DEF s, t
<1> QED BY <1>2, <1>5, <1>6, <1>7, <1>8 DEF m

(* Bytes by sectors.                                                        *)
LEMMA Quotient ==
  ASSUME NEW x \in Nat, NEW n \in Nat \ {0}
  PROVE  /\ x \div n \in Nat /\ x % n \in 0 .. n - 1
         /\ x = (x \div n) * n + (x % n)
BY SMT

LEMMA ZeroQuotient ==
  ASSUME NEW n \in Nat \ {0}
  PROVE  0 \div n = 0
BY SMT

LEMMA QuotientBelow ==
  ASSUME NEW n \in Nat \ {0}, NEW k \in Nat, NEW x \in Nat, x < k * n
  PROVE  x \div n < k
<1>1. x \div n \in Nat /\ x % n \in 0 .. n - 1 /\ x = (x \div n) * n + (x % n)
  BY Quotient
<1> DEFINE q == x \div n
<1> HIDE DEF q
<1>2. q \in Nat /\ x >= q * n
  BY <1>1 DEF q
<1>3. ASSUME q >= k
      PROVE  FALSE
  <2>1. q * n >= k * n
    BY <1>2, <1>3
  <2> QED BY <1>2, <2>1
<1> QED BY <1>2, <1>3 DEF q

LEMMA SpanDataTyped ==
  ASSUME NEW f \in FdRegs, NEW span \in Seq(Places), Valid(span)
  PROVE  /\ SpanData(f, span) \in Seq(Byte)
         /\ Len(SpanData(f, span)) = Len(span) * SectorBytes
<1>1. Len(span) \in Nat /\ SectorBytes \in Nat \ {0} /\ Len(span) * SectorBytes \in Nat
  BY FdcAssumption
<1>2. ASSUME NEW b \in 1 .. Len(span) * SectorBytes
      PROVE  f.image[span[((b - 1) \div SectorBytes) + 1]][((b - 1) % SectorBytes) + 1]
               \in Byte
  <2> DEFINE q == (b - 1) \div SectorBytes
             r == (b - 1) % SectorBytes
  <2>1. b - 1 \in Nat /\ b - 1 < Len(span) * SectorBytes
    BY <1>1
  <2>2. q \in Nat /\ q < Len(span) /\ r \in 0 .. SectorBytes - 1
    BY <1>1, <2>1, Quotient, QuotientBelow
  <2> HIDE DEF q, r
  <2>3. q + 1 \in DOMAIN span /\ r + 1 \in 1 .. SectorBytes
    BY <1>1, <2>2
  <2>4. span[q + 1] \in Cells
    BY <2>3 DEF Valid
  <2>5. f.image[span[q + 1]] \in Sector
    BY <2>4 DEF FdRegs
  <2>6. f.image[span[q + 1]][r + 1] \in Byte
    BY <2>3, <2>5 DEF Sector
  <2> QED BY <2>6 DEF q, r
<1>3. SpanData(f, span) \in [1 .. Len(span) * SectorBytes -> Byte]
  BY <1>2 DEF SpanData
<1> QED BY <1>1, <1>3, FunctionIsSequence

LEMMA SectorOfTyped ==
  ASSUME NEW data \in Seq(Byte), NEW i \in Nat \ {0}, i * SectorBytes <= Len(data)
  PROVE  /\ SectorOf(data, i) \in Sector
         /\ \A b \in 1 .. SectorBytes :
              /\ (i - 1) * SectorBytes + b \in 1 .. Len(data)
              /\ SectorOf(data, i)[b] = data[(i - 1) * SectorBytes + b]
<1> DEFINE m == ((i - 1) * SectorBytes) + 1
           n == i * SectorBytes
<1>1. SectorBytes \in Nat \ {0}
  BY FdcAssumption
<1>2. i * SectorBytes = (i - 1) * SectorBytes + SectorBytes /\ (i - 1) * SectorBytes \in Nat
  BY <1>1
<1>3. m \in Int /\ n \in Int /\ m >= 1 /\ n = m + SectorBytes - 1 /\ n <= Len(data)
  BY <1>1, <1>2
<1>4. m = ((i - 1) * SectorBytes) + 1
  OBVIOUS
<1>5. SectorOf(data, i) = SubSeq(data, m, n)
  BY DEF SectorOf
<1> HIDE DEF m, n
<1>6. \A k \in m .. n : data[k] \in Byte
  BY <1>3
<1>7. /\ SubSeq(data, m, n) \in Seq(Byte)
      /\ Len(SubSeq(data, m, n)) = IF m <= n THEN n - m + 1 ELSE 0
      /\ \A b \in 1 .. n - m + 1 : SubSeq(data, m, n)[b] = data[m + b - 1]
  BY <1>3, <1>6, SubSeqProperties
<1>8. Len(SubSeq(data, m, n)) = SectorBytes /\ n - m + 1 = SectorBytes
  BY <1>1, <1>3, <1>7
<1>9. SectorOf(data, i) \in Sector
  BY <1>5, <1>7, <1>8, LenProperties DEF Sector
<1>10. ASSUME NEW b \in 1 .. SectorBytes
       PROVE  /\ (i - 1) * SectorBytes + b \in 1 .. Len(data)
              /\ SectorOf(data, i)[b] = data[(i - 1) * SectorBytes + b]
  <2>1. m + b - 1 = (i - 1) * SectorBytes + b
    BY <1>2, <1>4
  <2>2. m + b - 1 \in 1 .. Len(data)
    BY <1>1, <1>3
  <2> QED BY <1>5, <1>7, <1>8, <2>1, <2>2
<1> QED BY <1>9, <1>10

LEMMA WrittenAre ==
  ASSUME NEW f, NEW span, NEW count
  PROVE  \A i \in WrittenCells(f, span, count) : i \in 1 .. count
BY DEF WrittenCells

(* Sectors written change nothing but the image.                            *)
WroteOnly(f, e) ==
  /\ e \in FdRegs /\ Beside(f, e) /\ e.pending = f.pending /\ e.irq = f.irq
  /\ e.phase = f.phase /\ e.answer = f.answer

LEMMA WriteCellsFacts ==
  ASSUME NEW f \in FdRegs, NEW span, NEW count \in Nat, NEW data \in Seq(Byte),
         count * SectorBytes <= Len(data)
  PROVE  WroteOnly(f, WriteCells(f, span, count, data))
<1> DEFINE image ==
             [cell \in Cells |->
                IF \E i \in WrittenCells(f, span, count) : span[i] = cell
                THEN SectorOf(data, CHOOSE i \in 1 .. count : span[i] = cell)
                ELSE f.image[cell]]
<1>1. ASSUME NEW cell \in Cells
      PROVE  image[cell] \in Sector
  <2>1. CASE \E i \in WrittenCells(f, span, count) : span[i] = cell
    <3> DEFINE k == CHOOSE i \in 1 .. count : span[i] = cell
    <3>1. k \in 1 .. count
      BY <2>1, WrittenAre
    <3> HIDE DEF k
    <3>2. k * SectorBytes <= count * SectorBytes
      BY <3>1, FdcAssumption
    <3>3. k \in Nat \ {0} /\ k * SectorBytes <= Len(data)
      <4>1. k * SectorBytes \in Nat /\ count * SectorBytes \in Nat /\ Len(data) \in Nat
        BY <3>1, FdcAssumption
      <4> QED BY <3>1, <3>2, <4>1
    <3>4. SectorOf(data, k) \in Sector
      BY <3>3, SectorOfTyped
    <3> QED BY <2>1, <3>4 DEF k
  <2>2. CASE ~\E i \in WrittenCells(f, span, count) : span[i] = cell
    BY <2>2 DEF FdRegs
  <2> QED BY <2>1, <2>2
<1>2. image \in [Cells -> Sector]
  <2>1. image = [cell \in Cells |-> image[cell]]
    OBVIOUS
  <2> HIDE DEF image
  <2> QED BY <1>1, <2>1
<1>3. WriteCells(f, span, count, data) = [f EXCEPT !.image = image]
  BY DEF WriteCells
<1> HIDE DEF image
<1> DEFINE g == [f EXCEPT !.image = image]
<1>4. g \in FdRegs
  BY <1>2 DEF FdRegs
<1>5. /\ Beside(f, g) /\ g.pending = f.pending /\ g.irq = f.irq /\ g.phase = f.phase
      /\ g.answer = f.answer
  BY DEF FdRegs, Beside
<1> QED BY <1>3, <1>4, <1>5 DEF WroteOnly

----------------------------------------------------------------------------
(* The FIFO's accesses, but for the execution of a data command.            *)

LEMMA ResultCounts ==
  ASSUME NEW cmd
  PROVE  /\ ParamCount(cmd) \in Nat /\ ResultCount(cmd) \in Nat
         /\ cmd \in Commands /\ ParamCount(cmd) = 0 => ResultCount(cmd) >= 1
         /\ cmd = "sense_drive" => ResultCount(cmd) >= 1
BY FdcAssumption DEF ParamCount, ResultCount, Commands, Transfers

LEMMA WriteCommandFacts ==
  ASSUME NEW f, Settled(f), f.released, f.phase = CommandPhase,
         NEW cmd \in Commands, NEW mt \in BOOLEAN
  PROVE  LET e == WriteCommand(f, cmd, mt) IN
         /\ Settled(e)
         /\ cmd = "sense_int" =>
              /\ ~e.irq
              /\ e.answer.code # "seek_end" => e.seekEnd = f.seekEnd \/ f.seekEnd = NoUnit
         /\ cmd # "sense_int" => e.irq = f.irq /\ e.seekEnd = f.seekEnd
<1> DEFINE e == WriteCommand(f, cmd, mt)
<1>1. f \in FdRegs /\ f.pending = NoTransfer
  BY DEF Settled
<1>2. CASE cmd = "sense_int"
  <2> DEFINE x == SenseInterrupt(f)
  <2>1. /\ Settled(x) /\ ~x.irq
        /\ x.answer.code # "seek_end" => x.seekEnd = f.seekEnd \/ f.seekEnd = NoUnit
    BY <1>1, SenseInterruptFacts
  <2>2. e = x
    BY <1>2 DEF WriteCommand
  <2> HIDE DEF e, x
  <2> QED BY <1>2, <2>1, <2>2 DEF e
<1>3. CASE cmd # "sense_int"
  <2> DEFINE params == ParamCount(cmd)
             lock == IF cmd \in {"lock", "unlock"} THEN cmd = "lock" ELSE f.lock
             m == IF cmd \in {"read", "verify", "write"} THEN mt ELSE f.mt
             ph == IF params = 0
                   THEN [kind |-> "result", cmd |-> cmd, left |-> ResultCount(cmd)]
                   ELSE [kind |-> "params", cmd |-> cmd, left |-> params]
             g == [f EXCEPT !.lock = lock, !.mt = m, !.phase = ph]
  <2>1. e = g
    BY <1>3 DEF WriteCommand
  <2>2. lock \in BOOLEAN
    BY <1>1 DEF FdRegs
  <2>3. m \in BOOLEAN
    BY <1>1 DEF FdRegs
  <2>4. /\ ph \in Phase /\ ph.kind \in {"params", "result"} /\ ph.cmd = cmd /\ ph.left >= 1
    <3>1. CASE params = 0
      BY <3>1, ResultCounts DEF Phase
    <3>2. CASE params # 0
      BY <3>2, ResultCounts DEF Phase
    <3> QED BY <3>1, <3>2
  <2> HIDE DEF lock, m, ph, e
  <2>5. g \in FdRegs
    BY <1>1, <2>2, <2>3, <2>4, ZenonT(60) DEF FdRegs
  <2>6. /\ g.phase = ph /\ g.pending = f.pending /\ g.irq = f.irq /\ g.seekEnd = f.seekEnd
        /\ g.released = f.released
    BY <1>1 DEF FdRegs
  <2> HIDE DEF g
  <2>7. Phased(g)
    BY <1>3, <2>4, <2>6 DEF Phased
  <2>8. Settled(g)
    BY <1>1, <2>5, <2>6, <2>7 DEF Settled
  <2> QED BY <1>3, <2>1, <2>6, <2>8 DEF e
<1> QED BY <1>2, <1>3

LEMMA WriteParamFacts ==
  ASSUME NEW f, Settled(f), f.phase.kind = "params", f.phase.left > 1, NEW on \in BOOLEAN
  PROVE  LET e == WriteParam(f, on) IN
         /\ Settled(e) /\ e.irq = f.irq /\ e.seekEnd = f.seekEnd
<1> DEFINE ph == [f.phase EXCEPT !.left = f.phase.left - 1]
           g  == [f EXCEPT !.phase = ph]
           c  == [f.config EXCEPT !.eis = on, !.fifo = on]
           h  == [g EXCEPT !.config = c]
           e  == WriteParam(f, on)
<1>1. f \in FdRegs /\ f.pending = NoTransfer /\ f.phase \in Phase /\ f.config \in FdConfig
      /\ f.released
  BY DEF Settled, FdRegs, Phased
<1>2. ph \in Phase /\ ph.kind = "params" /\ ph.left >= 1
  BY <1>1 DEF Phase
<1>3. c \in FdConfig
  BY <1>1 DEF FdConfig
<1> HIDE DEF ph, c
<1>4. g \in FdRegs /\ h \in FdRegs
  BY <1>1, <1>2, <1>3 DEF FdRegs
<1>5. /\ g.phase = ph /\ g.pending = f.pending /\ g.irq = f.irq /\ g.seekEnd = f.seekEnd
      /\ g.released = f.released
      /\ h.phase = ph /\ h.pending = f.pending /\ h.irq = f.irq /\ h.seekEnd = f.seekEnd
      /\ h.released = f.released
  BY <1>1 DEF FdRegs
<1>6. e \in {g, h}
  <2>1. g = [f EXCEPT !.phase.left = @ - 1]
    BY <1>1 DEF ph
  <2>2. h = [g EXCEPT !.config.eis = on, !.config.fifo = on]
    <3>1. g.config = f.config
      BY <1>1 DEF FdRegs
    <3> QED BY <1>4, <3>1 DEF c
  <2> HIDE DEF g, h
  <2> QED BY <2>1, <2>2 DEF WriteParam
<1> HIDE DEF e, g, h
<1>7. Phased(g) /\ Phased(h)
  BY <1>1, <1>2, <1>5 DEF Phased
<1>8. Settled(g) /\ Settled(h)
  BY <1>1, <1>4, <1>5, <1>7 DEF Settled
<1>9. Settled(e) /\ e.irq = f.irq /\ e.seekEnd = f.seekEnd
  BY <1>5, <1>6, <1>8
<1> QED BY <1>9 DEF e

LEMMA FinishFacts ==
  ASSUME NEW f, Settled(f), f.phase.kind = "params", f.phase.cmd \notin Transfers,
         NEW unit \in Units4, NEW c \in 0 .. MaxCylinder, NEW on \in BOOLEAN
  PROVE  LET e == Finish(f, f.phase.cmd, [unit |-> unit, c |-> c, on |-> on]) IN
         /\ Settled(e) /\ e.dma = f.dma
         /\ f.phase.cmd \in Seeks => e.irq /\ e.seekEnd = unit /\ e.released
         /\ f.phase.cmd \notin Seeks => e.irq = f.irq /\ e.seekEnd = f.seekEnd
<1> DEFINE cmd == f.phase.cmd
           p   == [unit |-> unit, c |-> c, on |-> on]
           e   == Finish(f, cmd, p)
<1>1. f \in FdRegs /\ f.pending = NoTransfer /\ f.phase \in Phase /\ f.config \in FdConfig
      /\ f.released
  BY DEF Settled, FdRegs, Phased
<1>2. CASE cmd \in Seeks
  <2>1. PICK x \in 0 .. MaxCylinder : e = SeekEnds(f, unit, x)
    <3>1. 0 \in 0 .. MaxCylinder /\ MaxCylinder \in Nat
      BY FdcAssumption
    <3>2. CASE cmd = "recalibrate"
      BY <3>1, <3>2 DEF Finish
    <3>3. CASE cmd = "seek"
      BY <3>3 DEF Finish
    <3>4. CASE cmd \in {"seek_in", "seek_out"}
      <4>1. Stepped(f, unit, c, cmd = "seek_in") \in 0 .. MaxCylinder
        <5>1. ASSUME NEW in \in BOOLEAN
              PROVE  Stepped(f, unit, c, in) \in 0 .. MaxCylinder
          <6>1. c \in Nat
            BY <3>1
          <6> QED BY <1>1, <6>1, SteppedTyped
        <5>2. (cmd = "seek_in") \in BOOLEAN
          OBVIOUS
        <5> QED BY <5>1, <5>2
      <4>2. e = SeekEnds(f, unit, Stepped(f, unit, c, cmd = "seek_in"))
        BY <3>4 DEF Finish
      <4> QED BY <4>1, <4>2
    <3> QED BY <1>2, <3>2, <3>3, <3>4 DEF Seeks
  <2>2. LET s == SeekEnds(f, unit, x) IN
        /\ Settled(s) /\ s.irq /\ s.seekEnd = unit /\ s.released = f.released
        /\ s.dma = f.dma
    BY <1>1, SeekEndsFacts
  <2> HIDE DEF e
  <2>3. /\ Settled(e) /\ e.irq /\ e.seekEnd = unit /\ e.released /\ e.dma = f.dma
    BY <1>1, <2>1, <2>2
  <2> QED BY <1>2, <2>3 DEF e
<1>3. CASE cmd \notin Seeks
  <2> DEFINE ph == [f.phase EXCEPT !.kind = "result", !.left = ResultCount(cmd)]
             co == [f.config EXCEPT !.pretrk = on]
             g  == [f EXCEPT !.phase = ph]
             h  == [f EXCEPT !.phase = CommandPhase]
             k  == [f EXCEPT !.phase = CommandPhase, !.config = co]
  <2>1. ph \in Phase /\ ph.kind = "result" /\ ph.cmd = cmd /\ ph.left = ResultCount(cmd)
    BY <1>1, ResultCounts DEF Phase
  <2>2. co \in FdConfig
    BY <1>1 DEF FdConfig
  <2>3. \/ e = g /\ cmd = "sense_drive"
        \/ e = h
        \/ e = k
    <3>1. ~(cmd = "recalibrate") /\ ~(cmd = "seek") /\ ~(cmd \in {"seek_in", "seek_out"})
      BY <1>3 DEF Seeks
    <3>2. CASE cmd = "sense_drive"
      <4>1. e = g
        BY <3>1, <3>2 DEF Finish
      <4> QED BY <3>2, <4>1
    <3>3. CASE cmd = "configure"
      <4>1. [h EXCEPT !.config.pretrk = p.on] = k
        <5>1. h.config = f.config /\ h \in FdRegs
          BY <1>1, FdFirstValues DEF FdRegs
        <5> QED BY <1>1, <5>1 DEF FdRegs
      <4>2. e = [h EXCEPT !.config.pretrk = p.on]
        BY <3>1, <3>3 DEF Finish
      <4> QED BY <4>1, <4>2
    <3>4. CASE cmd # "sense_drive" /\ cmd # "configure"
      <4>1. e = h
        BY <3>1, <3>4 DEF Finish
      <4> QED BY <4>1
    <3> QED BY <3>2, <3>3, <3>4
  <2> HIDE DEF ph, co, e
  <2>4. g \in FdRegs
    BY <1>1, <2>1 DEF FdRegs
  <2>5. h \in FdRegs
    BY <1>1, FdFirstValues DEF FdRegs
  <2>6. k \in FdRegs
    BY <1>1, <2>2, FdFirstValues DEF FdRegs
  <2>7. /\ g.phase = ph /\ h.phase = CommandPhase /\ k.phase = CommandPhase
        /\ g.pending = f.pending /\ h.pending = f.pending /\ k.pending = f.pending
        /\ g.irq = f.irq /\ h.irq = f.irq /\ k.irq = f.irq
        /\ g.seekEnd = f.seekEnd /\ h.seekEnd = f.seekEnd /\ k.seekEnd = f.seekEnd
        /\ g.released = f.released /\ g.dma = f.dma /\ h.dma = f.dma /\ k.dma = f.dma
    BY <1>1 DEF FdRegs
  <2> HIDE DEF g, h, k
  <2>8. cmd = "sense_drive" => Phased(g)
    BY <1>1, <2>1, <2>7, ResultCounts DEF Phased
  <2>9. Phased(h) /\ Phased(k)
    BY <2>7, CommandPhased
  <2>10. Settled(e) /\ e.irq = f.irq /\ e.seekEnd = f.seekEnd /\ e.dma = f.dma
    BY <1>1, <2>3, <2>4, <2>5, <2>6, <2>7, <2>8, <2>9 DEF Settled
  <2> QED BY <1>3, <2>10 DEF e
<1> QED BY <1>2, <1>3

LEMMA ReadResultFacts ==
  ASSUME NEW f, Settled(f), HasResult(f)
  PROVE  LET e == ReadResult(f) IN
         /\ Settled(e) /\ e.seekEnd = f.seekEnd
         /\ f.phase.cmd \in Transfers /\ f.phase.left = LongResult => ~e.irq
         /\ e.irq => f.irq
<1> DEFINE irq == IF f.phase.cmd \in Transfers /\ f.phase.left = LongResult
                  THEN FALSE ELSE f.irq
           ph  == IF f.phase.left = 1 THEN CommandPhase
                  ELSE [f.phase EXCEPT !.left = f.phase.left - 1]
           e   == [f EXCEPT !.irq = irq, !.phase = ph]
<1>1. f \in FdRegs /\ f.pending = NoTransfer /\ f.phase \in Phase /\ f.released
      /\ f.phase.kind = "result" /\ f.phase.left >= 1 /\ f.irq \in BOOLEAN
  BY DEF Settled, FdRegs, Phased, HasResult
<1>2. ReadResult(f) = e
  BY DEF ReadResult
<1>3. /\ irq \in BOOLEAN
      /\ f.phase.cmd \in Transfers /\ f.phase.left = LongResult => ~irq
      /\ irq => f.irq
  BY <1>1
<1>4. /\ ph \in Phase
      /\ ph = CommandPhase \/ (ph.kind = "result" /\ ph.cmd = f.phase.cmd /\ ph.left >= 1)
  <2>1. CASE f.phase.left = 1
    BY <2>1, FdFirstValues
  <2>2. CASE f.phase.left # 1
    BY <1>1, <2>2 DEF Phase
  <2> QED BY <2>1, <2>2
<1> HIDE DEF irq, ph
<1>5. e \in FdRegs
  BY <1>1, <1>3, <1>4 DEF FdRegs
<1>6. /\ e.phase = ph /\ e.pending = f.pending /\ e.irq = irq /\ e.seekEnd = f.seekEnd
      /\ e.released = f.released /\ e.answer = f.answer /\ e.resetSense = f.resetSense
  BY <1>1 DEF FdRegs
<1> HIDE DEF e
<1>7. Phased(e)
  <2>1. CASE ph = CommandPhase
    BY <1>6, <2>1, CommandPhased
  <2>2. CASE ph.kind = "result" /\ ph.cmd = f.phase.cmd /\ ph.left >= 1
    BY <1>1, <1>6, <2>2 DEF Phased, Settled
  <2> QED BY <1>4, <2>1, <2>2
<1>8. Settled(e)
  BY <1>1, <1>5, <1>6, <1>7 DEF Settled
<1> QED BY <1>2, <1>3, <1>6, <1>8

----------------------------------------------------------------------------
(* The data commands.                                                       *)

(* A data command is over: it answers, interrupts, and has a result.        *)
Over(f, e, cmd) ==
  /\ e \in FdRegs /\ Beside(f, e) /\ e.irq
  /\ e.phase.kind = "result" /\ e.phase.cmd = cmd /\ e.phase.left = LongResult
  /\ e.answer.code # "seek_end"

LEMMA EndsFacts ==
  ASSUME NEW f \in FdRegs, NEW cmd \in Commands, NEW code \in Codes \ {"seek_end"},
         NEW unit \in Units4, NEW head \in Heads, NEW sector \in Nat
  PROVE  LET e == Ends(f, cmd, code, unit, head, sector) IN
         /\ Over(f, e, cmd) /\ e.answer.code = code
         /\ e.pending = f.pending /\ e.image = f.image
<1> DEFINE a  == [code |-> code, unit |-> unit, head |-> head, sector |-> sector]
           ph == [CommandPhase EXCEPT !.kind = "result", !.cmd = cmd, !.left = LongResult]
           e  == [f EXCEPT !.answer = a, !.irq = TRUE, !.phase = ph]
<1>1. Ends(f, cmd, code, unit, head, sector) = e
  BY DEF Ends
<1>2. a \in Answer /\ a.code = code
  BY DEF Answer
<1>3. ph \in Phase
  BY FdcAssumption DEF CommandPhase, Phase
<1>4. ph.kind = "result" /\ ph.cmd = cmd /\ ph.left = LongResult
  BY DEF CommandPhase
<1> HIDE DEF a, ph
<1>5. e \in FdRegs
  BY <1>2, <1>3 DEF FdRegs
<1>6. /\ e.released = f.released /\ e.dma = f.dma /\ e.mt = f.mt
      /\ e.seekEnd = f.seekEnd /\ e.resetSense = f.resetSense
      /\ e.media = f.media /\ e.wp = f.wp
      /\ e.irq /\ e.phase = ph /\ e.answer = a
      /\ e.pending = f.pending /\ e.image = f.image
  BY DEF FdRegs
<1> HIDE DEF e
<1>7. /\ Over(f, e, cmd) /\ e.answer.code = code
      /\ e.pending = f.pending /\ e.image = f.image
  BY <1>2, <1>4, <1>5, <1>6 DEF Over, Beside
<1> QED BY <1>1, <1>7

LEMMA CommandParts ==
  ASSUME NEW p \in Params
  PROVE  /\ p.unit \in Units4 /\ p.c \in 0 .. MaxCylinder /\ p.h \in Heads /\ 1 \in Heads
         /\ p.r \in Nat /\ p.eot \in Nat /\ p.sized \in BOOLEAN /\ LastSector(p) \in Nat
BY FdcAssumption DEF Params, Heads, LastSector

LEMMA NormalFacts ==
  ASSUME NEW f \in FdRegs, NEW cmd \in Commands, NEW p \in Params
  PROVE  LET e == Normal(f, cmd, p) IN
         /\ Over(f, e, cmd) /\ e.answer.code = "normal"
         /\ e.pending = f.pending /\ e.image = f.image
<1> DEFINE h == IF TwoHeads(p, f.mt) THEN 1 ELSE p.h
<1>1. h \in Heads /\ p.unit \in Units4 /\ LastSector(p) \in Nat
      /\ "normal" \in Codes \ {"seek_end"}
  BY CommandParts DEF Codes
<1>2. Normal(f, cmd, p) = Ends(f, cmd, "normal", p.unit, h, LastSector(p))
  BY DEF Normal
<1> HIDE DEF h
<1> QED BY <1>1, <1>2, EndsFacts

LEMMA FailsFacts ==
  ASSUME NEW f \in FdRegs, NEW cmd \in Commands, NEW code \in Codes \ {"seek_end"},
         NEW p \in Params
  PROVE  LET e == Fails(f, cmd, code, p) IN
         /\ Over(f, e, cmd) /\ e.answer.code = code
         /\ e.pending = f.pending /\ e.image = f.image
BY CommandParts, EndsFacts DEF Fails

(* A command whose transfer or whose latch is set first.                    *)
LEMMA Rearmed ==
  ASSUME NEW f \in FdRegs, NEW t \in {NoTransfer} \cup Transfer
  PROVE  LET g == [f EXCEPT !.pending = t] IN
         g \in FdRegs /\ Beside(f, g) /\ g.pending = t /\ g.image = f.image
<1> DEFINE g == [f EXCEPT !.pending = t]
<1>1. g \in FdRegs
  BY DEF FdRegs
<1>2. Beside(f, g) /\ g.pending = t /\ g.image = f.image
  BY DEF FdRegs, Beside
<1> QED BY <1>1, <1>2

LEMMA Relatched ==
  ASSUME NEW f \in FdRegs, NEW w \in Seq(Byte)
  PROVE  LET g == [f EXCEPT !.lastWrite = w, !.pending = NoTransfer] IN
         g \in FdRegs /\ Beside(f, g) /\ g.pending = NoTransfer /\ g.image = f.image
<1> DEFINE g == [f EXCEPT !.lastWrite = w, !.pending = NoTransfer]
<1>1. g \in FdRegs
  BY DEF FdRegs
<1>2. Beside(f, g) /\ g.pending = NoTransfer /\ g.image = f.image
  BY DEF FdRegs, Beside
<1> QED BY <1>1, <1>2

LEMMA OverFrom ==
  ASSUME NEW f, NEW g, NEW e, NEW cmd, Beside(f, g), Over(g, e, cmd)
  PROVE  Over(f, e, cmd)
BY DEF Over, Beside

(* A read that is over: nothing was there, or its data is armed.            *)
ReadOver(f, e, cmd, p, span) ==
  /\ Over(f, e, cmd) /\ e.image = f.image
  /\ \/ e.answer.code = "ND" /\ e.pending = NoTransfer
     \/ /\ e.answer.code = "normal" /\ Valid(span)
        /\ ~f.dma => e.pending = NoTransfer
        /\ f.dma => e.pending = [kind |-> "read", p |-> p, data |-> SpanData(f, span)]

LEMMA ReadArmed ==
  ASSUME NEW f \in FdRegs, NEW p \in Params, NEW span \in Seq(Places), Valid(span)
  PROVE  (IF f.dma THEN [kind |-> "read", p |-> p, data |-> SpanData(f, span)]
          ELSE NoTransfer) \in {NoTransfer} \cup Transfer
BY SpanDataTyped DEF Transfer

LEMMA ReadDataFacts ==
  ASSUME NEW f \in FdRegs, NEW p \in Params
  PROVE  ReadOver(f, ReadData(f, p), "read", p, Span(p, f.mt))
<1> DEFINE span == Span(p, f.mt)
           t    == IF f.dma THEN [kind |-> "read", p |-> p, data |-> SpanData(f, span)]
                   ELSE NoTransfer
           g    == [f EXCEPT !.pending = t]
           h    == [f EXCEPT !.pending = NoTransfer]
           e    == ReadData(f, p)
<1>1. span \in Seq(Places) /\ "read" \in Commands /\ "ND" \in Codes \ {"seek_end"}
  BY SpanTyped DEF FdRegs, Commands, Transfers, Codes
<1>2. CASE p.sized /\ Readable(f, span)
  <2>1. t \in {NoTransfer} \cup Transfer /\ Valid(span)
    BY <1>1, <1>2, ReadArmed DEF Readable
  <2>2. (f.dma => t = [kind |-> "read", p |-> p, data |-> SpanData(f, span)])
        /\ (~f.dma => t = NoTransfer)
    OBVIOUS
  <2>3. e = Normal(g, "read", p)
    BY <1>2 DEF ReadData
  <2> HIDE DEF t
  <2>4. g \in FdRegs /\ Beside(f, g) /\ g.pending = t /\ g.image = f.image
    BY <2>1, Rearmed
  <2> HIDE DEF g
  <2>5. /\ Over(g, e, "read") /\ e.answer.code = "normal"
        /\ e.pending = g.pending /\ e.image = g.image
    BY <1>1, <2>3, <2>4, NormalFacts
  <2> HIDE DEF e, span
  <2>6. Over(f, e, "read")
    BY <2>4, <2>5, OverFrom
  <2>7. ReadOver(f, e, "read", p, span)
    BY <2>1, <2>2, <2>4, <2>5, <2>6 DEF ReadOver
  <2> QED BY <2>7 DEF e, span
<1>3. CASE ~(p.sized /\ Readable(f, span))
  <2>1. e = Fails(h, "read", "ND", p)
    BY <1>3 DEF ReadData
  <2>2. h \in FdRegs /\ Beside(f, h) /\ h.pending = NoTransfer /\ h.image = f.image
    BY Rearmed
  <2> HIDE DEF h
  <2>3. /\ Over(h, e, "read") /\ e.answer.code = "ND"
        /\ e.pending = h.pending /\ e.image = h.image
    BY <1>1, <2>1, <2>2, FailsFacts
  <2> HIDE DEF e, span
  <2>4. ReadOver(f, e, "read", p, span)
    BY <2>2, <2>3, OverFrom DEF ReadOver
  <2> QED BY <2>4 DEF e, span
<1> QED BY <1>2, <1>3

LEMMA TrackTyped ==
  ASSUME NEW p \in Params
  PROVE  TrackSpan(p) \in Seq(Places) /\ Len(TrackSpan(p)) = p.eot
<1>1. p.c \in Nat /\ p.h \in Heads /\ p.eot \in Nat
  BY FdcAssumption, CommandParts
<1>2. TrackSpan(p) \in [1 .. p.eot -> Places]
  BY <1>1 DEF TrackSpan, Places
<1> QED BY <1>1, <1>2, FunctionIsSequence

LEMMA ReadTrackFacts ==
  ASSUME NEW f \in FdRegs, NEW p \in Params
  PROVE  ReadOver(f, ReadTrack(f, p), "read_track", p, TrackSpan(p))
<1> DEFINE span == TrackSpan(p)
           t    == IF f.dma THEN [kind |-> "read", p |-> p, data |-> SpanData(f, span)]
                   ELSE NoTransfer
           g    == [f EXCEPT !.pending = t]
           h    == [f EXCEPT !.pending = NoTransfer]
           e    == ReadTrack(f, p)
<1>1. span \in Seq(Places) /\ "read_track" \in Commands /\ "ND" \in Codes \ {"seek_end"}
      /\ "normal" \in Codes \ {"seek_end"}
  BY TrackTyped DEF Commands, Transfers, Codes
<1>2. CASE p.sized /\ p.eot \in 1 .. TrackSectors /\ Readable(f, span)
  <2>1. t \in {NoTransfer} \cup Transfer /\ Valid(span)
    BY <1>1, <1>2, ReadArmed DEF Readable
  <2>2. (f.dma => t = [kind |-> "read", p |-> p, data |-> SpanData(f, span)])
        /\ (~f.dma => t = NoTransfer)
    OBVIOUS
  <2>3. e = Ends(g, "read_track", "normal", p.unit, p.h, p.eot)
    BY <1>2 DEF ReadTrack, TrackSpan
  <2> HIDE DEF t
  <2>4. g \in FdRegs /\ Beside(f, g) /\ g.pending = t /\ g.image = f.image
    BY <2>1, Rearmed
  <2> HIDE DEF g
  <2>5. /\ Over(g, e, "read_track") /\ e.answer.code = "normal"
        /\ e.pending = g.pending /\ e.image = g.image
    BY <1>1, <2>3, <2>4, CommandParts, EndsFacts
  <2> HIDE DEF e, span
  <2>6. Over(f, e, "read_track")
    BY <2>4, <2>5, OverFrom
  <2>7. ReadOver(f, e, "read_track", p, span)
    BY <2>1, <2>2, <2>4, <2>5, <2>6 DEF ReadOver
  <2> QED BY <2>7 DEF e, span
<1>3. CASE ~(p.sized /\ p.eot \in 1 .. TrackSectors /\ Readable(f, span))
  <2>1. e = Fails(h, "read_track", "ND", p)
    BY <1>3 DEF ReadTrack, TrackSpan
  <2>2. h \in FdRegs /\ Beside(f, h) /\ h.pending = NoTransfer /\ h.image = f.image
    BY Rearmed
  <2> HIDE DEF h
  <2>3. /\ Over(h, e, "read_track") /\ e.answer.code = "ND"
        /\ e.pending = h.pending /\ e.image = h.image
    BY <1>1, <2>1, <2>2, FailsFacts
  <2> HIDE DEF e, span
  <2>4. ReadOver(f, e, "read_track", p, span)
    BY <2>2, <2>3, OverFrom DEF ReadOver
  <2> QED BY <2>4 DEF e, span
<1> QED BY <1>2, <1>3

(* Data for a span.                                                         *)
LEMMA ZerosTyped ==
  ASSUME NEW span \in Seq(Places)
  PROVE  Zeros(span) \in Seq(Byte) /\ Len(Zeros(span)) = Len(span) * SectorBytes
<1>1. Len(span) \in Nat /\ Len(span) * SectorBytes \in Nat
  BY FdcAssumption
<1>2. Zeros(span) \in [1 .. Len(span) * SectorBytes -> Byte]
  BY DEF Zeros, Byte
<1> QED BY <1>1, <1>2, FunctionIsSequence

LEMMA NothingWritten ==
  ASSUME NEW f \in FdRegs, ~f.media, NEW span, NEW count, NEW data
  PROVE  WriteCells(f, span, count, data).image = f.image
<1>1. WrittenCells(f, span, count) = {}
  BY DEF WrittenCells
<1>2. f.image = [cell \in Cells |-> f.image[cell]]
  BY DEF FdRegs
<1> DEFINE image ==
             [cell \in Cells |->
                IF \E i \in WrittenCells(f, span, count) : span[i] = cell
                THEN SectorOf(data, CHOOSE i \in 1 .. count : span[i] = cell)
                ELSE f.image[cell]]
<1>3. image = [cell \in Cells |-> f.image[cell]]
  BY <1>1
<1>4. WriteCells(f, span, count, data) = [f EXCEPT !.image = image]
  BY DEF WriteCells
<1> HIDE DEF image
<1> QED BY <1>2, <1>3, <1>4 DEF FdRegs

(* A write that is over, and armed nothing.                                 *)
WriteOver(f, e) ==
  /\ Over(f, e, "write") /\ e.pending = NoTransfer
  /\ ~f.media => e.answer.code = "NW" /\ e.image = f.image

LEMMA NotWrittenFacts ==
  ASSUME NEW f \in FdRegs, NEW p \in Params
  PROVE  LET e == NotWritten(f, p) IN
         WriteOver(f, e) /\ e.answer.code = "NW" /\ e.image = f.image
<1> DEFINE g == [f EXCEPT !.lastWrite = <<>>, !.pending = NoTransfer]
           e == Fails(g, "write", "NW", p)
<1>1. g \in FdRegs /\ Beside(f, g) /\ g.pending = NoTransfer /\ g.image = f.image
  BY FdFirstValues, Relatched
<1>2. NotWritten(f, p) = e
  BY DEF NotWritten
<1>3. "write" \in Commands /\ "NW" \in Codes \ {"seek_end"}
  BY DEF Commands, Transfers, Codes
<1> HIDE DEF g
<1>4. /\ Over(g, e, "write") /\ e.answer.code = "NW"
      /\ e.pending = g.pending /\ e.image = g.image
  BY <1>1, <1>3, FailsFacts
<1> HIDE DEF e
<1> QED BY <1>1, <1>2, <1>4, OverFrom DEF WriteOver

LEMMA WriteNowFacts ==
  ASSUME NEW f \in FdRegs, NEW p \in Params, NEW data \in Seq(Byte),
         Len(data) = Len(Span(p, f.mt)) * SectorBytes
  PROVE  WriteOver(f, WriteNow(f, p, data))
<1> DEFINE span == Span(p, f.mt)
           g    == WriteCells(f, span, Len(span), data)
           h    == [g EXCEPT !.lastWrite = data, !.pending = NoTransfer]
           e    == WriteNow(f, p, data)
<1>1. Len(span) \in Nat /\ Len(span) * SectorBytes <= Len(data)
  <2>1. Len(span) \in Nat
    BY SpanTyped DEF FdRegs
  <2>2. Len(data) = Len(span) * SectorBytes
    OBVIOUS
  <2> HIDE DEF span
  <2>3. Len(span) * SectorBytes \in Nat
    BY <2>1, FdcAssumption
  <2> QED BY <2>1, <2>2, <2>3
<1> HIDE DEF span
<1>3. g \in FdRegs /\ Beside(f, g)
  BY <1>1, WriteCellsFacts DEF WroteOnly
<1>4. ~f.media => g.image = f.image
  BY NothingWritten
<1>5. CASE f.media /\ Valid(span)
  <2>1. e = Normal(h, "write", p)
    BY <1>5 DEF WriteNow, span
  <2> HIDE DEF g
  <2>2. h \in FdRegs /\ Beside(g, h) /\ h.pending = NoTransfer
    BY <1>3, Relatched
  <2> HIDE DEF h
  <2>3. "write" \in Commands
    BY DEF Commands, Transfers
  <2>4. Over(h, e, "write") /\ e.pending = h.pending
    BY <2>1, <2>2, <2>3, NormalFacts
  <2> HIDE DEF e
  <2>5. Over(f, e, "write")
    BY <1>3, <2>2, <2>4, OverFrom
  <2> QED BY <1>5, <2>2, <2>4, <2>5 DEF WriteOver, e
<1>6. CASE ~(f.media /\ Valid(span))
  <2>1. e = NotWritten(g, p)
    BY <1>6 DEF WriteNow, span
  <2> HIDE DEF g
  <2>2. WriteOver(g, e) /\ e.answer.code = "NW" /\ e.image = g.image
    BY <1>3, <2>1, NotWrittenFacts
  <2> HIDE DEF e
  <2>3. Over(f, e, "write")
    BY <1>3, <2>2, OverFrom DEF WriteOver
  <2> QED BY <1>4, <2>2, <2>3 DEF WriteOver, e
<1> QED BY <1>5, <1>6

(* WRITE DATA that is armed.                                                *)
WriteArmed(f, e, p) ==
  LET span == Span(p, f.mt) IN
  /\ Over(f, e, "write") /\ e.answer.code = "normal" /\ e.image = f.image
  /\ f.dma /\ f.media /\ Valid(span)
  /\ e.pending = [kind |-> "write", p |-> p, data |-> Zeros(span)]

LEMMA WriteDataFacts ==
  ASSUME NEW f \in FdRegs, NEW p \in Params
  PROVE  LET e == WriteData(f, p) IN
         /\ WriteOver(f, e) \/ WriteArmed(f, e, p)
         /\ f.lastWrite = <<>> /\ f.dma =>
              \/ WriteArmed(f, e, p)
              \/ /\ WriteOver(f, e)
                 /\ e.answer.code = "NW" /\ e.image = f.image
<1> DEFINE span == Span(p, f.mt)
           e    == WriteData(f, p)
           none == (f.media /\ f.wp) \/ ~p.sized
           Held == ~(f.media /\ f.wp) /\ p.sized /\ f.lastWrite # <<>>
           arm  == ~f.wp /\ p.sized /\ f.lastWrite = <<>> /\ f.dma /\ f.media
           Declined(x) == WriteOver(f, x) /\ x.answer.code = "NW" /\ x.image = f.image
<1>1. span \in Seq(Places) /\ Len(span) >= 1
  BY SpanTyped DEF FdRegs
<1>2. Declined(NotWritten(f, p))
  BY NotWrittenFacts
<1>3. CASE none
  <2>1. e = NotWritten(f, p)
    BY <1>3 DEF WriteData
  <2> HIDE DEF e
  <2>2. WriteOver(f, e) /\ e.answer.code = "NW" /\ e.image = f.image
    BY <1>2, <2>1
  <2> QED BY <2>2 DEF e
<1>4. CASE Held
  <2>1. e = IF Len(f.lastWrite) = Len(span) * SectorBytes
            THEN WriteNow(f, p, f.lastWrite) ELSE NotWritten(f, p)
    BY <1>4 DEF WriteData
  <2>2. f.lastWrite \in Seq(Byte)
    BY DEF FdRegs
  <2>3. Len(f.lastWrite) = Len(span) * SectorBytes =>
          WriteOver(f, WriteNow(f, p, f.lastWrite))
    BY <2>2, WriteNowFacts
  <2> HIDE DEF e, span
  <2>4. WriteOver(f, e)
    BY <1>2, <2>1, <2>3
  <2> QED BY <1>4, <2>4 DEF e
<1>5. CASE arm
  <2>1. e = IF Valid(span)
            THEN Normal([f EXCEPT !.pending = [kind |-> "write", p |-> p,
                                               data |-> Zeros(span)]], "write", p)
            ELSE NotWritten(f, p)
    BY <1>5 DEF WriteData
  <2>2. CASE Valid(span)
    <3> DEFINE t == [kind |-> "write", p |-> p, data |-> Zeros(span)]
               g == [f EXCEPT !.pending = t]
    <3>1. t \in {NoTransfer} \cup Transfer
      BY <1>1, ZerosTyped DEF Transfer
    <3>2. e = Normal(g, "write", p)
      BY <2>1, <2>2
    <3>3. t = [kind |-> "write", p |-> p, data |-> Zeros(span)]
      OBVIOUS
    <3> HIDE DEF t, e
    <3>4. g \in FdRegs /\ Beside(f, g) /\ g.pending = t /\ g.image = f.image
      BY <3>1, Rearmed
    <3> HIDE DEF g
    <3>5. "write" \in Commands
      BY DEF Commands, Transfers
    <3>6. Over(g, e, "write") /\ e.answer.code = "normal"
          /\ e.pending = g.pending /\ e.image = g.image
      BY <3>2, <3>4, <3>5, NormalFacts
    <3>7. Over(f, e, "write")
      BY <3>4, <3>6, OverFrom
    <3>8. WriteArmed(f, e, p)
      BY <1>5, <2>2, <3>3, <3>4, <3>6, <3>7 DEF WriteArmed
    <3> QED BY <3>8 DEF e
  <2>3. CASE ~Valid(span)
    <3>1. e = NotWritten(f, p)
      BY <2>1, <2>3
    <3> HIDE DEF e
    <3>2. WriteOver(f, e) /\ e.answer.code = "NW" /\ e.image = f.image
      BY <1>2, <3>1
    <3> QED BY <3>2 DEF e
  <2> QED BY <2>2, <2>3
<1>6. CASE ~none /\ ~Held /\ ~arm
  <2>1. e = WriteNow(f, p, Zeros(span))
    BY <1>6 DEF WriteData
  <2>2. WriteOver(f, WriteNow(f, p, Zeros(span)))
    BY <1>1, ZerosTyped, WriteNowFacts
  <2>3. ~f.media \/ ~f.dma
    BY <1>6
  <2> HIDE DEF e
  <2>4. /\ WriteOver(f, e)
        /\ f.dma => e.answer.code = "NW" /\ e.image = f.image
    BY <2>1, <2>2, <2>3 DEF WriteOver
  <2> QED BY <2>4 DEF e
<1> HIDE DEF e
<1> QED BY <1>3, <1>4, <1>5, <1>6

(* A command that moves nothing.                                            *)
Idle(f, e, cmd) == Over(f, e, cmd) /\ e.pending = NoTransfer /\ e.image = f.image

LEMMA VerifyFacts ==
  ASSUME NEW f \in FdRegs, f.pending = NoTransfer, NEW p \in Params
  PROVE  Idle(f, Verify(f, p), "verify")
<1>1. "verify" \in Commands /\ "ND" \in Codes \ {"seek_end"}
  BY DEF Commands, Transfers, Codes
<1> DEFINE x == Normal(f, "verify", p)
           y == Fails(f, "verify", "ND", p)
<1>2. Over(f, x, "verify") /\ x.pending = f.pending /\ x.image = f.image
  BY <1>1, NormalFacts
<1>3. Over(f, y, "verify") /\ y.pending = f.pending /\ y.image = f.image
  BY <1>1, FailsFacts
<1>4. Verify(f, p) \in {x, y}
  BY DEF Verify
<1> HIDE DEF x, y
<1> QED BY <1>2, <1>3, <1>4 DEF Idle

LEMMA DeletedFacts ==
  ASSUME NEW f \in FdRegs, NEW p \in Params
  PROVE  /\ Idle(f, ReadDeleted(f, p), "read_deleted")
         /\ Idle(f, WriteDeleted(f, p), "write_deleted")
<1> DEFINE g == [f EXCEPT !.pending = NoTransfer]
           h == [f EXCEPT !.pending = NoTransfer, !.lastWrite = <<>>]
           x == Fails(g, "read_deleted", "ND", p)
           y == Fails(h, "write_deleted", "NW", p)
<1>1. /\ {"read_deleted", "write_deleted"} \subseteq Commands
      /\ "ND" \in Codes \ {"seek_end"} /\ "NW" \in Codes \ {"seek_end"}
  BY DEF Commands, Transfers, Codes
<1>2. ReadDeleted(f, p) = x /\ WriteDeleted(f, p) = y
  BY DEF ReadDeleted, WriteDeleted
<1>3. g \in FdRegs /\ Beside(f, g) /\ g.pending = NoTransfer /\ g.image = f.image
  BY Rearmed
<1>4. h \in FdRegs /\ Beside(f, h) /\ h.pending = NoTransfer /\ h.image = f.image
  <2>1. h \in FdRegs
    BY FdFirstValues DEF FdRegs
  <2>2. Beside(f, h) /\ h.pending = NoTransfer /\ h.image = f.image
    BY DEF FdRegs, Beside
  <2> QED BY <2>1, <2>2
<1> HIDE DEF g, h
<1>5. Over(g, x, "read_deleted") /\ x.pending = g.pending /\ x.image = g.image
  BY <1>1, <1>3, FailsFacts
<1>6. Over(h, y, "write_deleted") /\ y.pending = h.pending /\ y.image = h.image
  BY <1>1, <1>4, FailsFacts
<1> HIDE DEF x, y
<1> QED BY <1>2, <1>3, <1>4, <1>5, <1>6, OverFrom DEF Idle

LEMMA ReadIdFacts ==
  ASSUME NEW f \in FdRegs, f.pending = NoTransfer, NEW p \in Params
  PROVE  Idle(f, ReadId(f, p), "read_id")
<1> DEFINE n == f.readId[p.unit]
           m == (n + 1) % TrackSectors
           r == [f.readId EXCEPT ![p.unit] = m]
           g == [f EXCEPT !.readId = r]
           x == Ends(g, "read_id", "normal", p.unit, p.h, n + 1)
           y == Ends(f, "read_id", "MA", p.unit, p.h, 0)
<1>1. /\ "read_id" \in Commands /\ "normal" \in Codes \ {"seek_end"}
      /\ "MA" \in Codes \ {"seek_end"} /\ p.unit \in Units4 /\ p.h \in Heads
  BY CommandParts DEF Commands, Transfers, Codes
<1>2. n \in Nat
  BY <1>1, FdcAssumption DEF FdRegs
<1>3. n + 1 \in Nat /\ m \in 0 .. TrackSectors - 1
  <2> HIDE DEF n
  <2> QED BY <1>2, Remainder, FdcAssumption
<1>4. g = [f EXCEPT !.readId[p.unit] = (@ + 1) % TrackSectors]
  OBVIOUS
<1>5. ReadId(f, p) \in {x, y}
  BY <1>4 DEF ReadId
<1> HIDE DEF n, m
<1>6. r \in [Units4 -> 0 .. TrackSectors - 1]
  BY <1>3 DEF FdRegs
<1> HIDE DEF r
<1>7. g \in FdRegs
  BY <1>6 DEF FdRegs
<1>8. Beside(f, g) /\ g.pending = f.pending /\ g.image = f.image
  BY DEF FdRegs, Beside
<1> HIDE DEF g
<1>9. Over(g, x, "read_id") /\ x.pending = g.pending /\ x.image = g.image
  BY <1>1, <1>3, <1>7, EndsFacts
<1>10. Over(f, y, "read_id") /\ y.pending = f.pending /\ y.image = f.image
  BY <1>1, EndsFacts
<1> HIDE DEF x, y
<1>11. Over(f, x, "read_id")
  BY <1>8, <1>9, OverFrom
<1> QED BY <1>5, <1>8, <1>9, <1>10, <1>11 DEF Idle

LEMMA FormatTrackFacts ==
  ASSUME NEW f \in FdRegs, NEW p \in Params
  PROVE  Over(f, FormatTrack(f, p), "format") /\ FormatTrack(f, p).pending = f.pending
<1> DEFINE track == [i \in 1 .. p.eot |-> <<f.pcn[p.unit], p.h, i>>]
           fill  == [i \in 1 .. p.eot * SectorBytes |-> <<"fill">>]
           ok    == f.media /\ ~f.wp /\ p.sized /\ Valid(track)
           w     == WriteCells(f, track, p.eot, fill)
           x     == Ends(w, "format", "normal", p.unit, p.h, 0)
           y     == Ends(f, "format", "NW", p.unit, p.h, 0)
           e     == FormatTrack(f, p)
<1>1. /\ "format" \in Commands /\ "normal" \in Codes \ {"seek_end"}
      /\ "NW" \in Codes \ {"seek_end"} /\ p.unit \in Units4 /\ p.h \in Heads
      /\ p.eot \in Nat
  BY CommandParts DEF Commands, Transfers, Codes
<1>2. e \in {x, y}
  <2>1. CASE ok
    BY <2>1 DEF FormatTrack
  <2>2. CASE ~ok
    BY <2>2 DEF FormatTrack
  <2> QED BY <2>1, <2>2
<1>3. p.eot * SectorBytes \in Nat
  BY <1>1, FdcAssumption
<1>4. fill \in Seq(Byte) /\ Len(fill) = p.eot * SectorBytes
  <2>1. fill \in [1 .. p.eot * SectorBytes -> Byte]
    BY DEF Byte
  <2> QED BY <1>3, <2>1, FunctionIsSequence
<1> HIDE DEF fill, track
<1>5. fill \in Seq(Byte) /\ p.eot \in Nat /\ p.eot * SectorBytes <= Len(fill)
  BY <1>1, <1>3, <1>4
<1>6. w \in FdRegs /\ Beside(f, w) /\ w.pending = f.pending
  BY <1>5, WriteCellsFacts DEF WroteOnly
<1> HIDE DEF w
<1>7. Over(w, x, "format") /\ x.pending = w.pending
  BY <1>1, <1>6, EndsFacts
<1>8. Over(f, y, "format") /\ y.pending = f.pending
  BY <1>1, EndsFacts
<1> HIDE DEF x, y
<1>9. Over(f, x, "format")
  BY <1>6, <1>7, OverFrom
<1> HIDE DEF e
<1>10. Over(f, e, "format") /\ e.pending = f.pending
  BY <1>2, <1>6, <1>7, <1>8, <1>9
<1> QED BY <1>10 DEF e

LEMMA ImpliedSeekFacts ==
  ASSUME NEW f \in FdRegs, NEW p \in Params
  PROVE  LET g == ImpliedSeek(f, p) IN
         /\ g \in FdRegs /\ Beside(f, g)
         /\ g.image = f.image /\ g.pending = f.pending /\ g.lastWrite = f.lastWrite
<1> DEFINE n == [f.pcn EXCEPT ![p.unit] = p.c]
           g == [f EXCEPT !.pcn = n]
<1>1. n \in [Units4 -> 0 .. MaxCylinder]
  BY CommandParts DEF FdRegs
<1>2. ImpliedSeek(f, p) \in {f, g}
  BY DEF ImpliedSeek
<1> HIDE DEF n
<1>3. g \in FdRegs
  BY <1>1 DEF FdRegs
<1>4. Beside(f, g) /\ g.image = f.image /\ g.pending = f.pending /\ g.lastWrite = f.lastWrite
  BY DEF FdRegs, Beside
<1>5. Beside(f, f)
  BY DEF Beside
<1> HIDE DEF g
<1> QED BY <1>2, <1>3, <1>4, <1>5

(* What the execution of a command leaves.                                  *)
Executed(f, e, cmd, p) ==
  /\ Over(f, e, cmd)
  /\ e.pending # NoTransfer => f.dma
  /\ cmd = "read" => ReadOver(f, e, cmd, p, Span(p, f.mt))
  /\ cmd = "read_track" => ReadOver(f, e, cmd, p, TrackSpan(p))
  /\ cmd = "write" /\ f.lastWrite = <<>> /\ f.dma =>
       \/ WriteArmed(f, e, p)
       \/ e.answer.code = "NW" /\ e.image = f.image /\ e.pending = NoTransfer
  /\ cmd \notin {"read", "read_track", "write"} => e.pending = NoTransfer
  /\ cmd \notin {"write", "format"} => e.image = f.image

LEMMA ExecuteFacts ==
  ASSUME NEW f \in FdRegs, f.pending = NoTransfer, NEW cmd \in Transfers, NEW p \in Params
  PROVE  Executed(f, Execute(f, cmd, p), cmd, p)
<1> DEFINE g == ImpliedSeek(f, p)
           e == Execute(f, cmd, p)
<1>1. /\ g \in FdRegs /\ Beside(f, g)
      /\ g.image = f.image /\ g.pending = NoTransfer /\ g.lastWrite = f.lastWrite
  BY ImpliedSeekFacts
<1>2. \A span : SpanData(g, span) = SpanData(f, span)
  BY <1>1 DEF SpanData
<1>3. g.dma = f.dma /\ g.mt = f.mt /\ g.media = f.media
  BY <1>1 DEF Beside
<1>4. CASE cmd = "read"
  <2>1. e = ReadData(g, p)
    BY <1>4 DEF Execute
  <2> HIDE DEF e, g
  <2>2. ReadOver(g, e, "read", p, Span(p, f.mt))
    BY <1>1, <1>3, <2>1, ReadDataFacts
  <2>3. ReadOver(f, e, "read", p, Span(p, f.mt))
    BY <1>1, <1>2, <1>3, <2>2, OverFrom DEF ReadOver
  <2>4. Executed(f, e, cmd, p)
    BY <1>4, <2>3 DEF Executed, ReadOver
  <2> QED BY <2>4 DEF e
<1>5. CASE cmd = "read_track"
  <2>1. e = ReadTrack(g, p)
    BY <1>5 DEF Execute
  <2> HIDE DEF e, g
  <2>2. ReadOver(g, e, "read_track", p, TrackSpan(p))
    BY <1>1, <1>3, <2>1, ReadTrackFacts
  <2>3. ReadOver(f, e, "read_track", p, TrackSpan(p))
    BY <1>1, <1>2, <1>3, <2>2, OverFrom DEF ReadOver
  <2>4. Executed(f, e, cmd, p)
    BY <1>5, <2>3 DEF Executed, ReadOver
  <2> QED BY <2>4 DEF e
<1>6. CASE cmd = "write"
  <2>1. e = WriteData(g, p)
    BY <1>6 DEF Execute
  <2> HIDE DEF e, g
  <2>2. /\ WriteOver(g, e) \/ WriteArmed(g, e, p)
        /\ g.lastWrite = <<>> /\ g.dma =>
              \/ WriteArmed(g, e, p)
              \/ /\ WriteOver(g, e)
                 /\ e.answer.code = "NW" /\ e.image = g.image
    BY <1>1, <2>1, WriteDataFacts
  <2>3. WriteArmed(g, e, p) => WriteArmed(f, e, p)
    BY <1>1, <1>3, OverFrom DEF WriteArmed
  <2>4. WriteOver(g, e) => Over(f, e, "write") /\ e.pending = NoTransfer
    BY <1>1, OverFrom DEF WriteOver
  <2>5. Over(f, e, "write") /\ (e.pending # NoTransfer => f.dma)
    BY <2>2, <2>3, <2>4 DEF WriteArmed
  <2>6. f.lastWrite = <<>> /\ f.dma =>
          \/ WriteArmed(f, e, p)
          \/ e.answer.code = "NW" /\ e.image = f.image /\ e.pending = NoTransfer
    BY <1>1, <1>3, <2>2, <2>3, <2>4
  <2>7. Executed(f, e, cmd, p)
    BY <1>6, <2>5, <2>6 DEF Executed
  <2> QED BY <2>7 DEF e
<1>7. CASE cmd \in {"verify", "read_deleted", "write_deleted", "read_id"}
  <2>1. Idle(f, e, cmd)
    <3>1. CASE cmd = "verify"
      <4>1. e = Verify(g, p)
        BY <3>1 DEF Execute
      <4> HIDE DEF e, g
      <4>2. Idle(g, e, cmd)
        BY <1>1, <3>1, <4>1, VerifyFacts
      <4>3. Idle(f, e, cmd)
        BY <1>1, <4>2, OverFrom DEF Idle
      <4> QED BY <4>3 DEF e
    <3>2. CASE cmd = "read_deleted"
      <4>1. e = ReadDeleted(g, p)
        BY <3>2 DEF Execute
      <4> HIDE DEF e, g
      <4>2. Idle(g, e, cmd)
        BY <1>1, <3>2, <4>1, DeletedFacts
      <4>3. Idle(f, e, cmd)
        BY <1>1, <4>2, OverFrom DEF Idle
      <4> QED BY <4>3 DEF e
    <3>3. CASE cmd = "write_deleted"
      <4>1. e = WriteDeleted(g, p)
        BY <3>3 DEF Execute
      <4> HIDE DEF e, g
      <4>2. Idle(g, e, cmd)
        BY <1>1, <3>3, <4>1, DeletedFacts
      <4>3. Idle(f, e, cmd)
        BY <1>1, <4>2, OverFrom DEF Idle
      <4> QED BY <4>3 DEF e
    <3>4. CASE cmd = "read_id"
      <4>1. e = ReadId(f, p)
        BY <3>4 DEF Execute
      <4> HIDE DEF e
      <4>2. Idle(f, e, cmd)
        BY <3>4, <4>1, ReadIdFacts
      <4> QED BY <4>2 DEF e
    <3> QED BY <1>7, <3>1, <3>2, <3>3, <3>4
  <2> HIDE DEF e
  <2>2. Executed(f, e, cmd, p)
    BY <1>7, <2>1 DEF Executed, Idle
  <2> QED BY <2>2 DEF e
<1>8. CASE cmd = "format"
  <2>1. e = FormatTrack(f, p)
    BY <1>8 DEF Execute
  <2>2. Over(f, e, "format") /\ e.pending = NoTransfer
    BY <2>1, FormatTrackFacts
  <2> HIDE DEF e
  <2>3. Executed(f, e, cmd, p)
    BY <1>8, <2>2 DEF Executed
  <2> QED BY <2>3 DEF e
<1> QED BY <1>4, <1>5, <1>6, <1>7, <1>8 DEF Transfers

----------------------------------------------------------------------------
(* The bus.                                                                 *)

(* What the bus does not touch: it ends no command, it only corrects where  *)
(* the command ended.                                                       *)
Carried(f, e) ==
  /\ e \in FdRegs /\ Beside(f, e)
  /\ e.irq = f.irq /\ e.phase = f.phase
  /\ e.answer.code \in {f.answer.code, "EN"}

LEMMA CarriedOn ==
  ASSUME NEW f, NEW g, NEW e, Carried(f, g), Carried(g, e)
  PROVE  Carried(f, e)
BY DEF Carried, Beside

LEMMA EndCellFacts ==
  ASSUME NEW f \in FdRegs, NEW p \in Params, NEW bytes \in Nat
  PROVE  /\ EndCell(f, p, bytes) \in Places
         /\ bytes \in 1 .. Len(Span(p, f.mt)) * SectorBytes =>
              EndCell(f, p, bytes) = Span(p, f.mt)[((bytes - 1) \div SectorBytes) + 1]
         /\ EndCell(f, p, bytes)[1] = p.c
<1> DEFINE span == Span(p, f.mt)
           i    == IF bytes = 0 THEN 1 ELSE ((bytes - 1) \div SectorBytes) + 1
           out  == <<p.c, p.h, LastSector(p)>>
<1>1. /\ span \in Seq(Places) /\ Len(span) \in Nat
      /\ \A k \in 1 .. Len(span) : span[k][1] = p.c
      /\ \A k \in 1 .. Len(span) : span[k] \in Places
  BY SpanTyped DEF FdRegs
<1>2. out \in Places /\ out[1] = p.c
  BY CommandParts, FdcAssumption DEF Places
<1>3. i \in Nat /\ i >= 1
  <2>1. CASE bytes = 0
    BY <2>1
  <2>2. CASE bytes # 0
    <3>1. bytes - 1 \in Nat
      BY <2>2
    <3>2. (bytes - 1) \div SectorBytes \in Nat
      BY <3>1, FdcAssumption, Quotient
    <3> QED BY <2>2, <3>2
  <2> QED BY <2>1, <2>2
<1>4. EndCell(f, p, bytes) = IF i <= Len(span) THEN span[i] ELSE out
  BY DEF EndCell
<1>5. ASSUME bytes \in 1 .. Len(span) * SectorBytes
      PROVE  i = ((bytes - 1) \div SectorBytes) + 1 /\ i <= Len(span)
  <2>1. bytes # 0 /\ bytes - 1 \in Nat /\ bytes - 1 < Len(span) * SectorBytes
    BY <1>1, <1>5, FdcAssumption
  <2>2. (bytes - 1) \div SectorBytes < Len(span) /\ (bytes - 1) \div SectorBytes \in Nat
    BY <1>1, <2>1, FdcAssumption, Quotient, QuotientBelow
  <2>3. i = ((bytes - 1) \div SectorBytes) + 1
    BY <2>1
  <2> HIDE DEF i
  <2> QED BY <1>1, <2>2, <2>3
<1> HIDE DEF i, span, out
<1>6. EndCell(f, p, bytes) \in Places /\ EndCell(f, p, bytes)[1] = p.c
  BY <1>1, <1>2, <1>3, <1>4
<1>7. bytes \in 1 .. Len(span) * SectorBytes =>
        EndCell(f, p, bytes) = span[((bytes - 1) \div SectorBytes) + 1]
  BY <1>4, <1>5
<1> QED BY <1>6, <1>7 DEF span

LEMMA EarlyStopFacts ==
  ASSUME NEW f \in FdRegs, NEW p \in Params, NEW bytes \in Nat
  PROVE  LET e == EarlyStop(f, p, bytes) IN
         /\ Carried(f, e) /\ e.pending = f.pending /\ e.image = f.image
         /\ e.answer.code = "EN"
         /\ <<p.c, e.answer.head, e.answer.sector>> = EndCell(f, p, bytes)
<1> DEFINE cell == EndCell(f, p, bytes)
           a    == [code |-> "EN", unit |-> p.unit, head |-> cell[2], sector |-> cell[3]]
           e    == [f EXCEPT !.answer = a]
<1>1. EarlyStop(f, p, bytes) = e
  BY DEF EarlyStop
<1>2. cell \in Places /\ cell[1] = p.c
  BY EndCellFacts
<1> HIDE DEF cell
<1>3. cell = <<p.c, cell[2], cell[3]>> /\ cell[2] \in Heads /\ cell[3] \in Nat
  BY <1>2 DEF Places
<1>4. a \in Answer /\ a.code = "EN" /\ a.head = cell[2] /\ a.sector = cell[3]
  BY <1>3, CommandParts DEF Answer, Codes
<1> HIDE DEF a
<1>5. e \in FdRegs
  BY <1>4 DEF FdRegs
<1>6. /\ Beside(f, e) /\ e.irq = f.irq /\ e.phase = f.phase /\ e.answer = a
      /\ e.pending = f.pending /\ e.image = f.image
  BY DEF FdRegs, Beside
<1> HIDE DEF e
<1> QED BY <1>1, <1>3, <1>4, <1>5, <1>6 DEF Carried, cell

(* The image a write leaves, and its result.                                *)
LEMMA CommitFacts ==
  ASSUME NEW f \in FdRegs, NEW p \in Params, NEW data \in Seq(Byte)
  PROVE  LET e    == CommitDmaWrite(f, p, data)
             span == Span(p, f.mt)
         IN /\ Carried(f, e) /\ e.pending = f.pending
            /\ e.image = WriteCells(f, span, Len(data) \div SectorBytes, data).image
            /\ Len(data) < Len(span) * SectorBytes => e.answer.code = "EN"
            /\ ~(Len(data) < Len(span) * SectorBytes) => e.answer.code = f.answer.code
<1> DEFINE span     == Span(p, f.mt)
           complete == Len(data) \div SectorBytes
           written  == WriteCells(f, span, complete, data)
           part     == SubSeq(data, 1, complete * SectorBytes)
           g        == [written EXCEPT !.lastWrite = part]
           h        == [written EXCEPT !.lastWrite = data]
           e        == CommitDmaWrite(f, p, data)
<1>1. complete \in Nat /\ complete * SectorBytes <= Len(data)
      /\ complete * SectorBytes \in Nat /\ Len(data) \in Nat
  <2> DEFINE n == Len(data)
  <2>1. n \in Nat
    OBVIOUS
  <2> HIDE DEF n
  <2>2. /\ n \div SectorBytes \in Nat /\ n % SectorBytes \in 0 .. SectorBytes - 1
        /\ n = (n \div SectorBytes) * SectorBytes + (n % SectorBytes)
    BY <2>1, FdcAssumption, Quotient
  <2> DEFINE q == n \div SectorBytes
  <2> HIDE DEF q
  <2>5. q \in Nat
    BY <2>2 DEF q
  <2>3. q * SectorBytes \in Nat
    BY <2>5, FdcAssumption
  <2>4. q * SectorBytes <= n
    BY <2>1, <2>2, <2>3, FdcAssumption DEF q
  <2> QED BY <2>1, <2>2, <2>3, <2>4 DEF n, q
<1>2. /\ Len(data) < Len(span) * SectorBytes => e = EarlyStop(g, p, Len(data))
      /\ ~(Len(data) < Len(span) * SectorBytes) => e = h
  BY DEF CommitDmaWrite
<1>3. part \in Seq(Byte)
  <2> DEFINE n == complete * SectorBytes
  <2>1. \A k \in 1 .. n : data[k] \in Byte
    BY <1>1
  <2> HIDE DEF complete
  <2>2. n \in Int
    BY <1>1
  <2> HIDE DEF n
  <2>3. SubSeq(data, 1, n) \in Seq(Byte)
    BY <2>1, <2>2, SubSeqProperties
  <2> QED BY <2>3 DEF n
<1> HIDE DEF complete, span, part
<1>5. /\ written \in FdRegs /\ Beside(f, written)
      /\ written.pending = f.pending /\ written.irq = f.irq
      /\ written.phase = f.phase /\ written.answer = f.answer
  BY <1>1, WriteCellsFacts DEF WroteOnly
<1> HIDE DEF written
<1>6. ASSUME NEW w \in Seq(Byte)
      PROVE  LET x == [written EXCEPT !.lastWrite = w] IN
             /\ x \in FdRegs /\ Beside(f, x) /\ x.irq = f.irq /\ x.phase = f.phase
             /\ x.answer = f.answer /\ x.pending = f.pending /\ x.image = written.image
  <2> DEFINE x == [written EXCEPT !.lastWrite = w]
  <2>1. x \in FdRegs
    BY <1>5 DEF FdRegs
  <2>2. /\ Beside(written, x) /\ x.irq = written.irq /\ x.phase = written.phase
        /\ x.answer = written.answer /\ x.pending = written.pending
        /\ x.image = written.image
    BY <1>5 DEF FdRegs, Beside
  <2> HIDE DEF x
  <2>3. /\ x \in FdRegs /\ Beside(f, x) /\ x.irq = f.irq /\ x.phase = f.phase
        /\ x.answer = f.answer /\ x.pending = f.pending /\ x.image = written.image
    BY <1>5, <2>1, <2>2 DEF Beside
  <2> QED BY <2>3 DEF x
<1>7. /\ g \in FdRegs /\ Beside(f, g) /\ g.irq = f.irq /\ g.phase = f.phase
      /\ g.answer = f.answer /\ g.pending = f.pending /\ g.image = written.image
  BY <1>3, <1>6
<1>8. /\ h \in FdRegs /\ Beside(f, h) /\ h.irq = f.irq /\ h.phase = f.phase
      /\ h.answer = f.answer /\ h.pending = f.pending /\ h.image = written.image
  BY <1>6
<1> HIDE DEF g, h
<1>9. Carried(f, g) /\ Carried(f, h)
  BY <1>7, <1>8 DEF Carried
<1>10. CASE Len(data) < Len(span) * SectorBytes
  <2> DEFINE x == EarlyStop(g, p, Len(data))
  <2>1. /\ Carried(g, x) /\ x.pending = g.pending /\ x.image = g.image
        /\ x.answer.code = "EN"
    BY <1>1, <1>7, EarlyStopFacts
  <2>2. e = x
    BY <1>2, <1>10
  <2> HIDE DEF x, e
  <2> QED BY <1>7, <1>9, <1>10, <2>1, <2>2, CarriedOn DEF e, written, complete, span
<1>11. CASE ~(Len(data) < Len(span) * SectorBytes)
  <2>1. e = h
    BY <1>2, <1>11
  <2> HIDE DEF e
  <2> QED BY <1>8, <1>9, <1>11, <2>1 DEF e, written, complete, span
<1> QED BY <1>10, <1>11

LEMMA DisarmedFacts ==
  ASSUME NEW f \in FdRegs, f.pending # NoTransfer => f.dma
  PROVE  LET g == Disarmed(f) IN
         /\ Carried(f, g) /\ g.pending = NoTransfer
         /\ g.image = f.image /\ g.answer = f.answer
<1> DEFINE g == [f EXCEPT !.pending = NoTransfer]
<1>1. g \in FdRegs
  BY DEF FdRegs
<1>2. /\ Beside(f, g) /\ g.irq = f.irq /\ g.phase = f.phase /\ g.answer = f.answer
      /\ g.pending = NoTransfer /\ g.image = f.image
  BY DEF FdRegs, Beside
<1>3. CASE f.pending = NoTransfer
  <2>1. Disarmed(f) = f
    BY <1>3 DEF Disarmed, Armed
  <2>2. Carried(f, f)
    BY DEF Carried, Beside
  <2> QED BY <1>3, <2>1, <2>2
<1>4. CASE f.pending # NoTransfer
  <2>1. Disarmed(f) = g
    BY <1>4 DEF Disarmed, Armed
  <2> HIDE DEF g
  <2> QED BY <1>1, <1>2, <2>1 DEF Carried
<1> QED BY <1>3, <1>4

LEMMA BlockReadTyped ==
  ASSUME NEW d \in DmaController, NEW c \in DmaChannels, NEW buf \in Seq(Byte),
         NEW m \in [Addresses -> Byte], Units(d, c) <= Len(buf)
  PROVE  LET b == BlockRead(d, c, buf, m) IN
         /\ b \in Seq(Byte) /\ Len(b) = Units(d, c)
         /\ d.channels[c].mode.xfer = "read" =>
              \A n \in 1 .. Units(d, c) : b[n] = m[ByteAddr(d, c, n)]
<1>1. Units(d, c) \in Nat
  BY UnitsTyped, PageBytes
<1>2. ASSUME NEW n \in 1 .. Units(d, c)
      PROVE  m[ByteAddr(d, c, n)] \in Byte /\ buf[n] \in Byte
  <2>1. ByteAddr(d, c, n) \in Addresses
    BY BytesInMemory
  <2>2. n \in 1 .. Len(buf)
    BY <1>1
  <2> QED BY <2>1, <2>2
<1>3. BlockRead(d, c, buf, m) \in [1 .. Units(d, c) -> Byte]
  BY <1>2 DEF BlockRead
<1>4. d.channels[c].mode.xfer = "read" =>
        \A n \in 1 .. Units(d, c) : BlockRead(d, c, buf, m)[n] = m[ByteAddr(d, c, n)]
  BY DEF BlockRead
<1> QED BY <1>1, <1>3, <1>4, FunctionIsSequence

LEMMA BlockWrittenTyped ==
  ASSUME NEW d \in DmaController, NEW c \in DmaChannels, NEW buf \in Seq(Byte),
         NEW m \in [Addresses -> Byte], Units(d, c) <= Len(buf)
  PROVE  BlockWritten(d, c, buf, m) \in [Addresses -> Byte]
<1>1. Units(d, c) \in Nat
  BY UnitsTyped, PageBytes
<1>2. \A n \in 1 .. Units(d, c) : buf[n] \in Byte
  BY <1>1
<1>3. DOMAIN m = Addresses /\ \A a \in Addresses : m[a] \in Byte
  OBVIOUS
<1>4. ASSUME NEW a \in Addresses
      PROVE  (IF \E n \in 1 .. Units(d, c) : ByteAddr(d, c, n) = a
              THEN buf[CHOOSE n \in 1 .. Units(d, c) : ByteAddr(d, c, n) = a]
              ELSE m[a]) \in Byte
  <2>1. CASE \E n \in 1 .. Units(d, c) : ByteAddr(d, c, n) = a
    <3>1. (CHOOSE n \in 1 .. Units(d, c) : ByteAddr(d, c, n) = a) \in 1 .. Units(d, c)
      BY <2>1
    <3> QED BY <1>2, <2>1, <3>1
  <2>2. CASE ~\E n \in 1 .. Units(d, c) : ByteAddr(d, c, n) = a
    BY <1>3, <2>2
  <2> QED BY <2>1, <2>2
<1> QED BY <1>3, <1>4 DEF BlockWritten

(* The image and the answer after the bus has looked for a transfer: none   *)
(* taken, one that was read, one that is written.                           *)
NothingMoved(f, e) == e.image = f.image /\ e.answer = f.answer

ReadMoved(f, e) ==
  LET n == Units(dma, Channel2)
      x == f.pending
  IN /\ e.image = f.image
     /\ n < Len(x.data) =>
          /\ e.answer.code = "EN"
          /\ <<x.p.c, e.answer.head, e.answer.sector>> = EndCell(f, x.p, n)
     /\ ~(n < Len(x.data)) => e.answer = f.answer

WriteMoved(f, e) ==
  LET n    == Units(dma, Channel2)
      x    == f.pending
      span == Span(x.p, f.mt)
  IN /\ e.image = WriteCells(f, span, n \div SectorBytes,
                    BlockRead(dma, Channel2, x.data, mem)).image
     /\ n < Len(span) * SectorBytes => e.answer.code = "EN"
     /\ ~(n < Len(span) * SectorBytes) => e.answer.code = f.answer.code

LEMMA TakenFacts ==
  ASSUME NEW f \in FdRegs, dma \in DmaController, Taken(f)
  PROVE  /\ f.pending \in Transfer /\ Channel2 \notin dma.mask
         /\ f.pending.kind \in {"read", "write"} /\ f.pending.p \in Params
         /\ f.pending.data \in Seq(Byte) /\ Units(dma, Channel2) <= Len(f.pending.data)
         /\ Units(dma, Channel2) \in Nat \ {0}
<1>1. f.pending \in Transfer
  BY DEF Taken, Armed, FdRegs
<1>2. Channel2 \notin dma.mask /\ Units(dma, Channel2) <= Len(f.pending.data)
  BY DEF Taken, Accepts
<1>3. Units(dma, Channel2) \in Nat \ {0}
  BY UnitsTyped, PageBytes, FloppyAssumption
<1> QED BY <1>1, <1>2, <1>3 DEF Transfer

LEMMA MovedFacts ==
  ASSUME NEW f \in FdRegs, f.pending # NoTransfer => f.dma,
         dma \in DmaController, mem \in [Addresses -> Byte]
  PROVE  LET e == Moved(f) IN
         /\ Carried(f, e) /\ e.pending = NoTransfer
         /\ ~Taken(f) => NothingMoved(f, e)
         /\ Taken(f) /\ f.pending.kind = "read" => ReadMoved(f, e)
         /\ Taken(f) /\ f.pending.kind = "write" => WriteMoved(f, e)
<1> DEFINE g   == Disarmed(f)
           x   == f.pending
           n   == Units(dma, Channel2)
           buf == BlockRead(dma, Channel2, x.data, mem)
           e   == Moved(f)
<1>1. /\ Carried(f, g) /\ g.pending = NoTransfer /\ g.image = f.image
      /\ g.answer = f.answer
  BY DisarmedFacts
<1>2. g \in FdRegs /\ g.mt = f.mt /\ g.media = f.media
  BY <1>1 DEF Carried, Beside
<1>3. CASE ~Taken(f)
  <2>1. e = g
    BY <1>3 DEF Moved
  <2> HIDE DEF e, g
  <2>2. Carried(f, e) /\ e.pending = NoTransfer /\ NothingMoved(f, e)
    BY <1>1, <2>1 DEF NothingMoved
  <2> QED BY <1>3, <2>2 DEF e
<1>4. CASE Taken(f) /\ x.kind = "read"
  <2>1. /\ n < Len(x.data) => e = EarlyStop(g, x.p, n)
        /\ ~(n < Len(x.data)) => e = g
    BY <1>4 DEF Moved
  <2>2. n \in Nat /\ x.p \in Params
    BY <1>4, TakenFacts
  <2> DEFINE s == EarlyStop(g, x.p, n)
  <2> HIDE DEF e, n, g, x
  <2>3. /\ Carried(g, s) /\ s.pending = g.pending /\ s.image = g.image
        /\ s.answer.code = "EN"
        /\ <<x.p.c, s.answer.head, s.answer.sector>> = EndCell(g, x.p, n)
    BY <1>2, <2>2, EarlyStopFacts
  <2>4. EndCell(g, x.p, n) = EndCell(f, x.p, n)
    BY <1>2 DEF EndCell
  <2> HIDE DEF s
  <2>5. Carried(f, s)
    BY <1>1, <2>3, CarriedOn
  <2>6. Carried(f, e) /\ e.pending = NoTransfer
    BY <1>1, <2>1, <2>3, <2>5 DEF s
  <2>7. ReadMoved(f, e)
    BY <1>1, <2>1, <2>3, <2>4 DEF ReadMoved, n, x, s
  <2> QED BY <1>4, <2>6, <2>7 DEF e, x
<1>5. CASE Taken(f) /\ x.kind = "write"
  <2>1. e = CommitDmaWrite(g, x.p, buf)
    BY <1>5 DEF Moved
  <2>2. x.p \in Params /\ x.data \in Seq(Byte) /\ n <= Len(x.data)
    BY <1>5, TakenFacts
  <2>3. buf \in Seq(Byte) /\ Len(buf) = n
    BY <2>2, BlockReadTyped, FloppyAssumption
  <2> DEFINE span == Span(x.p, f.mt)
             q    == n \div SectorBytes
  <2>4. Span(x.p, g.mt) = span
    BY <1>2
  <2> HIDE DEF e, g, buf
  <2>5. /\ Carried(g, e) /\ e.pending = g.pending
        /\ e.image = WriteCells(g, Span(x.p, g.mt), Len(buf) \div SectorBytes, buf).image
        /\ Len(buf) < Len(Span(x.p, g.mt)) * SectorBytes => e.answer.code = "EN"
        /\ ~(Len(buf) < Len(Span(x.p, g.mt)) * SectorBytes) =>
              e.answer.code = g.answer.code
    BY <1>2, <2>1, <2>2, <2>3, CommitFacts
  <2>6. WriteCells(g, span, q, buf).image = WriteCells(f, span, q, buf).image
    <3>1. WrittenCells(g, span, q) = WrittenCells(f, span, q)
      BY <1>2 DEF WrittenCells
    <3> HIDE DEF span, q
    <3> QED BY <1>1, <1>2, <3>1 DEF WriteCells, FdRegs
  <2>7. Carried(f, e) /\ e.pending = NoTransfer
    BY <1>1, <2>5, CarriedOn
  <2>8. /\ e.image = WriteCells(f, span, q, buf).image
        /\ n < Len(span) * SectorBytes => e.answer.code = "EN"
        /\ ~(n < Len(span) * SectorBytes) => e.answer.code = f.answer.code
    <3> HIDE DEF n, span
    <3> QED BY <1>1, <2>3, <2>4, <2>5, <2>6 DEF q
  <2>9. WriteMoved(f, e)
    BY <2>8 DEF WriteMoved, buf
  <2> QED BY <1>5, <2>7, <2>9 DEF e
<1>6. Taken(f) => x.kind \in {"read", "write"}
  BY TakenFacts
<1> HIDE DEF e
<1> QED BY <1>3, <1>4, <1>5, <1>6

(* The bus leaves the controller settled, the channel as programmed or      *)
(* masked, and memory as it was when the channel is masked.                 *)
LEMMA PumpFacts ==
  ASSUME NEW f \in FdRegs, Phased(f), f.pending # NoTransfer => f.dma,
         dma \in DmaController, mem \in [Addresses -> Byte], Pump(f)
  PROVE  /\ Settled(fdc') /\ Carried(f, fdc')
         /\ ~Taken(f) => NothingMoved(f, fdc') /\ dma' = dma /\ mem' = mem
         /\ Taken(f) => mem' = BlockWritten(dma, Channel2, f.pending.data, mem)
         /\ Taken(f) /\ f.pending.kind = "read" => ReadMoved(f, fdc')
         /\ Taken(f) /\ f.pending.kind = "write" => WriteMoved(f, fdc')
         /\ dma' \in DmaController /\ mem' \in [Addresses -> Byte]
         /\ Channel2 \notin dma'.mask =>
              /\ Channel2 \notin dma.mask
              /\ dma' = dma \/ dma.channels[Channel2].mode.auto
         /\ mem' # mem => Channel2 \notin dma.mask
<1>1. fdc' = Moved(f)
  BY DEF Pump
<1>2. /\ Carried(f, fdc') /\ fdc'.pending = NoTransfer
      /\ ~Taken(f) => NothingMoved(f, fdc')
      /\ Taken(f) /\ f.pending.kind = "read" => ReadMoved(f, fdc')
      /\ Taken(f) /\ f.pending.kind = "write" => WriteMoved(f, fdc')
  BY <1>1, MovedFacts
<1>3. Settled(fdc')
  BY <1>2 DEF Carried, Beside, Settled, Phased
<1>4. CASE ~Taken(f)
  <2>1. dma' = dma /\ mem' = mem
    BY <1>4 DEF Pump
  <2> QED BY <1>2, <1>3, <1>4, <2>1
<1>5. CASE Taken(f)
  <2>1. /\ dma' = TerminalCount(dma, Channel2)
        /\ mem' = BlockWritten(dma, Channel2, f.pending.data, mem)
    BY <1>5 DEF Pump
  <2>2. /\ dma' \in DmaController
        /\ Channel2 \notin dma'.mask =>
              dma.channels[Channel2].mode.auto /\ Channel2 \notin dma.mask
    BY <2>1, TerminalCountTyped, FloppyAssumption
  <2>3. mem' \in [Addresses -> Byte]
    BY <1>5, <2>1, TakenFacts, BlockWrittenTyped, FloppyAssumption
  <2>4. Channel2 \notin dma.mask
    BY <1>5, TakenFacts
  <2> QED BY <1>2, <1>3, <1>5, <2>1, <2>2, <2>3, <2>4
<1> QED BY <1>4, <1>5

(* An access that arms nothing leaves the rest as it was.                   *)
LEMMA QuietPump ==
  ASSUME NEW f, Settled(f), Pump(f)
  PROVE  fdc' = f /\ dma' = dma /\ mem' = mem
BY DEF Settled, Pump, Moved, Disarmed, Taken, Armed

----------------------------------------------------------------------------
(* The guest, the bus and the host together.                                *)

(* An interrupt that is not owed is not pending; the seek that is not yet   *)
(* reported is the one latched; an unmasked channel has been programmed.    *)
FdInv ==
  /\ Settled(fdc) /\ dma \in DmaController /\ mem \in [Addresses -> Byte]
  /\ moves \in 0 .. MaxMoves
  /\ owes \in BOOLEAN /\ sought \in 0 .. FddUnits /\ programmed \in BOOLEAN
  /\ ~owes => ~fdc.irq
  /\ sought # NoUnit => fdc.seekEnd = sought
  /\ Channel2 \notin dma.mask => programmed

(* What every step keeps besides: an interrupt that becomes owed is one     *)
(* that is raised, and memory is only written by a programmed channel.      *)
Kept ==
  /\ FdInv'
  /\ ~owes /\ owes' => fdc'.irq /\ fdc'.released
  /\ last' # NoCommand /\ mem' # mem => programmed

(* The channel as it was, or masked, or set up to begin again.              *)
StillProgrammed ==
  Channel2 \notin dma'.mask =>
    /\ Channel2 \notin dma.mask
    /\ dma' = dma \/ dma.channels[Channel2].mode.auto

LEMMA InvNoted ==
  ASSUME FdInv, NEW u \in BOOLEAN, NEW s \in 0 .. FddUnits, Noted(u, s),
         Settled(fdc'), dma' \in DmaController, mem' \in [Addresses -> Byte],
         moves' \in 0 .. MaxMoves, StillProgrammed,
         ~u => ~fdc'.irq, s # NoUnit => fdc'.seekEnd = s
  PROVE  FdInv'
<1>1. owes' = u /\ sought' = s
  BY DEF Noted
<1>2. programmed' \in BOOLEAN
  BY DEF Noted
<1>3. Channel2 \notin dma'.mask => programmed'
  <2> SUFFICES ASSUME Channel2 \notin dma'.mask
               PROVE  programmed'
    OBVIOUS
  <2>1. programmed /\ (dma' = dma \/ dma.channels[Channel2].mode.auto)
    BY DEF FdInv, StillProgrammed
  <2> QED BY <2>1, Zenon DEF Noted
<1> QED BY <1>1, <1>2, <1>3 DEF FdInv

(* An access whose transfer, if it arms one, is moved at once.              *)
LEMMA PumpSound ==
  ASSUME FdInv, NEW f \in FdRegs, Phased(f), f.pending # NoTransfer => f.dma, Pump(f),
         NEW u \in BOOLEAN, NEW s \in 0 .. FddUnits, Noted(u, s),
         moves' \in 0 .. MaxMoves,
         ~u => ~f.irq, s # NoUnit => f.seekEnd = s,
         ~owes /\ u => f.irq /\ f.released
  PROVE  Kept
<1>1. dma \in DmaController /\ mem \in [Addresses -> Byte]
  BY DEF FdInv
<1>2. /\ Settled(fdc') /\ Carried(f, fdc')
      /\ dma' \in DmaController /\ mem' \in [Addresses -> Byte]
      /\ StillProgrammed /\ (mem' # mem => Channel2 \notin dma.mask)
  BY <1>1, PumpFacts DEF StillProgrammed
<1>3. fdc'.irq = f.irq /\ fdc'.seekEnd = f.seekEnd /\ fdc'.released = f.released
  BY <1>2 DEF Carried, Beside
<1>4. FdInv'
  BY <1>2, <1>3, InvNoted
<1>5. owes' = u
  BY DEF Noted
<1>6. mem' # mem => programmed
  BY <1>2 DEF FdInv
<1> QED BY <1>3, <1>4, <1>5, <1>6 DEF Kept

LEMMA QuietSound ==
  ASSUME FdInv, NEW f, Settled(f), Pump(f),
         NEW u \in BOOLEAN, NEW s \in 0 .. FddUnits, Noted(u, s), UNCHANGED moves,
         ~u => ~f.irq, s # NoUnit => f.seekEnd = s,
         ~owes /\ u => f.irq /\ f.released
  PROVE  Kept
<1>1. f \in FdRegs /\ Phased(f) /\ f.pending = NoTransfer
  BY DEF Settled
<1>2. moves' \in 0 .. MaxMoves
  BY DEF FdInv
<1> QED BY <1>1, <1>2, PumpSound

LEMMA CommandsKnown ==
  ASSUME NEW g
  PROVE  CommandsOf(g) \subseteq Commands
BY DEF CommandsOf, Commands, Transfers

LEMMA GiveCommandSound ==
  ASSUME FdInv, NEW cmd \in CommandsOf(fdGuest), NEW mt \in BOOLEAN, GiveCommand(cmd, mt)
  PROVE  Kept
<1> DEFINE e == WriteCommand(fdc, cmd, mt)
<1>1. /\ Settled(fdc) /\ fdc.released /\ fdc.phase = CommandPhase /\ cmd \in Commands
      /\ owes \in BOOLEAN /\ sought \in 0 .. FddUnits /\ NoUnit \in 0 .. FddUnits
      /\ (~owes => ~fdc.irq) /\ (sought # NoUnit => fdc.seekEnd = sought)
  BY CommandsKnown, FdFirstValues DEF GiveCommand, FdInv
<1>2. /\ Settled(e)
      /\ cmd = "sense_int" =>
           /\ ~e.irq
           /\ e.answer.code # "seek_end" => e.seekEnd = fdc.seekEnd \/ fdc.seekEnd = NoUnit
      /\ cmd # "sense_int" => e.irq = fdc.irq /\ e.seekEnd = fdc.seekEnd
  BY <1>1, WriteCommandFacts
<1>3. Pump(e) /\ UNCHANGED moves
  BY DEF GiveCommand
<1> HIDE DEF e
<1>4. fdc' = e
  BY <1>2, <1>3, QuietPump
<1>5. CASE cmd = "sense_int"
  <2> DEFINE s == IF e.answer.code = "seek_end" THEN NoUnit ELSE sought
  <2>1. Noted(FALSE, s)
    BY <1>4, <1>5 DEF GiveCommand
  <2>2. s \in 0 .. FddUnits /\ (s # NoUnit => e.seekEnd = s)
    BY <1>1, <1>2, <1>5
  <2> HIDE DEF s
  <2> QED BY <1>2, <1>3, <1>5, <2>1, <2>2, QuietSound
<1>6. CASE cmd # "sense_int"
  <2>1. Noted(owes, sought)
    BY <1>6 DEF GiveCommand
  <2> QED BY <1>1, <1>2, <1>3, <1>6, <2>1, QuietSound
<1> QED BY <1>5, <1>6

LEMMA WriteParameterSound ==
  ASSUME FdInv, NEW on \in BOOLEAN, WriteParameter(on)
  PROVE  Kept
<1> DEFINE e == WriteParam(fdc, on)
<1>1. /\ Settled(fdc) /\ owes \in BOOLEAN /\ sought \in 0 .. FddUnits
      /\ (~owes => ~fdc.irq) /\ (sought # NoUnit => fdc.seekEnd = sought)
  BY DEF FdInv
<1>2. Settled(e) /\ e.irq = fdc.irq /\ e.seekEnd = fdc.seekEnd
  BY <1>1, WriteParamFacts DEF WriteParameter
<1>3. Pump(e) /\ UNCHANGED moves /\ Noted(owes, sought)
  BY DEF WriteParameter
<1> HIDE DEF e
<1> QED BY <1>1, <1>2, <1>3, QuietSound

LEMMA ExecutedPhased ==
  ASSUME NEW f, NEW e, NEW cmd \in Transfers, f.released, Over(f, e, cmd)
  PROVE  Phased(e) /\ e.released
<1>1. LongResult >= 1 /\ cmd # "sense_int"
  BY FdcAssumption DEF Transfers
<1> QED BY <1>1 DEF Over, Phased, Beside

LEMMA EndTransferSound ==
  ASSUME FdInv, NEW p \in Params, EndTransfer(p)
  PROVE  Kept
<1> DEFINE cmd == fdc.phase.cmd
           e   == Execute(fdc, cmd, p)
<1>1. /\ Settled(fdc) /\ fdc \in FdRegs /\ fdc.pending = NoTransfer /\ fdc.released
      /\ cmd \in Transfers
      /\ sought \in 0 .. FddUnits /\ (sought # NoUnit => fdc.seekEnd = sought)
  BY DEF FdInv, Settled, Phased, EndTransfer
<1>2. Executed(fdc, e, cmd, p)
  BY <1>1, ExecuteFacts
<1>3. Pump(e) /\ Noted(TRUE, sought)
  BY DEF EndTransfer
<1>4. moves' \in 0 .. MaxMoves
  BY FloppyAssumption DEF EndTransfer, FdInv
<1> HIDE DEF e, cmd
<1>5. /\ e \in FdRegs /\ Phased(e) /\ e.released /\ e.irq /\ e.seekEnd = fdc.seekEnd
      /\ e.pending # NoTransfer => e.dma
  BY <1>1, <1>2, ExecutedPhased DEF Executed, Over, Beside
<1> QED BY <1>1, <1>3, <1>4, <1>5, PumpSound

LEMMA EndCommandSound ==
  ASSUME FdInv, NEW unit \in Units4, NEW c \in 0 .. MaxCylinder, NEW on \in BOOLEAN,
         EndCommand([unit |-> unit, c |-> c, on |-> on])
  PROVE  Kept
<1> DEFINE p   == [unit |-> unit, c |-> c, on |-> on]
           cmd == fdc.phase.cmd
           e   == Finish(fdc, cmd, p)
<1>1. /\ Settled(fdc) /\ fdc.phase.kind = "params" /\ cmd \notin Transfers
      /\ owes \in BOOLEAN /\ sought \in 0 .. FddUnits
      /\ (~owes => ~fdc.irq) /\ (sought # NoUnit => fdc.seekEnd = sought)
      /\ unit \in 0 .. FddUnits
  BY FdcAssumption DEF FdInv, EndCommand, Units4
<1>2. /\ Settled(e)
      /\ cmd \in Seeks => e.irq /\ e.seekEnd = unit /\ e.released
      /\ cmd \notin Seeks => e.irq = fdc.irq /\ e.seekEnd = fdc.seekEnd
  BY <1>1, FinishFacts
<1>3. /\ Pump(e) /\ UNCHANGED moves
      /\ cmd \in Seeks => Noted(TRUE, unit)
      /\ cmd \notin Seeks => Noted(owes, sought)
  BY DEF EndCommand
<1> HIDE DEF e, p, cmd
<1>4. CASE cmd \in Seeks
  BY <1>1, <1>2, <1>3, <1>4, QuietSound
<1>5. CASE cmd \notin Seeks
  BY <1>1, <1>2, <1>3, <1>5, QuietSound
<1> QED BY <1>4, <1>5

LEMMA Untouched ==
  ASSUME FdInv, UNCHANGED <<dma, mem>>
  PROVE  /\ dma' \in DmaController /\ mem' \in [Addresses -> Byte] /\ StillProgrammed
         /\ Channel2 \notin dma'.mask => programmed
BY DEF FdInv, StillProgrammed

LEMMA ReadFifoSound ==
  ASSUME FdInv, ReadFifo
  PROVE  Kept
<1> DEFINE e     == ReadResult(fdc)
           first == fdc.phase.cmd \in Transfers /\ fdc.phase.left = LongResult
           u     == owes /\ ~first
<1>1. /\ Settled(fdc) /\ owes \in BOOLEAN /\ sought \in 0 .. FddUnits /\ HasResult(fdc)
      /\ (~owes => ~fdc.irq) /\ (sought # NoUnit => fdc.seekEnd = sought)
      /\ moves \in 0 .. MaxMoves
  BY DEF FdInv, ReadFifo
<1>2. /\ Settled(e) /\ e.seekEnd = fdc.seekEnd /\ (first => ~e.irq) /\ (e.irq => fdc.irq)
  BY <1>1, ReadResultFacts
<1>3. /\ fdc' = e /\ UNCHANGED <<dma, mem, moves>> /\ Noted(u, sought)
  BY DEF ReadFifo
<1>4. u \in BOOLEAN /\ (u => owes) /\ (owes /\ ~u => first)
  BY <1>1
<1> HIDE DEF e, u, first
<1>5. ~u => ~fdc'.irq
  BY <1>1, <1>2, <1>3, <1>4
<1>6. FdInv'
  BY <1>1, <1>2, <1>3, <1>4, <1>5, Untouched, InvNoted
<1>7. owes' = u
  BY <1>3 DEF Noted
<1> QED BY <1>3, <1>4, <1>6, <1>7 DEF Kept

LEMMA StoreDorSound ==
  ASSUME FdInv, NEW released \in BOOLEAN, NEW enable \in BOOLEAN,
         StoreDor(released, enable)
  PROVE  Kept
<1> DEFINE e       == WriteDor(fdc, released, enable)
           enters  == ~released /\ fdc.released
           leaves  == released /\ ~fdc.released /\ fdc.releaseOwed
<1>1. /\ Settled(fdc) /\ fdc \in FdRegs /\ fdc.pending = NoTransfer /\ Phased(fdc)
      /\ owes \in BOOLEAN /\ sought \in 0 .. FddUnits /\ NoUnit \in 0 .. FddUnits
      /\ (~owes => ~fdc.irq) /\ (sought # NoUnit => fdc.seekEnd = sought)
  BY FdFirstValues DEF FdInv, Settled
<1>2. /\ Settled(e)
      /\ enters => ~e.irq /\ e.seekEnd = NoUnit
      /\ leaves => e.irq /\ e.released
      /\ ~enters /\ ~leaves => e.irq = fdc.irq /\ e.seekEnd = fdc.seekEnd
  BY <1>1, WriteDorFacts
<1>3. /\ Pump(e) /\ UNCHANGED moves
      /\ enters => Noted(FALSE, NoUnit)
      /\ leaves => Noted(TRUE, NoUnit)
      /\ ~enters /\ ~leaves => Noted(owes, sought)
  BY DEF StoreDor
<1> HIDE DEF e, enters, leaves
<1>4. CASE enters
  BY <1>1, <1>2, <1>3, <1>4, QuietSound
<1>5. CASE leaves
  BY <1>1, <1>2, <1>3, <1>5, QuietSound
<1>6. CASE ~enters /\ ~leaves
  BY <1>1, <1>2, <1>3, <1>6, QuietSound
<1> QED BY <1>4, <1>5, <1>6

LEMMA StoreDsrSound ==
  ASSUME FdInv, StoreDsr
  PROVE  Kept
<1> DEFINE e == WriteDsrReset(fdc)
<1>1. fdc \in FdRegs /\ fdc.released /\ NoUnit \in 0 .. FddUnits
  BY FdFirstValues DEF FdInv, Settled, StoreDsr
<1>2. Settled(e) /\ e.irq /\ e.released
  BY <1>1, WriteDsrFacts
<1>3. Pump(e) /\ UNCHANGED moves /\ Noted(TRUE, NoUnit)
  BY DEF StoreDsr
<1> HIDE DEF e
<1> QED BY <1>1, <1>2, <1>3, QuietSound

(* Accesses that leave the history alone.                                   *)
LEMMA QuietlyKept ==
  ASSUME FdInv, Settled(fdc'), fdc'.irq = fdc.irq, fdc'.seekEnd = fdc.seekEnd,
         dma' \in DmaController, mem' \in [Addresses -> Byte], moves' \in 0 .. MaxMoves,
         UNCHANGED <<owes, sought>>, programmed' \in BOOLEAN,
         Channel2 \notin dma'.mask => programmed', last' = NoCommand
  PROVE  Kept
BY DEF FdInv, Kept

LEMMA DigitOf ==
  /\ 0 \in Digit /\ Radix - 1 \in Digit
  /\ \A x \in Word16 : x % Radix \in Digit /\ x \div Radix \in Digit
<1>1. Radix \in Nat \ {0}
  BY DmaAssumption
<1>2. 0 \in Digit /\ Radix - 1 \in Digit
  BY <1>1 DEF Digit
<1>3. ASSUME NEW x \in 0 .. Radix * Radix - 1
      PROVE  x % Radix \in 0 .. Radix - 1 /\ x \div Radix \in 0 .. Radix - 1
  BY <1>1, DigitsOf
<1> QED BY <1>2, <1>3, Zenon DEF Digit, Word16

(* The driver's routine.                                                    *)
LEMMA ProgrammedTyped ==
  ASSUME NEW d \in DmaController, NEW addr \in Word16, NEW count \in Word16,
         NEW mode \in Modes
  PROVE  WriteMaskBit(WriteMode(WritePage(
           Loaded(WriteMaskBit(d, Channel2, TRUE), addr, count),
           Channel2, FdPage), Channel2, mode), Channel2, FALSE) \in DmaController
<1> DEFINE d1 == WriteMaskBit(d, Channel2, TRUE)
           d2 == ClearFlipFlop(d1)
           d3 == WriteAddrByte(d2, Channel2, addr % Radix)
           d4 == WriteAddrByte(d3, Channel2, addr \div Radix)
           d5 == WriteCountByte(d4, Channel2, count % Radix)
           d6 == WriteCountByte(d5, Channel2, count \div Radix)
           d7 == WritePage(d6, Channel2, FdPage)
           d8 == WriteMode(d7, Channel2, mode)
<1>1. Channel2 \in DmaChannels /\ FdPage \in 0 .. DmaPages - 1
  BY FloppyAssumption
<1>2. /\ addr % Radix \in Digit /\ addr \div Radix \in Digit
      /\ count % Radix \in Digit /\ count \div Radix \in Digit
  BY DigitOf
<1>3. \A x \in DmaController, on \in BOOLEAN :
        /\ WriteMaskBit(x, Channel2, on) \in DmaController
        /\ ClearFlipFlop(x) \in DmaController
        /\ WritePage(x, Channel2, FdPage) \in DmaController
        /\ WriteMode(x, Channel2, mode) \in DmaController
  BY <1>1, OtherRegisters
<1>4. d1 \in DmaController
  BY <1>3
<1>5. d2 \in DmaController
  BY <1>3, <1>4
<1> HIDE DEF d2
<1>6. d3 \in DmaController
  BY <1>1, <1>2, <1>5, AddrByteTyped
<1> HIDE DEF d3
<1>7. d4 \in DmaController
  BY <1>1, <1>2, <1>6, AddrByteTyped
<1> HIDE DEF d4
<1>8. d5 \in DmaController
  BY <1>1, <1>2, <1>7, CountByteTyped
<1> HIDE DEF d5
<1>9. d6 \in DmaController
  BY <1>1, <1>2, <1>8, CountByteTyped
<1> HIDE DEF d6
<1>10. d7 \in DmaController
  BY <1>3, <1>9
<1> HIDE DEF d7
<1>11. d8 \in DmaController
  BY <1>3, <1>10
<1> HIDE DEF d8
<1>12. WriteMaskBit(d8, Channel2, FALSE) \in DmaController
  BY <1>3, <1>11
<1> QED BY <1>12 DEF d8, d7, d6, d5, d4, d3, d2, Loaded

LEMMA ModesGiven ==
  ASSUME NEW auto \in BOOLEAN, NEW down \in BOOLEAN,
         NEW xfer \in {"verify", "write", "read", "illegal"}
  PROVE  /\ [ResetMode EXCEPT !.auto = auto, !.down = down, !.xfer = xfer] \in Modes
         /\ [ResetMode EXCEPT !.xfer = xfer] \in Modes
<1>1. ResetMode \in Modes
  BY DEF ResetMode, Modes
<1>2. [ResetMode EXCEPT !.auto = auto, !.down = down, !.xfer = xfer] \in Modes
  BY <1>1, Zenon DEF Modes
<1>3. [ResetMode EXCEPT !.xfer = xfer] \in Modes
  BY <1>1, Zenon DEF Modes
<1> QED BY <1>2, <1>3

LEMMA ProgramChannelSound ==
  ASSUME FdInv, NEW addr \in FdAddrs, NEW count \in FdCounts, NEW mode \in Modes,
         ProgramChannel(addr, count, mode)
  PROVE  Kept
<1>1. addr \in Word16 /\ count \in Word16 /\ dma \in DmaController
  BY FloppyAssumption DEF FdInv
<1>2. dma' \in DmaController
  BY <1>1, ProgrammedTyped DEF ProgramChannel
<1>3. programmed' = TRUE /\ last' = NoCommand /\ UNCHANGED <<fdc, mem, moves, owes, sought>>
  BY DEF ProgramChannel
<1> QED BY <1>2, <1>3, QuietlyKept DEF FdInv

LEMMA DmaPortSound ==
  ASSUME FdInv, DmaPort
  PROVE  Kept
<1>1. dma \in DmaController /\ ResetMode \in Modes /\ 0 \in 0 .. DmaPages - 1
  BY DmaAssumption DEF FdInv, ResetMode, Modes
<1>2. dma' \in DmaController
  <2>1. CASE \E c \in DmaChannels : \E byte \in {0, Radix - 1} :
               dma' \in {WriteAddrByte(dma, c, Radix - 1), WriteCountByte(dma, c, byte)}
    BY <1>1, <2>1, DigitOf, AddrByteTyped, CountByteTyped
  <2>2. CASE dma' \in {ReadRegisterByte(dma), ReadDmaStatus(dma), ClearFlipFlop(dma),
                       MasterClear(dma)}
    <3>1. TRUE \in BOOLEAN /\ Channel2 \in DmaChannels
      BY FloppyAssumption
    <3> QED BY <1>1, <2>2, <3>1, OtherRegisters, ResetDmaTyped
  <2>3. CASE \E c \in DmaChannels, on \in BOOLEAN :
               dma' \in {WriteMaskBit(dma, c, on), WriteRequest(dma, c, on)}
    BY <1>1, <2>3, OtherRegisters
  <2>4. CASE \E xfer \in {"read", "write", "illegal"} :
               dma' = WriteMode(dma, Channel2, [ResetMode EXCEPT !.xfer = xfer])
    <3>1. PICK xfer \in {"verify", "write", "read", "illegal"} :
            dma' = WriteMode(dma, Channel2, [ResetMode EXCEPT !.xfer = xfer])
      BY <2>4
    <3> DEFINE m == [ResetMode EXCEPT !.xfer = xfer]
    <3>2. m \in Modes
      BY <3>1, ModesGiven
    <3> HIDE DEF m
    <3>3. WriteMode(dma, Channel2, m) \in DmaController
      <4>1. TRUE \in BOOLEAN /\ Channel2 \in DmaChannels
        BY FloppyAssumption
      <4> QED BY <1>1, <3>2, <4>1, OtherRegisters
    <3> QED BY <3>1, <3>3 DEF m
  <2> QED BY <2>1, <2>2, <2>3, <2>4 DEF DmaPort
<1>3. /\ programmed' = (Channel2 \notin dma'.mask)
      /\ last' = NoCommand /\ UNCHANGED <<fdc, mem, moves, owes, sought>>
  BY DEF DmaPort
<1>4. programmed' \in BOOLEAN
  BY <1>3
<1>5. Channel2 \notin dma'.mask => programmed'
  BY <1>3, Zenon
<1> QED BY <1>2, <1>3, <1>4, <1>5, QuietlyKept DEF FdInv

LEMMA FreshTyped == FreshImage \in [Cells -> Sector]
BY DEF FreshImage, Sector, Byte

LEMMA MediaSound ==
  ASSUME FdInv, Eject \/ (\E wp \in BOOLEAN : Attach(wp))
  PROVE  Kept
<1>1. /\ fdc \in FdRegs /\ fdc.pending = NoTransfer /\ Phased(fdc)
      /\ programmed \in BOOLEAN
  BY DEF FdInv, Settled
<1>2. /\ last' = NoCommand /\ UNCHANGED <<dma, mem, moves, owes, sought, programmed>>
  BY DEF Eject, Attach
<1>3. Settled(fdc') /\ fdc'.irq = fdc.irq /\ fdc'.seekEnd = fdc.seekEnd
  <2>1. CASE Eject
    <3> DEFINE e == [fdc EXCEPT !.media = FALSE, !.changed = TRUE]
    <3>1. e \in FdRegs
      BY <1>1 DEF FdRegs
    <3>2. /\ e.irq = fdc.irq /\ e.seekEnd = fdc.seekEnd /\ e.pending = fdc.pending
          /\ e.phase = fdc.phase /\ e.released = fdc.released /\ e.answer = fdc.answer
          /\ e.resetSense = fdc.resetSense
      BY <1>1 DEF FdRegs
    <3>3. fdc' = e
      BY <2>1 DEF Eject
    <3> HIDE DEF e
    <3> QED BY <1>1, <3>1, <3>2, <3>3 DEF Settled, Phased
  <2>2. ASSUME NEW wp \in BOOLEAN, Attach(wp)
        PROVE  Settled(fdc') /\ fdc'.irq = fdc.irq /\ fdc'.seekEnd = fdc.seekEnd
    <3> DEFINE e == [fdc EXCEPT !.media = TRUE, !.image = FreshImage, !.wp = wp]
    <3>1. e \in FdRegs
      BY <1>1, FreshTyped DEF FdRegs
    <3>2. /\ e.irq = fdc.irq /\ e.seekEnd = fdc.seekEnd /\ e.pending = fdc.pending
          /\ e.phase = fdc.phase /\ e.released = fdc.released /\ e.answer = fdc.answer
          /\ e.resetSense = fdc.resetSense
      BY <1>1 DEF FdRegs
    <3>3. fdc' = e
      BY <2>2 DEF Attach
    <3> HIDE DEF e
    <3> QED BY <1>1, <3>1, <3>2, <3>3 DEF Settled, Phased
  <2> QED BY <2>1, <2>2
<1> QED BY <1>2, <1>3, QuietlyKept DEF FdInv

LEMMA HardResetFacts ==
  ASSUME NEW f \in FdRegs
  PROVE  LET e == HardReset(f) IN
         /\ e \in FdRegs /\ Phased(e) /\ e.pending = NoTransfer
         /\ ~e.irq /\ e.seekEnd = NoUnit /\ ~e.released /\ ~e.releaseOwed
<1>1. /\ f.image \in [Cells -> Sector] /\ f.media \in BOOLEAN /\ f.wp \in BOOLEAN
      /\ f.changed \in BOOLEAN
  BY DEF FdRegs
<1> QED BY <1>1, ResetFdcTyped DEF HardReset

LEMMA ResetsSound ==
  ASSUME FdInv, MachineReset \/ Int13Reset
  PROVE  Kept
<1> DEFINE r == HardReset(fdc)
           e == WriteDor(r, TRUE, TRUE)
<1>1. /\ fdc \in FdRegs /\ moves \in 0 .. MaxMoves /\ NoUnit \in 0 .. FddUnits
      /\ mem \in [Addresses -> Byte] /\ dma \in DmaController
  BY FdFirstValues DEF FdInv, Settled
<1>2. /\ r \in FdRegs /\ Phased(r) /\ r.pending = NoTransfer
      /\ ~r.irq /\ r.seekEnd = NoUnit /\ ~r.released /\ ~r.releaseOwed
  BY <1>1, HardResetFacts
<1>3. Noted(FALSE, NoUnit) /\ last' = NoCommand /\ UNCHANGED <<mem, moves>>
  BY DEF MachineReset, Int13Reset
<1>4. (fdc' = r /\ dma' = ResetDma) \/ (fdc' = e /\ dma' = dma)
  BY DEF MachineReset, Int13Reset
<1> HIDE DEF r
<1>5. Settled(e) /\ ~e.irq
  <2>1. ~(~TRUE /\ r.released) /\ ~(TRUE /\ ~r.released /\ r.releaseOwed)
    BY <1>2
  <2>2. Settled(e) /\ e.irq = r.irq
    BY <1>2, <2>1, WriteDorFacts
  <2> QED BY <1>2, <2>2
<1> HIDE DEF e
<1>6. Settled(fdc') /\ ~fdc'.irq
  BY <1>2, <1>4, <1>5 DEF Settled
<1>7. dma' \in DmaController /\ StillProgrammed
  <2>1. Channel2 \in DmaChannels
    BY FloppyAssumption
  <2> QED BY <1>1, <1>4, <2>1, ResetDmaTyped DEF StillProgrammed
<1>8. FdInv'
  BY <1>1, <1>3, <1>6, <1>7, InvNoted
<1>9. owes' = FALSE
  BY <1>3 DEF Noted
<1> QED BY <1>3, <1>8, <1>9 DEF Kept

(* The host's disk services.                                                *)
LEMMA CellExists ==
  ASSUME NEW lba \in Nat, lba < Cylinders * 2 * TrackSectors
  PROVE  CellAt(lba) \in Cells /\ Lba(CellAt(lba)) = lba
<1> DEFINE t == lba \div TrackSectors
           r == lba % TrackSectors
           c == t \div 2
           h == t % 2
<1>1. TrackSectors \in Nat \ {0} /\ Cylinders \in Nat \ {0} /\ Cylinders * 2 \in Nat
  BY FdcAssumption
<1>2. /\ t \in Nat /\ r \in 0 .. TrackSectors - 1 /\ lba = t * TrackSectors + r
      /\ t < Cylinders * 2
  <2> DEFINE n == Cylinders * 2
  <2>1. n \in Nat /\ lba < n * TrackSectors
    BY <1>1
  <2> HIDE DEF n
  <2>2. t < n
    BY <1>1, <2>1, QuotientBelow
  <2> QED BY <1>1, <2>2, Quotient DEF n
<1> HIDE DEF t, r
<1>3. c \in Nat /\ h \in 0 .. 1 /\ t = c * 2 + h
  BY <1>2
<1>4. c < Cylinders
  BY <1>1, <1>2, <1>3
<1> HIDE DEF c, h
<1>5. <<c, h, r + 1>> \in Cells
  BY <1>1, <1>2, <1>3, <1>4 DEF Cells, Heads
<1>6. Lba(<<c, h, r + 1>>) = lba
  <2>1. Lba(<<c, h, r + 1>>) = (((c * 2) + h) * TrackSectors) + (r + 1) - 1
    BY DEF Lba
  <2>2. ((c * 2) + h) * TrackSectors = t * TrackSectors
    BY <1>3
  <2>3. t * TrackSectors \in Nat
    BY <1>1, <1>2
  <2> QED BY <1>2, <2>1, <2>2, <2>3
<1> QED BY <1>5, <1>6 DEF CellAt

LEMMA LbaTyped ==
  ASSUME NEW cell \in Cells
  PROVE  Lba(cell) \in Nat
<1>1. /\ cell[1] \in Nat /\ cell[2] \in Nat /\ cell[3] \in Nat \ {0}
      /\ TrackSectors \in Nat /\ Cylinders \in Nat
  BY FdcAssumption DEF Cells, Heads
<1>2. (cell[1] * 2) + cell[2] \in Nat
  BY <1>1
<1> DEFINE t == (cell[1] * 2) + cell[2]
<1> HIDE DEF t
<1>3. t * TrackSectors \in Nat
  BY <1>1, <1>2 DEF t
<1>4. Lba(cell) = (t * TrackSectors) + cell[3] - 1
  BY DEF Lba, t
<1> QED BY <1>1, <1>3, <1>4

LEMMA HostSpan ==
  ASSUME NEW cell \in Cells, NEW count \in Nat,
         Lba(cell) + count <= Cylinders * 2 * TrackSectors
  PROVE  LET span == [i \in 1 .. count |-> CellAt(Lba(cell) + i - 1)] IN
         span \in Seq(Places) /\ Len(span) = count /\ Valid(span)
<1> DEFINE l    == Lba(cell)
           span == [i \in 1 .. count |-> CellAt(l + i - 1)]
           top  == Cylinders * 2 * TrackSectors
<1>1. l \in Nat
  BY LbaTyped
<1>2. top \in Nat /\ l + count <= top
  <2>1. Cylinders * 2 \in Nat /\ TrackSectors \in Nat
    BY FdcAssumption
  <2> QED BY <2>1
<1> HIDE DEF l
<1>3. ASSUME NEW i \in 1 .. count
      PROVE  CellAt(l + i - 1) \in Cells
  <2>1. l + i - 1 \in Nat /\ l + i - 1 < top
    <3> HIDE DEF top
    <3> QED BY <1>1, <1>2
  <2> DEFINE x == l + i - 1
  <2> HIDE DEF x
  <2>2. x \in Nat /\ x < Cylinders * 2 * TrackSectors
    BY <2>1 DEF x
  <2>3. CellAt(x) \in Cells
    BY <2>2, CellExists
  <2> QED BY <2>3 DEF x
<1>4. span \in [1 .. count -> Cells]
  BY <1>3
<1> HIDE DEF span
<1>5. span \in [1 .. count -> Places]
  BY <1>4, CellsArePlaces
<1>6. span \in Seq(Places) /\ Len(span) = count
  BY <1>5, FunctionIsSequence
<1>7. Valid(span)
  BY <1>4 DEF Valid
<1> QED BY <1>6, <1>7 DEF span, l

LEMMA Int13ReadSound ==
  ASSUME FdInv, NEW cell \in Cells, NEW count \in Nat, NEW addr \in Nat,
         Int13Read(cell, count, addr)
  PROVE  Kept
<1> DEFINE span == [i \in 1 .. count |-> CellAt(Lba(cell) + i - 1)]
           data == SpanData(fdc, span)
<1>1. /\ Settled(fdc) /\ fdc \in FdRegs /\ dma \in DmaController
      /\ mem \in [Addresses -> Byte] /\ programmed \in BOOLEAN
      /\ Channel2 \notin dma.mask => programmed
  BY DEF FdInv, Settled
<1>2. Lba(cell) + count <= Cylinders * 2 * TrackSectors
  BY DEF Int13Read, Int13Transfers
<1>3. span \in Seq(Places) /\ Valid(span)
  BY <1>2, HostSpan
<1>4. mem' = [a \in Addresses |->
                IF a \in addr .. addr + Len(data) - 1 THEN data[a - addr + 1] ELSE mem[a]]
  BY DEF Int13Read
<1> HIDE DEF span
<1>5. data \in Seq(Byte) /\ Len(data) \in Nat
  BY <1>1, <1>3, SpanDataTyped
<1> HIDE DEF data
<1>6. mem' \in [Addresses -> Byte]
  <2>1. ASSUME NEW a \in Addresses
        PROVE  (IF a \in addr .. addr + Len(data) - 1 THEN data[a - addr + 1]
                ELSE mem[a]) \in Byte
    <3>1. a \in Int
      BY DEF Addresses
    <3>2. CASE a \in addr .. addr + Len(data) - 1
      <4>1. a - addr + 1 \in 1 .. Len(data)
        BY <1>5, <3>1, <3>2
      <4>2. data[a - addr + 1] \in Byte
        BY <1>5, <4>1
      <4> QED BY <3>2, <4>2
    <3>3. CASE ~(a \in addr .. addr + Len(data) - 1)
      BY <1>1, <3>3
    <3> QED BY <3>2, <3>3
  <2> QED BY <1>4, <2>1
<1>7. /\ moves' \in 0 .. MaxMoves /\ last' = NoCommand
      /\ UNCHANGED <<fdc, dma, owes, sought, programmed>>
  BY FloppyAssumption DEF Int13Read, FdInv
<1> QED BY <1>1, <1>6, <1>7, QuietlyKept

LEMMA Int13WriteSound ==
  ASSUME FdInv, NEW cell \in Cells, NEW count \in Nat, NEW addr \in Nat,
         Int13Write(cell, count, addr)
  PROVE  Kept
<1> DEFINE span == [i \in 1 .. count |-> CellAt(Lba(cell) + i - 1)]
           n    == count * SectorBytes
           data == [b \in 1 .. n |-> mem[addr + b - 1]]
           e    == WriteCells(fdc, span, count, data)
<1>1. /\ Settled(fdc) /\ fdc \in FdRegs /\ dma \in DmaController
      /\ mem \in [Addresses -> Byte] /\ programmed \in BOOLEAN
      /\ Channel2 \notin dma.mask => programmed
  BY DEF FdInv, Settled
<1>2. n \in Nat /\ addr + n <= MemorySize /\ MemorySize \in Nat
  BY FdcAssumption, PageBytes DEF Int13Write, Int13Transfers
<1>3. fdc' = e
  BY DEF Int13Write
<1>4. n = count * SectorBytes
  OBVIOUS
<1> HIDE DEF span, n
<1>5. data \in [1 .. n -> Byte]
  <2>1. ASSUME NEW b \in 1 .. n
        PROVE  mem[addr + b - 1] \in Byte
    <3>1. addr + b - 1 \in Addresses
      BY <1>2 DEF Addresses
    <3> QED BY <1>1, <3>1
  <2> QED BY <2>1
<1> HIDE DEF data
<1>6. data \in Seq(Byte) /\ Len(data) = n
  BY <1>2, <1>5, FunctionIsSequence
<1>7. count * SectorBytes <= Len(data)
  BY <1>2, <1>4, <1>6
<1>8. WroteOnly(fdc, e)
  BY <1>1, <1>6, <1>7, WriteCellsFacts
<1> HIDE DEF e
<1>9. Settled(fdc') /\ fdc'.irq = fdc.irq /\ fdc'.seekEnd = fdc.seekEnd
  BY <1>1, <1>3, <1>8 DEF WroteOnly, Settled, Phased, Beside
<1>10. /\ moves' \in 0 .. MaxMoves /\ last' = NoCommand
       /\ UNCHANGED <<dma, mem, owes, sought, programmed>>
  BY FloppyAssumption DEF Int13Write, FdInv
<1> QED BY <1>1, <1>9, <1>10, QuietlyKept

----------------------------------------------------------------------------
(* The invariant, and what every step of the floppy keeps.                  *)

LEMMA FloppyInitSound ==
  ASSUME FloppyInit, fdGuest \subseteq FdFeatures
  PROVE  FdInv
<1>1. (fdGuest # {}) \in BOOLEAN
  OBVIOUS
<1>2. \A media \in BOOLEAN :
        LET e == ResetFdc(FreshImage, media, FALSE, FALSE) IN Settled(e) /\ ~e.irq
  BY FreshTyped, ResetFdcTyped DEF Settled
<1>3. Settled(fdc) /\ ~fdc.irq
  BY <1>1, <1>2 DEF FloppyInit
<1>4. dma \in DmaController /\ Channel2 \in dma.mask
  BY ResetDmaTyped, FloppyAssumption DEF FloppyInit
<1>5. mem \in [Addresses -> Byte]
  BY DEF FloppyInit, Byte
<1>6. moves \in 0 .. MaxMoves
  BY FloppyAssumption DEF FloppyInit
<1>7. owes = FALSE /\ sought = NoUnit /\ programmed = FALSE /\ NoUnit \in 0 .. FddUnits
  BY FdFirstValues DEF FloppyInit
<1> QED BY <1>3, <1>4, <1>5, <1>6, <1>7 DEF FdInv

LEMMA ParametersTyped ==
  ASSUME NEW span \in FdSpans, NEW sized \in BOOLEAN
  PROVE  Parameters(span, 0, sized, FALSE) \in Params
<1>1. span \in [c : 0 .. MaxCylinder, h : Heads,
                r : 0 .. TrackSectors + 1, eot : 0 .. TrackSectors + 1]
  BY FloppyAssumption
<1>2. 0 \in Units4
  BY FdFirstValues
<1> QED BY <1>1, <1>2 DEF Parameters, Params

(* The end of a data command is the only step that tells a result.          *)
Tells ==
  last' = NoCommand \/ \E p \in Params : EndTransfer(p)

LEMMA FloppyStepSound ==
  ASSUME FdInv, FloppyNext
  PROVE  Kept /\ Tells
<1>1. ASSUME NEW cmd \in CommandsOf(fdGuest), NEW mt \in BOOLEAN, GiveCommand(cmd, mt)
      PROVE  Kept /\ Tells
  BY <1>1, GiveCommandSound DEF Tells, GiveCommand
<1>2. ASSUME NEW on \in BOOLEAN, WriteParameter(on)
      PROVE  Kept /\ Tells
  BY <1>2, WriteParameterSound DEF Tells, WriteParameter
<1>3. ASSUME NEW span \in FdSpans, NEW sized \in BOOLEAN,
             EndTransfer(Parameters(span, 0, sized, FALSE))
      PROVE  Kept /\ Tells
  <2> DEFINE p == Parameters(span, 0, sized, FALSE)
  <2>1. p \in Params /\ EndTransfer(p)
    BY <1>3, ParametersTyped
  <2> HIDE DEF p
  <2> QED BY <2>1, EndTransferSound DEF Tells
<1>4. ASSUME NEW unit \in Units4, NEW c \in 0 .. MaxCylinder, NEW on \in BOOLEAN,
             EndCommand([unit |-> unit, c |-> c, on |-> on])
      PROVE  Kept /\ Tells
  BY <1>4, EndCommandSound DEF Tells, EndCommand
<1>5. CASE ReadFifo
  BY <1>5, ReadFifoSound DEF Tells, ReadFifo
<1>6. ASSUME NEW released \in BOOLEAN, NEW enable \in BOOLEAN, StoreDor(released, enable)
      PROVE  Kept /\ Tells
  BY <1>6, StoreDorSound DEF Tells, StoreDor
<1>7. CASE StoreDsr
  BY <1>7, StoreDsrSound DEF Tells, StoreDsr
<1>8. ASSUME NEW addr \in FdAddrs, NEW count \in FdCounts, NEW auto \in BOOLEAN,
             NEW down \in BOOLEAN, NEW xfer \in {"read", "write", "verify"},
             ProgramChannel(addr, count,
               [ResetMode EXCEPT !.auto = auto, !.down = down, !.xfer = xfer])
      PROVE  Kept /\ Tells
  <2> DEFINE m == [ResetMode EXCEPT !.auto = auto, !.down = down, !.xfer = xfer]
  <2>1. m \in Modes /\ ProgramChannel(addr, count, m)
    BY <1>8, ModesGiven
  <2> HIDE DEF m
  <2> QED BY <2>1, ProgramChannelSound DEF Tells, ProgramChannel
<1>9. CASE DmaPort
  BY <1>9, DmaPortSound DEF Tells, DmaPort
<1>10. CASE Eject \/ (\E wp \in BOOLEAN : Attach(wp))
  BY <1>10, MediaSound DEF Tells, Eject, Attach
<1>11. CASE MachineReset \/ Int13Reset
  BY <1>11, ResetsSound DEF Tells, MachineReset, Int13Reset
<1>12. ASSUME NEW cell \in Cells, NEW count \in 1 .. 2, NEW addr \in {0, PageSize - 1},
              Int13Read(cell, count, addr) \/ Int13Write(cell, count, addr)
       PROVE  Kept /\ Tells
  <2>1. count \in Nat /\ addr \in Nat
    BY PageBytes
  <2> QED BY <1>12, <2>1, Int13ReadSound, Int13WriteSound DEF Tells, Int13Read, Int13Write
<1> QED BY <1>1, <1>2, <1>3, <1>4, <1>5, <1>6, <1>7, <1>8, <1>9, <1>10, <1>11, <1>12
        DEF FloppyNext

LEMMA FloppyKept ==
  ASSUME FdInv, UNCHANGED fdVars
  PROVE  FdInv'
BY DEF FdInv, fdVars, fdRig, fdNotes

LEMMA FloppyStep ==
  ASSUME FdInv, [StorageNext]_storageVars
  PROVE  FdInv' /\ ((Kept /\ Tells) \/ UNCHANGED fdVars)
<1>1. CASE FloppyNext
  BY <1>1, FloppyStepSound DEF Kept
<1>2. CASE UNCHANGED fdVars
  BY <1>2, FloppyKept
<1> QED BY <1>1, <1>2 DEF StorageNext, storageVars

(* The controller is settled between accesses and in step with what the     *)
(* guest is owed, sought and programmed, whatever the guest, the bus and    *)
(* the host do.                                                             *)
THEOREM FloppySound == StorageSpec => []FdInv
<1>1. StorageInit => FdInv
  BY FloppyInitSound, FloppyAssumption DEF StorageInit
<1>2. FdInv /\ [StorageNext]_storageVars => FdInv'
  BY FloppyStep
<1> QED BY <1>1, <1>2, PTL DEF StorageSpec

(* What the history, the registers and memory are made of; no transfer      *)
(* outlives the access that armed it.                                       *)
THEOREM FloppyTyped == StorageSpec => []FloppyTypeOK
<1>1. FdInv => FloppyTypeOK
  BY DEF FdInv, Settled, FdRegs, Phase, Sector, FloppyTypeOK
<1> QED BY <1>1, FloppySound, PTL

(* Every register, buffer, memory and history of both disks is one the      *)
(* models allow: no count, offset, block or address leaves its bounds.      *)
THEOREM DisksTyped == StorageSpec => []StorageTypeOK
<1>1. StorageInit => IdeBounds
  BY BoundsInit
<1>2. IdeBounds /\ [StorageNext]_storageVars => IdeBounds'
  BY BoundsStep
<1>3. IdeTypeOK /\ FloppyTypeOK => StorageTypeOK
  BY DEF StorageTypeOK
<1> QED BY <1>1, <1>2, <1>3, BoundsTyped, FloppyTyped, PTL DEF StorageSpec

(* A seek's end is reported: until a Sense Interrupt says so, or a reset or *)
(* another seek supersedes it, it is next in line after a reset's statuses. *)
THEOREM SeekEndsReported == StorageSpec => []SeekEndReported
<1>1. FdInv => SeekEndReported
  BY DEF FdInv, Settled, Phased, HasResult, SeekEndReported
<1> QED BY <1>1, FloppySound, PTL

(* Memory is written only by a block the guest has programmed: a channel    *)
(* has one block unless it initializes itself, whatever commands follow.    *)
THEOREM OneBlockOfMemory == StorageSpec => OneBlockPerProgram
<1>1. FdInv /\ [StorageNext]_storageVars =>
        [last' # NoCommand /\ mem' # mem => programmed]_fdVars
  BY FloppyStep DEF Kept
<1> QED BY <1>1, FloppySound, PTL DEF StorageSpec, OneBlockPerProgram

(* Every command that ends with an interrupt raises the line, if the guest  *)
(* has answered the one before; so the PIC's edge-triggered IRQ6 sees each. *)
THEOREM AnswersInterrupt == StorageSpec => AnswerInterrupts
<1> DEFINE Raised == ~owes /\ owes' => ~IrqLine(fdc) /\ IrqLine(fdc') = fdc'.dma
<1>1. ASSUME FdInv, [StorageNext]_storageVars, ~UNCHANGED fdVars
      PROVE  Raised
  <2>1. FdInv' /\ Kept
    BY <1>1, FloppyStep
  <2>2. fdc'.dma \in BOOLEAN
    BY <2>1 DEF FdInv, Settled, FdRegs
  <2>3. ~owes => ~fdc.irq
    BY <1>1 DEF FdInv
  <2>4. ~owes /\ owes' => fdc'.irq /\ fdc'.released
    BY <2>1 DEF Kept
  <2> QED BY <2>2, <2>3, <2>4, Zenon DEF IrqLine
<1>2. FdInv /\ [StorageNext]_storageVars => [Raised]_fdVars
  BY <1>1
<1> QED BY <1>2, FloppySound, PTL DEF StorageSpec, AnswerInterrupts

----------------------------------------------------------------------------
(* What a result tells.                                                     *)

(* What an access armed is taken if the channel accepts it; otherwise the   *)
(* channel's share is nothing.                                              *)
LEMMA ShareFacts ==
  ASSUME FdInv, NEW e \in FdRegs, e.dma, NEW length, e.pending # NoTransfer,
         Len(e.pending.data) = length
  PROVE  /\ ~Taken(e) => Share(length) = 0
         /\ Taken(e) => /\ Share(length) = Units(dma, Channel2)
                        /\ Units(dma, Channel2) \in Nat \ {0}
                        /\ Units(dma, Channel2) <= length
<1>1. Taken(e) <=> Accepts(dma, Channel2, length)
  BY DEF Taken, Armed
<1>2. Taken(e) => /\ Units(dma, Channel2) \in Nat \ {0}
                  /\ Units(dma, Channel2) <= length
  BY TakenFacts DEF FdInv
<1> QED BY <1>1, <1>2 DEF Share

LEMMA DepositedNone ==
  ASSUME FdInv, mem' = mem, NEW data
  PROVE  Deposited(data, 0)
<1>1. ~\E i \in 1 .. 0 : TRUE
  OBVIOUS
<1>2. mem = [a \in Addresses |-> mem[a]]
  BY DEF FdInv
<1>3. \A a \in Addresses :
        (IF \E i \in 1 .. 0 : ByteAddr(dma, Channel2, i) = a
         THEN data[CHOOSE i \in 1 .. 0 : ByteAddr(dma, Channel2, i) = a]
         ELSE mem[a]) = mem[a]
  BY <1>1
<1> QED BY <1>2, <1>3 DEF Deposited

LEMMA DepositedBlock ==
  ASSUME FdInv, NEW data, mem' = BlockWritten(dma, Channel2, data, mem)
  PROVE  /\ dma.channels[Channel2].mode.xfer = "write" =>
              Deposited(data, Units(dma, Channel2))
         /\ dma.channels[Channel2].mode.xfer # "write" => mem' = mem
<1>1. DOMAIN mem = Addresses
  BY DEF FdInv
<1> QED BY <1>1 DEF BlockWritten, Deposited

LEMMA ReadTold ==
  ASSUME FdInv, fdc.dma, NEW p \in Params, NEW span \in Seq(Places),
         NEW cmd \in {"read", "read_track"}, fdc.phase.cmd = cmd,
         cmd = "read" => span = Span(p, fdc.mt),
         NEW e, ReadOver(fdc, e, cmd, p, span), Phased(e), Pump(e)
  PROVE  ReadTells(p, span)
<1> DEFINE length == Len(span) * SectorBytes
           data   == SpanData(fdc, span)
           n      == Share(length)
           code   == fdc'.answer.code
           units  == Units(dma, Channel2)
           x      == [kind |-> "read", p |-> p, data |-> data]
<1>1. /\ fdc \in FdRegs /\ dma \in DmaController /\ mem \in [Addresses -> Byte]
  BY DEF FdInv, Settled
<1>2. /\ e \in FdRegs /\ e.image = fdc.image /\ e.dma /\ e.mt = fdc.mt
  BY DEF ReadOver, Over, Beside
<1>3. /\ ~Taken(e) => NothingMoved(e, fdc') /\ mem' = mem
      /\ Taken(e) => mem' = BlockWritten(dma, Channel2, e.pending.data, mem)
      /\ Taken(e) /\ e.pending.kind = "read" => ReadMoved(e, fdc')
  BY <1>1, <1>2, PumpFacts
<1>4. CASE e.answer.code = "ND" /\ e.pending = NoTransfer
  <2>1. ~Taken(e)
    BY <1>4 DEF Taken, Armed
  <2>2. code = "ND" /\ mem' = mem /\ fdc'.image = fdc.image
    BY <1>2, <1>3, <1>4, <2>1 DEF NothingMoved
  <2> HIDE DEF length, n
  <2> QED BY <2>2 DEF ReadTells
<1>5. CASE e.answer.code = "normal" /\ Valid(span) /\ e.pending = x
  <2>1. Len(data) = length
    BY <1>1, <1>5, SpanDataTyped
  <2> HIDE DEF data
  <2>2. e.pending.kind = "read" /\ e.pending.p = p /\ e.pending.data = data
        /\ e.pending # NoTransfer
    BY <1>5 DEF NoTransfer
  <2>3. /\ ~Taken(e) => n = 0
        /\ Taken(e) => n = units /\ units \in Nat \ {0} /\ units <= length
    BY <1>2, <2>1, <2>2, ShareFacts
  <2>4. length \in Nat
    BY FdcAssumption
  <2>5. CASE ~Taken(e)
    <3>1. n = 0 /\ code = "normal" /\ mem' = mem /\ fdc'.image = fdc.image
      BY <1>2, <1>3, <1>5, <2>3, <2>5 DEF NothingMoved
    <3>2. Deposited(data, n)
      BY <3>1, DepositedNone
    <3> HIDE DEF n, length
    <3> QED BY <3>1, <3>2 DEF ReadTells, n, length, data
  <2>6. CASE Taken(e)
    <3>1. /\ n = units /\ n \in Nat \ {0} /\ n <= length
          /\ mem' = BlockWritten(dma, Channel2, data, mem)
          /\ ReadMoved(e, fdc')
      BY <1>3, <2>2, <2>3, <2>6
    <3>2. /\ dma.channels[Channel2].mode.xfer = "write" => Deposited(data, n)
          /\ dma.channels[Channel2].mode.xfer # "write" => mem' = mem
      BY <3>1, DepositedBlock
    <3>3. /\ fdc'.image = fdc.image
          /\ n < length => /\ code = "EN"
                           /\ <<p.c, fdc'.answer.head, fdc'.answer.sector>>
                                = EndCell(e, p, n)
          /\ ~(n < length) => code = "normal"
      BY <1>2, <1>5, <2>1, <2>2, <3>1 DEF ReadMoved
    <3>4. code = "normal" => n = length
      <4> HIDE DEF n, length
      <4> QED BY <2>4, <3>1, <3>3
    <3>5. code = "EN" => n \in 1 .. length - 1
      <4> HIDE DEF n, length
      <4> QED BY <2>4, <3>1, <3>3
    <3>6. code = "EN" /\ cmd = "read" =>
            <<p.c, fdc'.answer.head, fdc'.answer.sector>> = span[((n - 1) \div SectorBytes) + 1]
      <4> SUFFICES ASSUME code = "EN", cmd = "read"
                   PROVE  <<p.c, fdc'.answer.head, fdc'.answer.sector>>
                            = span[((n - 1) \div SectorBytes) + 1]
        OBVIOUS
      <4>1. n \in 1 .. length /\ n < length
        <5> HIDE DEF n, length
        <5> QED BY <2>4, <3>1, <3>3
      <4>2. span = Span(p, e.mt)
        BY <1>2
      <4> HIDE DEF n
      <4>3. EndCell(e, p, n) = Span(p, e.mt)[((n - 1) \div SectorBytes) + 1]
        <5>1. n \in 1 .. Len(Span(p, e.mt)) * SectorBytes /\ n \in Nat
          BY <3>1, <4>1, <4>2
        <5> QED BY <1>2, <5>1, EndCellFacts
      <4> QED BY <3>3, <4>1, <4>2, <4>3
    <3> HIDE DEF n, length
    <3> QED BY <3>2, <3>3, <3>4, <3>5, <3>6 DEF ReadTells, n, length, data
  <2> QED BY <2>5, <2>6
<1> QED BY <1>4, <1>5 DEF ReadOver

LEMMA QuotientBound ==
  ASSUME NEW x \in Nat, NEW n \in Nat \ {0}, NEW k \in Nat, x <= k * n
  PROVE  /\ x \div n \in Nat /\ x \div n <= k
         /\ (x \div n) * n \in Nat /\ (x \div n) * n <= x
<1>1. x \div n \in Nat /\ x % n \in 0 .. n - 1 /\ x = (x \div n) * n + (x % n)
  BY Quotient
<1> DEFINE q == x \div n
<1> HIDE DEF q
<1>2. q \in Nat /\ x >= q * n /\ q * n \in Nat
  BY <1>1 DEF q
<1>3. ASSUME q > k
      PROVE  FALSE
  <2>1. q * n >= k * n + n
    BY <1>2, <1>3
  <2> QED BY <1>2, <2>1
<1> QED BY <1>2, <1>3 DEF q

LEMMA ProductUpTo ==
  ASSUME NEW n \in Nat, NEW i \in Nat, NEW k \in Nat, i <= k
  PROVE  i * n \in Nat /\ i * n <= k * n
BY SMT

LEMMA StoredBlock ==
  ASSUME FdInv, NEW e \in FdRegs, NEW span \in Seq(Places), Valid(span), e.media,
         e.image = fdc.image, NEW buf \in Seq(Byte),
         Len(buf) = Units(dma, Channel2), Len(buf) <= Len(span) * SectorBytes,
         \A i \in 1 .. Units(dma, Channel2) : buf[i] = mem[ByteAddr(dma, Channel2, i)],
         fdc'.image = WriteCells(e, span, Len(buf) \div SectorBytes, buf).image
  PROVE  Stored(span, Units(dma, Channel2) \div SectorBytes)
<1> DEFINE n == Units(dma, Channel2)
           k == n \div SectorBytes
<1>1. n = Len(buf) /\ n \in Nat /\ SectorBytes \in Nat \ {0} /\ Len(span) \in Nat
  BY FdcAssumption
<1>2. k \in Nat /\ k <= Len(span) /\ k * SectorBytes <= n /\ k * SectorBytes \in Nat
  <2>1. n <= Len(span) * SectorBytes
    BY <1>1
  <2> HIDE DEF n
  <2> QED BY <1>1, <2>1, QuotientBound DEF k
<1> HIDE DEF n, k
<1>3. \A i \in 1 .. k : span[i] \in Cells
  BY <1>1, <1>2 DEF Valid
<1>4. WrittenCells(e, span, k) = 1 .. k
  <2>1. ASSUME NEW i \in 1 .. k
        PROVE  \A j \in 1 .. i : span[j] \in Cells
    BY <1>2, <1>3
  <2> QED BY <2>1 DEF WrittenCells
<1>5. fdc'.image = [cell \in Cells |->
                      IF \E i \in 1 .. k : span[i] = cell
                      THEN SectorOf(buf, CHOOSE i \in 1 .. k : span[i] = cell)
                      ELSE fdc.image[cell]]
  <2>1. fdc'.image = WriteCells(e, span, k, buf).image
    BY <1>1 DEF k, n
  <2> DEFINE w == [cell \in Cells |->
                     IF \E i \in 1 .. k : span[i] = cell
                     THEN SectorOf(buf, CHOOSE i \in 1 .. k : span[i] = cell)
                     ELSE fdc.image[cell]]
  <2>2. WriteCells(e, span, k, buf) = [e EXCEPT !.image = w]
    BY <1>4 DEF WriteCells
  <2> HIDE DEF w
  <2>3. [e EXCEPT !.image = w].image = w
    BY DEF FdRegs
  <2> QED BY <2>1, <2>2, <2>3 DEF w
<1>6. ASSUME NEW cell \in Cells, \E i \in 1 .. k : span[i] = cell, NEW b \in 1 .. SectorBytes
      PROVE  fdc'.image[cell][b] =
               mem[ByteAddr(dma, Channel2,
                     ((CHOOSE i \in 1 .. k : span[i] = cell) - 1) * SectorBytes + b)]
  <2> DEFINE i == CHOOSE i \in 1 .. k : span[i] = cell
  <2>1. i \in 1 .. k
    BY <1>6
  <2>2. fdc'.image[cell] = SectorOf(buf, i)
    BY <1>5, <1>6
  <2> HIDE DEF i
  <2>3. i \in Nat \ {0} /\ i * SectorBytes <= k * SectorBytes /\ i * SectorBytes \in Nat
    BY <1>1, <1>2, <2>1, ProductUpTo
  <2>4. i * SectorBytes <= Len(buf)
    <3>1. n \in Nat /\ n = Len(buf)
      BY <1>1
    <3> QED BY <1>2, <2>3, <3>1
  <2> DEFINE at == (i - 1) * SectorBytes + b
  <2>5. at \in 1 .. Len(buf) /\ SectorOf(buf, i)[b] = buf[at]
    BY <2>3, <2>4, SectorOfTyped
  <2> HIDE DEF at
  <2>6. buf[at] = mem[ByteAddr(dma, Channel2, at)]
    BY <1>1, <2>5 DEF n
  <2>7. fdc'.image[cell][b] = mem[ByteAddr(dma, Channel2, at)]
    BY <2>2, <2>5, <2>6
  <2> QED BY <2>7 DEF at, i
<1>7. ASSUME NEW cell \in Cells, ~\E i \in 1 .. k : span[i] = cell
      PROVE  fdc'.image[cell] = fdc.image[cell]
  BY <1>5, <1>7
<1>8. Stored(span, k)
  BY <1>6, <1>7 DEF Stored
<1> QED BY <1>8 DEF k, n

LEMMA WriteTold ==
  ASSUME FdInv, fdc.dma, NEW p \in Params, NEW e, Phased(e), Pump(e),
         Over(fdc, e, "write"),
         \/ WriteArmed(fdc, e, p)
         \/ e.answer.code = "NW" /\ e.image = fdc.image /\ e.pending = NoTransfer
  PROVE  WriteTells(p, Span(p, fdc.mt))
<1> DEFINE span   == Span(p, fdc.mt)
           length == Len(span) * SectorBytes
           zeros  == Zeros(span)
           n      == Share(length)
           code   == fdc'.answer.code
           units  == Units(dma, Channel2)
           buf    == BlockRead(dma, Channel2, zeros, mem)
           x      == [kind |-> "write", p |-> p, data |-> zeros]
<1>1. /\ fdc \in FdRegs /\ dma \in DmaController /\ mem \in [Addresses -> Byte]
  BY DEF FdInv, Settled
<1>2. /\ e \in FdRegs /\ e.dma /\ e.mt = fdc.mt /\ e.media = fdc.media
  BY DEF Over, Beside
<1>3. span \in Seq(Places) /\ length \in Nat
  BY <1>1, SpanTyped, FdcAssumption DEF FdRegs
<1>4. e.pending # NoTransfer => e.dma
  BY <1>2
<1>5. /\ ~Taken(e) => NothingMoved(e, fdc')
      /\ Taken(e) /\ e.pending.kind = "write" => WriteMoved(e, fdc')
  BY <1>1, <1>2, PumpFacts
<1>6. CASE e.answer.code = "NW" /\ e.image = fdc.image /\ e.pending = NoTransfer
  <2>1. ~Taken(e)
    BY <1>6 DEF Taken, Armed
  <2>2. code = "NW" /\ fdc'.image = fdc.image
    BY <1>5, <1>6, <2>1 DEF NothingMoved
  <2> HIDE DEF length, n
  <2> QED BY <2>2 DEF WriteTells
<1>7. CASE WriteArmed(fdc, e, p)
  <2>1. /\ e.answer.code = "normal" /\ e.image = fdc.image /\ e.media /\ Valid(span)
        /\ e.pending = x
    BY <1>2, <1>7 DEF WriteArmed
  <2>2. zeros \in Seq(Byte) /\ Len(zeros) = length
    BY <1>3, ZerosTyped
  <2> HIDE DEF zeros, span
  <2>3. e.pending.kind = "write" /\ e.pending.p = p /\ e.pending.data = zeros
        /\ e.pending # NoTransfer
    BY <2>1 DEF NoTransfer
  <2>4. /\ ~Taken(e) => n = 0
        /\ Taken(e) => n = units /\ units \in Nat \ {0} /\ units <= length
    BY <1>2, <2>2, <2>3, ShareFacts
  <2>5. CASE ~Taken(e)
    <3>1. n = 0 /\ code = "normal" /\ fdc'.image = fdc.image
      BY <1>5, <2>1, <2>4, <2>5 DEF NothingMoved
    <3>2. 0 \div SectorBytes = 0
      BY FdcAssumption, ZeroQuotient
    <3>3. Stored(span, 0)
      BY <3>1 DEF Stored
    <3> HIDE DEF n, length
    <3> QED BY <3>1, <3>2, <3>3 DEF WriteTells, n, length, span
  <2>6. CASE Taken(e)
    <3>1. n = units /\ n \in Nat \ {0} /\ n <= length /\ WriteMoved(e, fdc')
      BY <1>5, <2>3, <2>4, <2>6
    <3>2. /\ fdc'.image = WriteCells(e, span, units \div SectorBytes, buf).image
          /\ n < length => code = "EN"
          /\ ~(n < length) => code = "normal"
      BY <1>2, <2>1, <2>3, <3>1 DEF WriteMoved, span
    <3>3. code = "normal" => n = length
      <4> HIDE DEF n, length
      <4> QED BY <1>3, <3>1, <3>2
    <3>4. code = "EN" => n \in 1 .. length - 1
      <4> HIDE DEF n, length
      <4> QED BY <1>3, <3>1, <3>2
    <3>5. code \in {"normal", "EN"}
      BY <3>2
    <3>6. ASSUME dma.channels[Channel2].mode.xfer = "read"
          PROVE  Stored(span, units \div SectorBytes)
      <4>1. Channel2 \in DmaChannels /\ units <= Len(zeros)
        BY <2>2, <3>1, FloppyAssumption
      <4>2. /\ buf \in Seq(Byte) /\ Len(buf) = units
            /\ \A i \in 1 .. units : buf[i] = mem[ByteAddr(dma, Channel2, i)]
        BY <1>1, <2>2, <3>6, <4>1, BlockReadTyped
      <4> HIDE DEF buf
      <4>3. fdc'.image = WriteCells(e, span, Len(buf) \div SectorBytes, buf).image
        BY <3>2, <4>2
      <4> QED BY <1>2, <1>3, <2>1, <2>2, <4>1, <4>2, <4>3, StoredBlock
    <3> HIDE DEF n, length, units
    <3> QED BY <3>1, <3>3, <3>4, <3>5, <3>6 DEF WriteTells, n, length, span
  <2> QED BY <2>5, <2>6
<1> QED BY <1>6, <1>7

(* The result tells what was transferred, for every geometry, span,         *)
(* programming of the channel and history of commands.                      *)
THEOREM ResultsTell == StorageSpec => ResultTells
<1> DEFINE cmd == last'.cmd
           Told ==
             last' # NoCommand /\ fdc.dma =>
               /\ cmd = "read" => ReadTells(last'.p, Span(last'.p, fdc.mt))
               /\ cmd = "read_track" => ReadTells(last'.p, TrackSpan(last'.p))
               /\ cmd = "write" /\ fdc.lastWrite = <<>> =>
                    WriteTells(last'.p, Span(last'.p, fdc.mt))
               /\ cmd \in {"verify", "read_id", "read_deleted", "write_deleted"} =>
                    fdc'.image = fdc.image /\ mem' = mem
<1>1. ASSUME FdInv, [StorageNext]_storageVars, ~UNCHANGED fdVars,
             last' # NoCommand, fdc.dma
      PROVE  Told
  <2>1. PICK p \in Params : EndTransfer(p)
    BY <1>1, FloppyStep DEF Tells
  <2> DEFINE e == Execute(fdc, fdc.phase.cmd, p)
  <2>2. /\ fdc \in FdRegs /\ fdc.pending = NoTransfer /\ fdc.released
        /\ fdc.phase.cmd \in Transfers
    BY <1>1, <2>1 DEF FdInv, Settled, Phased, EndTransfer
  <2>3. last'.cmd = fdc.phase.cmd /\ last'.p = p
    BY <2>1 DEF EndTransfer
  <2>4. Pump(e)
    BY <2>1 DEF EndTransfer
  <2>5. Executed(fdc, e, fdc.phase.cmd, p)
    BY <2>2, ExecuteFacts
  <2> HIDE DEF e
  <2>6. Phased(e) /\ Over(fdc, e, fdc.phase.cmd) /\ e \in FdRegs
    BY <2>2, <2>5, ExecutedPhased DEF Executed, Over
  <2>7. CASE fdc.phase.cmd = "read"
    <3>1. Span(p, fdc.mt) \in Seq(Places)
      BY <2>2, SpanTyped DEF FdRegs
    <3>2. ReadTells(p, Span(p, fdc.mt))
      BY <1>1, <2>4, <2>5, <2>6, <2>7, <3>1, ReadTold DEF Executed
    <3> QED BY <2>3, <2>7, <3>2
  <2>8. CASE fdc.phase.cmd = "read_track"
    <3>1. TrackSpan(p) \in Seq(Places)
      BY TrackTyped
    <3>2. ReadTells(p, TrackSpan(p))
      BY <1>1, <2>4, <2>5, <2>6, <2>8, <3>1, ReadTold DEF Executed
    <3> QED BY <2>3, <2>8, <3>2
  <2>9. CASE fdc.phase.cmd = "write"
    <3>1. fdc.lastWrite = <<>> => WriteTells(p, Span(p, fdc.mt))
      BY <1>1, <2>4, <2>5, <2>6, <2>9, WriteTold DEF Executed
    <3> QED BY <2>3, <2>9, <3>1
  <2>10. CASE fdc.phase.cmd \notin {"read", "read_track", "write"}
    <3>1. ASSUME fdc.phase.cmd \in {"verify", "read_id", "read_deleted", "write_deleted"}
          PROVE  fdc'.image = fdc.image /\ mem' = mem
      <4>1. e.pending = NoTransfer /\ e.image = fdc.image
        BY <2>5, <3>1 DEF Executed
      <4>2. ~Taken(e)
        BY <4>1 DEF Taken, Armed
      <4>3. NothingMoved(e, fdc') /\ mem' = mem
        BY <1>1, <2>4, <2>6, <4>1, <4>2, PumpFacts DEF FdInv
      <4> QED BY <4>1, <4>3 DEF NothingMoved
    <3> QED BY <2>3, <2>10, <3>1
  <2> QED BY <2>7, <2>8, <2>9, <2>10
<1>2. FdInv /\ [StorageNext]_storageVars => [Told]_fdVars
  BY <1>1
<1> QED BY <1>2, FloppySound, PTL DEF StorageSpec, ResultTells
=============================================================================
