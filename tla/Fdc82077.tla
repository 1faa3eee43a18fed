----------------------------- MODULE Fdc82077 -----------------------------
(***************************************************************************)
(* The 82077AA floppy disk controller of devices/src/fdc.rs with the one   *)
(* image that stands behind its drives: the command, parameter and result  *)
(* phases of the FIFO, seeks and the Sense Interrupt statuses they queue,  *)
(* software resets, and the data commands.  A command executes whole, in   *)
(* the write of its last parameter byte; the transfer of its data waits,   *)
(* armed, for the bus (Floppy).                                            *)
(*                                                                         *)
(* Parameter bytes have no effect before the last one, except Configure's; *)
(* their values are therefore given with the last.  Left out: registers    *)
(* that are only read back (TDR, DSR's and CCR's rates, Specify,           *)
(* Perpendicular, DUMPREG's contents) and the cylinder echoed in results.  *)
(***************************************************************************)
EXTENDS Naturals, Sequences

CONSTANTS
  FddUnits,          (* drive units: 4                                      *)
  Cylinders,         (* cylinders of the medium: 80                         *)
  MaxCylinder,       (* largest value of a cylinder register: 255           *)
  TrackSectors,      (* sectors of a track: 18                              *)
  SectorBytes,       (* bytes of a sector: 512                              *)
  LongParams,        (* parameter bytes of a data command: 8                *)
  FormatParams,      (* of FORMAT TRACK: 5                                  *)
  LongResult,        (* bytes of a data command's result: 7                 *)
  DumpResult         (* of DUMPREG's: 10                                    *)

ASSUME FdcAssumption ==
  /\ FddUnits \in Nat \ {0} /\ Cylinders \in Nat \ {0}
  /\ MaxCylinder \in Nat /\ MaxCylinder >= Cylinders - 1
  /\ TrackSectors \in Nat \ {0} /\ SectorBytes \in Nat \ {0}
  /\ LongParams \in Nat \ {0} /\ FormatParams \in Nat \ {0}
  /\ LongResult \in Nat \ {0} /\ DumpResult \in Nat \ {0}

Units4 == 0 .. FddUnits - 1
Heads == {0, 1}
Cells == (0 .. Cylinders - 1) \X Heads \X (1 .. TrackSectors)

Transfers == {"read", "read_track", "read_deleted", "verify", "write",
              "write_deleted", "format", "read_id"}

(* The commands by their parameter bytes.  SCAN EQUAL and its kin execute   *)
(* as VERIFY; an unknown opcode is dropped.                                 *)
ParamCount(cmd) ==
  CASE cmd \in {"sense_int", "version", "lock", "unlock", "dumpreg"} -> 0
    [] cmd \in {"recalibrate", "sense_drive", "perpendicular", "read_id"} -> 1
    [] cmd \in {"specify", "seek", "seek_in", "seek_out"} -> 2
    [] cmd = "configure" -> 3
    [] cmd = "format" -> FormatParams
    [] OTHER -> LongParams

ResultCount(cmd) ==
  CASE cmd = "sense_int" -> 2
    [] cmd \in {"sense_drive", "version", "lock", "unlock"} -> 1
    [] cmd = "dumpreg" -> DumpResult
    [] cmd \in Transfers -> LongResult
    [] OTHER -> 0

Commands == Transfers \cup
  {"sense_int", "version", "lock", "unlock", "dumpreg", "recalibrate",
   "sense_drive", "perpendicular", "specify", "seek", "seek_in", "seek_out",
   "configure"}

CommandPhase == [kind |-> "command", cmd |-> "none", left |-> 0]

(* Result codes: ST0's interrupt code with ST1, or what Sense Interrupt     *)
(* reports.                                                                 *)
Codes == {"none", "normal", "EN", "ND", "NW", "MA", "seek_end", "ready_change"}

Answer == [code : Codes, unit : Units4, head : Heads, sector : Nat]
NoAnswer == [code |-> "none", unit |-> 0, head |-> 0, sector |-> 0]

NoTransfer == [kind |-> "none"]
NoUnit == FddUnits

ResetConfig == [eis |-> FALSE, fifo |-> FALSE, pretrk |-> FALSE]

(* Power-on: RESET is held by DOR, and no release of it is owed an          *)
(* interrupt.                                                               *)
ResetFdc(image, media, wp, changed) ==
  [released |-> FALSE,                  \* DOR bit 2, nRESET
   dma      |-> FALSE,                  \* DOR bit 3, DMA and interrupt enable
   phase    |-> CommandPhase,
   mt       |-> FALSE,                  \* read_cmd_mt, the opcode's MT bit
   irq      |-> FALSE,
   seekEnd  |-> NoUnit,                 \* pending_sense_st0
   resetSense |-> FddUnits,             \* post_reset_sense_next
   releaseOwed |-> FALSE,               \* dor_reset_pending_completion
   pcn      |-> [u \in Units4 |-> 0],
   readId   |-> [u \in Units4 |-> 0],   \* position of the ID scan
   config   |-> ResetConfig,
   lock     |-> FALSE,
   answer   |-> NoAnswer,
   pending  |-> NoTransfer,             \* dma_read_pending, dma_write_pending
   lastWrite |-> <<>>,                  \* last_write, empty for None
   image    |-> image, media |-> media, wp |-> wp, changed |-> changed]

(* Fdc82077::reset keeps the medium, its protection and the change line.    *)
HardReset(f) == ResetFdc(f.image, f.media, f.wp, f.changed)

IrqLine(f) == f.irq /\ f.released /\ f.dma

HasResult(f) == f.phase.kind = "result"

----------------------------------------------------------------------------
(* Reset by DOR and DSR.                                                    *)

LockedConfig(f) == IF f.lock THEN [f.config EXCEPT !.eis = FALSE] ELSE ResetConfig

(* apply_software_reset.                                                    *)
SoftwareReset(f) ==
  [f EXCEPT !.irq = FALSE, !.phase = CommandPhase, !.seekEnd = NoUnit,
            !.resetSense = FddUnits, !.mt = FALSE,
            !.pcn = [u \in Units4 |-> 0], !.readId = [u \in Units4 |-> 0],
            !.answer = NoAnswer, !.pending = NoTransfer, !.lastWrite = <<>>,
            !.config = LockedConfig(f)]

(* complete_software_reset.                                                 *)
ResetDone(f) == [f EXCEPT !.resetSense = 0, !.irq = TRUE]

WriteDor(f, released, dma) ==
  LET g == [f EXCEPT !.released = released, !.dma = dma] IN
  CASE f.released /\ ~released -> [SoftwareReset(g) EXCEPT !.releaseOwed = TRUE]
    [] ~f.released /\ released /\ f.releaseOwed ->
         ResetDone([g EXCEPT !.releaseOwed = FALSE])
    [] OTHER -> g

(* A DSR write with bit 7: the reset that ends by itself.                   *)
WriteDsrReset(f) == IF f.released THEN ResetDone(SoftwareReset(f)) ELSE f

----------------------------------------------------------------------------
(* Seeks and their status.                                                  *)

(* clear_dskchg_if_media.                                                   *)
SeekEnds(f, unit, cylinder) ==
  [f EXCEPT !.pcn[unit] = cylinder, !.changed = @ /\ ~f.media,
            !.seekEnd = unit, !.irq = TRUE, !.phase = CommandPhase]

(* Mutant: a step in is not held at the register's end.                     *)
SteppedUnclamped(f, unit, n, in) ==
  IF in THEN f.pcn[unit] + n
  ELSE IF f.pcn[unit] < n THEN 0 ELSE f.pcn[unit] - n

Stepped(f, unit, n, in) ==
  IF in THEN IF f.pcn[unit] + n > MaxCylinder THEN MaxCylinder ELSE f.pcn[unit] + n
  ELSE IF f.pcn[unit] < n THEN 0 ELSE f.pcn[unit] - n

(* Mutant: the status of the last seek is dropped with a reset's.           *)
SenseInterruptForgets(f) ==
  LET queued == f.resetSense < FddUnits
      ended  == ~queued /\ f.seekEnd # NoUnit
  IN [f EXCEPT
        !.answer = [NoAnswer EXCEPT
                      !.code = IF ended THEN "seek_end" ELSE "ready_change",
                      !.unit = IF queued THEN f.resetSense
                               ELSE IF ended THEN f.seekEnd ELSE 0],
        !.resetSense = IF queued THEN @ + 1 ELSE @,
        !.seekEnd = NoUnit,
        !.irq = FALSE,
        !.phase = [CommandPhase EXCEPT !.kind = "result", !.cmd = "sense_int",
                                       !.left = 2]]

(* start_sense_interrupt: first the statuses of a reset, one per unit, then *)
(* the last seek's, once, then a stub.                                      *)
SenseInterrupt(f) ==
  LET queued == f.resetSense < FddUnits
      ended  == ~queued /\ f.seekEnd # NoUnit
  IN [f EXCEPT
        !.answer = [NoAnswer EXCEPT
                      !.code = IF ended THEN "seek_end" ELSE "ready_change",
                      !.unit = IF queued THEN f.resetSense
                               ELSE IF ended THEN f.seekEnd ELSE 0],
        !.resetSense = IF queued THEN @ + 1 ELSE @,
        !.seekEnd = IF queued THEN @ ELSE NoUnit,
        !.irq = FALSE,
        !.phase = [CommandPhase EXCEPT !.kind = "result", !.cmd = "sense_int",
                                       !.left = 2]]

----------------------------------------------------------------------------
(* The cells a data command names.  A parameter record has the unit, the    *)
(* cylinder, the head and sector where it starts, the last sector (EOT),    *)
(* and whether the size code is the medium's; mt is the controller's MT     *)
(* latch, which READ TRACK leaves from an earlier command.                  *)

LastSector(p) == IF p.eot >= p.r THEN p.eot ELSE p.r

TwoHeads(p, mt) == mt /\ p.h = 0 /\ p.eot >= p.r

(* R to EOT under the head, then, multi-track, 1 to EOT under head 1.       *)
Span(p, mt) ==
  [i \in 1 .. LastSector(p) - p.r + 1 |-> <<p.c, p.h, p.r + i - 1>>] \o
  (IF TwoHeads(p, mt) THEN [i \in 1 .. LastSector(p) |-> <<p.c, 1, i>>] ELSE <<>>)

Valid(span) == \A i \in DOMAIN span : span[i] \in Cells

Readable(f, span) == f.media /\ Valid(span)

SpanData(f, span) ==
  [b \in 1 .. Len(span) * SectorBytes |->
     f.image[span[((b - 1) \div SectorBytes) + 1]][((b - 1) % SectorBytes) + 1]]

SectorOf(data, i) == SubSeq(data, ((i - 1) * SectorBytes) + 1, i * SectorBytes)

(* A loop over write_sector: it stops at the first cell that does not exist,*)
(* with the cells before it written.                                        *)
WrittenCells(f, span, count) ==
  {i \in 1 .. count : f.media /\ \A k \in 1 .. i : span[k] \in Cells}

WriteCells(f, span, count, data) ==
  [f EXCEPT !.image =
     [cell \in Cells |->
        IF \E i \in WrittenCells(f, span, count) : span[i] = cell
        THEN SectorOf(data, CHOOSE i \in 1 .. count : span[i] = cell)
        ELSE @[cell]]]

(* A data command ends: its answer, the interrupt, the result phase.        *)
Ends(f, cmd, code, unit, head, sector) ==
  [f EXCEPT !.answer = [code |-> code, unit |-> unit, head |-> head, sector |-> sector],
            !.irq = TRUE,
            !.phase = [CommandPhase EXCEPT !.kind = "result", !.cmd = cmd,
                                           !.left = LongResult]]

Normal(f, cmd, p) ==
  Ends(f, cmd, "normal", p.unit, IF TwoHeads(p, f.mt) THEN 1 ELSE p.h, LastSector(p))

Fails(f, cmd, code, p) == Ends(f, cmd, code, p.unit, p.h, p.r)

(* Configure's EIS: a command with a cylinder moves the head there.         *)
ImpliedSeek(f, p) == IF f.config.eis THEN [f EXCEPT !.pcn[p.unit] = p.c] ELSE f

(* READ DATA: the data waits for the bus if DOR enables DMA.                *)
ReadData(f, p) ==
  LET span == Span(p, f.mt) IN
  IF p.sized /\ Readable(f, span)
  THEN Normal([f EXCEPT !.pending =
                 IF f.dma THEN [kind |-> "read", p |-> p,
                                data |-> SpanData(f, span)]
                 ELSE NoTransfer], "read", p)
  ELSE Fails([f EXCEPT !.pending = NoTransfer], "read", "ND", p)

(* READ TRACK: sectors 1 to EOT of one head, whatever R says.               *)
ReadTrack(f, p) ==
  LET track == [i \in 1 .. p.eot |-> <<p.c, p.h, i>>] IN
  IF p.sized /\ p.eot \in 1 .. TrackSectors /\ Readable(f, track)
  THEN Ends([f EXCEPT !.pending =
               IF f.dma THEN [kind |-> "read", p |-> p,
                              data |-> SpanData(f, track)]
               ELSE NoTransfer], "read_track", "normal", p.unit, p.h, p.eot)
  ELSE Fails([f EXCEPT !.pending = NoTransfer], "read_track", "ND", p)

Verify(f, p) ==
  IF p.sized /\ Readable(f, Span(p, f.mt)) THEN Normal(f, "verify", p)
  ELSE Fails(f, "verify", "ND", p)

(* Raw images have no deleted address marks: these two always fail.         *)
ReadDeleted(f, p) == Fails([f EXCEPT !.pending = NoTransfer], "read_deleted", "ND", p)

WriteDeleted(f, p) ==
  Fails([f EXCEPT !.pending = NoTransfer, !.lastWrite = <<>>], "write_deleted", "NW", p)

Zeros(span) == [i \in 1 .. Len(span) * SectorBytes |-> <<"zero">>]

NotWritten(f, p) ==
  Fails([f EXCEPT !.lastWrite = <<>>, !.pending = NoTransfer], "write", "NW", p)

(* Data written at once: from the latch, or zeros.                          *)
WriteNow(f, p, data) ==
  LET span == Span(p, f.mt)
      g    == WriteCells(f, span, Len(span), data)
  IN IF f.media /\ Valid(span)
     THEN Normal([g EXCEPT !.lastWrite = data, !.pending = NoTransfer], "write", p)
     ELSE NotWritten(g, p)

(* WRITE DATA.  What an earlier command left in last_write is taken for     *)
(* data supplied in advance.                                                *)
WriteData(f, p) ==
  LET span == Span(p, f.mt) IN
  CASE (f.media /\ f.wp) \/ ~p.sized -> NotWritten(f, p)
    [] ~(f.media /\ f.wp) /\ p.sized /\ f.lastWrite # <<>> ->
         IF Len(f.lastWrite) = Len(span) * SectorBytes
         THEN WriteNow(f, p, f.lastWrite) ELSE NotWritten(f, p)
    [] ~f.wp /\ p.sized /\ f.lastWrite = <<>> /\ f.dma /\ f.media ->
         IF Valid(span)
         THEN Normal([f EXCEPT !.pending = [kind |-> "write", p |-> p,
                                            data |-> Zeros(span)]], "write", p)
         ELSE NotWritten(f, p)
    [] OTHER -> WriteNow(f, p, Zeros(span))

(* FORMAT TRACK: sectors 1 to SC (in eot) of the cylinder the head is at.   *)
FormatTrack(f, p) ==
  LET track == [i \in 1 .. p.eot |-> <<f.pcn[p.unit], p.h, i>>]
      fill  == [i \in 1 .. p.eot * SectorBytes |-> <<"fill">>]
      ok    == f.media /\ ~f.wp /\ p.sized /\ Valid(track)
  IN Ends(IF ok THEN WriteCells(f, track, p.eot, fill) ELSE f, "format",
          IF ok THEN "normal" ELSE "NW", p.unit, p.h, 0)

(* READ ID: the next ID field of the track under the head.                  *)
ReadId(f, p) ==
  IF f.media /\ f.pcn[p.unit] < Cylinders
  THEN Ends([f EXCEPT !.readId[p.unit] = (@ + 1) % TrackSectors],
            "read_id", "normal", p.unit, p.h, f.readId[p.unit] + 1)
  ELSE Ends(f, "read_id", "MA", p.unit, p.h, 0)

Execute(f, cmd, p) ==
  CASE cmd = "format" -> FormatTrack(f, p)
    [] cmd = "read_id" -> ReadId(f, p)
    [] cmd = "read" -> ReadData(ImpliedSeek(f, p), p)
    [] cmd = "read_track" -> ReadTrack(ImpliedSeek(f, p), p)
    [] cmd = "read_deleted" -> ReadDeleted(ImpliedSeek(f, p), p)
    [] cmd = "verify" -> Verify(ImpliedSeek(f, p), p)
    [] cmd = "write" -> WriteData(ImpliedSeek(f, p), p)
    [] cmd = "write_deleted" -> WriteDeleted(ImpliedSeek(f, p), p)

----------------------------------------------------------------------------
(* After the bus has moved the data (or as many bytes as the channel took). *)

(* end_chs_after_dma_bytes: where the last byte came from or went.          *)
EndCell(f, p, bytes) ==
  LET span == Span(p, f.mt)
      i    == IF bytes = 0 THEN 1 ELSE ((bytes - 1) \div SectorBytes) + 1
  IN IF i <= Len(span) THEN span[i] ELSE <<p.c, p.h, LastSector(p)>>

EarlyStop(f, p, bytes) ==
  LET cell == EndCell(f, p, bytes) IN
  [f EXCEPT !.answer = [code |-> "EN", unit |-> p.unit, head |-> cell[2],
                        sector |-> cell[3]]]

(* Mutant: a sector that arrived in part is written, padded.                *)
CommitDmaWritePadded(f, p, data) ==
  LET span     == Span(p, f.mt)
      expected == Len(span) * SectorBytes
      complete == (Len(data) + SectorBytes - 1) \div SectorBytes
      padded   == [b \in 1 .. complete * SectorBytes |->
                     IF b <= Len(data) THEN data[b] ELSE <<"zero">>]
      written  == WriteCells(f, span, complete, padded)
  IN IF Len(data) < expected
     THEN EarlyStop([written EXCEPT !.lastWrite = padded], p, Len(data))
     ELSE [written EXCEPT !.lastWrite = data]

(* commit_dma_write_sector: whole sectors only.                             *)
CommitDmaWrite(f, p, data) ==
  LET span     == Span(p, f.mt)
      expected == Len(span) * SectorBytes
      complete == Len(data) \div SectorBytes
      written  == WriteCells(f, span, complete, data)
  IN IF Len(data) < expected
     THEN EarlyStop([written EXCEPT !.lastWrite = SubSeq(data, 1, complete * SectorBytes)],
                    p, Len(data))
     ELSE [written EXCEPT !.lastWrite = data]

----------------------------------------------------------------------------
(* The FIFO.                                                                *)

(* A command byte: dropped in reset and while a result is unread.           *)
WriteCommand(f, cmd, mt) ==
  LET params == ParamCount(cmd) IN
  CASE ~f.released \/ f.phase # CommandPhase -> f
    [] f.released /\ f.phase = CommandPhase /\ cmd = "sense_int" -> SenseInterrupt(f)
    [] OTHER ->
         [f EXCEPT !.lock = IF cmd \in {"lock", "unlock"} THEN cmd = "lock" ELSE @,
                   !.mt = IF cmd \in {"read", "verify", "write"} THEN mt ELSE @,
                   !.phase = IF params = 0
                             THEN [kind |-> "result", cmd |-> cmd,
                                   left |-> ResultCount(cmd)]
                             ELSE [kind |-> "params", cmd |-> cmd, left |-> params]]

(* The last parameter byte of a command other than a data command.          *)
Finish(f, cmd, p) ==
  LET idle == [f EXCEPT !.phase = CommandPhase] IN
  CASE cmd = "recalibrate" -> SeekEnds(f, p.unit, 0)
    [] cmd = "seek" -> SeekEnds(f, p.unit, p.c)
    [] cmd \in {"seek_in", "seek_out"} ->
         SeekEnds(f, p.unit, Stepped(f, p.unit, p.c, cmd = "seek_in"))
    [] cmd = "sense_drive" ->
         [f EXCEPT !.phase = [@ EXCEPT !.kind = "result", !.left = ResultCount(cmd)]]
    [] cmd = "configure" -> [idle EXCEPT !.config.pretrk = p.on]
    [] OTHER -> idle

(* A parameter byte before the last: Configure's second has its effect.     *)
WriteParam(f, on) ==
  LET g == [f EXCEPT !.phase.left = @ - 1] IN
  IF f.phase.cmd = "configure" /\ f.phase.left = 2
  THEN [g EXCEPT !.config.eis = on, !.config.fifo = on] ELSE g

(* Mutant: reading the result does not withdraw the interrupt.              *)
ReadResultKeepsIrq(f) ==
  LET ph == f.phase IN
  [f EXCEPT !.phase = IF ph.left = 1 THEN CommandPhase ELSE [ph EXCEPT !.left = @ - 1]]

(* The first byte of a data command's result withdraws the interrupt.       *)
ReadResult(f) ==
  LET ph == f.phase IN
  [f EXCEPT !.irq = IF ph.cmd \in Transfers /\ ph.left = LongResult THEN FALSE ELSE @,
            !.phase = IF ph.left = 1 THEN CommandPhase ELSE [ph EXCEPT !.left = @ - 1]]
=============================================================================
