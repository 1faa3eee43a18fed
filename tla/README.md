# x86WASM in TLA+

x86WASM is an emulator of a PC with an Intel 440FX/PIIX3 chipset, written in Rust: an
interpreter of the x86 instruction set, an MMU, a few dozen devices, and a machine that wires
them together. This directory holds its specification: modules that follow the Rust code method
by method, instances of them that TLC checks, and theorems that TLAPS proves.

All paths below are relative to the repository's root. A line of a module names the method it
models in the comment above it; `PROJECT.json` gives the lines.

- [1. The system](#1-the-system)
- [2. The modules](#2-the-modules)
- [3. What is checked](#3-what-is-checked)
- [4. What is proved](#4-what-is-proved)
- [5. Where the code and its documents differ](#5-where-the-code-and-its-documents-differ)
- [6. What is not modelled](#6-what-is-not-modelled)
- [7. Plan](#7-plan)

## 1. The system

### How it runs

One thread runs everything. `Machine::step` (`crates/machine-pc/src/lib.rs:944`) executes one
instruction: `step_paged` of the interpreter first services a latched NMI, then asks the bus to
poll interrupts (`poll_external_irq`, which samples every device output into the PIC pair and
acknowledges), then executes. After the instruction the step clock advances the timers, and a
reset that a port write latched is carried out. Between steps the *host* acts: it types keys,
moves the mouse, ticks timers, asserts interrupt pins, calls BIOS services. Nothing runs in
parallel, but guest and host interleave at every instruction, and most devices answer at once
inside a port access. What is hard is therefore not data races; it is

- the **order** of guest accesses, host calls and polls, which nobody wrote tests for beyond the
  straight one;
- **copies** of one fact that several paths update by hand: a line level in the device and in the
  PIC, a request in the IRR and in a latch, A20 in three places, a translation in the TLB;
- **edges**: the PIC's inputs latch a rise, the devices' outputs are levels, and they meet only
  when somebody polls;
- **long legal sequences**: nested interrupts with EOI, re-initialisation, mode switches between
  command and parameter bytes;
- **queues at their limit**, and errors half way through an operation;
- **restarts**: an instruction that page-faults runs again with its registers restored and its
  memory writes not.

Memory is not shared with the host's BIOS services concurrently; there are no crashes to recover
from and no messages to lose. Guest RAM and the CMOS survive a machine reset.

### Components

| Component | Source (`crates/`) | State | Operations | Interacts with | Correct when |
|---|---|---|---|---|---|
| 8259A pair | `devices/src/pic.rs` | per chip IRR, ISR, IMR, pins, ELCR mask, ICW phase, modes, priority | ICW1-4, OCW1-3, ELCR, poll read, device line, acknowledge | devices drive lines; CPU acknowledges; master and slave cascade | service nests by priority; no edge is lost, no level is stale; slave requests reach the master |
| CPU interrupt delivery | `x86-interpreter/src/lib.rs`, `x86-core/src/lib.rs` | IF, shadow, halt, one queued vector, NMI latch | poll and acknowledge, deliver, HLT, CLI, STI, MOV SS, IRET | PIC, devices, guest stack | each acknowledged vector is delivered once and ended once; MOV SS pairs are not split; a halted CPU wakes |
| Local APIC | `devices/src/lapic.rs` | IRR, ISR, TMR, pending latch, vector in service, TPR, timer, ICR | inject, take, EOI, timer tick, register stores | I/O APIC, HPET, host | IRR and latch agree; ISR nests by class; one EOI ends one interrupt |
| I/O APIC | `devices/src/ioapic.rs` | redirection entries, pins, Remote IRR | pin, store, EOI broadcast | HPET, devices, Local APIC | Remote IRR is set exactly while an EOI is owed |
| HPET | `devices/src/hpet.rs` | main counter, comparators, status, line | advance, byte stores | I/O APIC (level), PIC (legacy) | one interrupt per match; the level follows status |
| 8042, keyboard, mouse | `devices/src/i8042.rs` | output buffer, four queues, deferred mouse bytes, config, device modes, output port | commands, data, injections | PIC (IRQ1, IRQ12), A20, reset | bytes in order, none overwritten, none stuck, each interrupts |
| BIOS keyboard buffer, INT 16h | `machine-pc/src/bda_kbd.rs`, `int16.rs` | ring in RAM, host typeahead, shift flags | IRQ1 service, inject, get, peek | 8042, guest RAM | keys come out in the order they went in |
| PIT, RTC, step clock | `devices/src/pit.rs`, `cmos.rs`, `machine-pc/src/step_clock.rs`, `bda_timer.rs` | counters, latches, byte order, RTC time and flags, quanta | tick, load, latch, read | PIC (IRQ0, IRQ8), speaker port | no tick lost or doubled at a rollover; a latched pair of bytes is one count; flags cleared once |
| Paging, TLB | `x86-mmu/src` | TLB, mirrors of CR0/3/4 | translate, probe, invalidate | interpreter, memory | a hit equals a walk, or the guest owes an invalidation; A/D bits are set before use |
| Instruction execution | `x86-interpreter/src/lib.rs`, `x86-core` | registers, segments, TSS | one step | MMU, bus | faults restart, task switches are whole, privilege rises only through gates |
| Instruction decoding | `x86-decode`, `x86-spec`, `x86-ir` | none | bytes to instruction | interpreter | a function; tested by vectors |
| Physical memory map | `machine-pc/src/mem.rs`, `xbcs.rs`, `devices/src/port92.rs` | RAM, ROM overlay, PAM, SMRAM, A20 | read, write, attribute stores | PCI config, 8042, port 92h | an address has one owner; A20 agrees; a shadow copy is what was written |
| DMA controller | `devices/src/dma.rs` | channels, flip-flop, status, mask | program, service a byte | FDC, memory | counts exactly to terminal count; never leaves the page |
| Floppy controller | `devices/src/fdc.rs` | phase, command, FIFO, drive state | command bytes, execution, result, reset | DMA, PIC (IRQ6) | every command ends in its result phase; IRQ is seen once |
| IDE and ATAPI | `devices/src/ide.rs` | task file, phase, buffer, sense | command, PIO blocks, packet, reset | PIC (IRQ14/15), bus master | DRQ blocks are whole; INTRQ is cleared by the status read; sense names the last error |
| PCI, ACPI PM, bus master | `devices/src/pci.rs` | config spaces, PIRQ routes, PM timer, BM registers | config cycles, ticks, transfers | every PCI function, memory map, PIC | shared lines are the OR of their sources |
| UHCI | `devices/src/uhci.rs`, `machine-pc/src/uhci_wire.rs` | command/status, frame number, ports | frames, resets | PIRQD, memory | a completed TD is reported once |
| Serial, parallel | `devices/src/serial.rs`, `lpt.rs` | FIFOs, line status, THRE interrupt | port accesses | PIC (IRQ3/4) | THRE interrupts once per drain |
| fw_cfg | `devices/src/fw_cfg.rs` | selector, offset | select, read, DMA | memory | reads stay within an item |
| VGA | `devices/src/vga.rs` | register files, latches, planes | port and aperture accesses | frame dump | data transformation |
| Reset and power | `devices/src/cf9.rs`, `apm.rs`, `port92.rs` | latches | port writes | machine loop | a latched reset happens once, whole |
| Machine | `machine-pc/src/lib.rs` | all of the above | step, reset, tick, inject | everything | one order of sampling; reset leaves no stale copy |
| Host BIOS services | `machine-pc/src/int10.rs`, `int13.rs`, `int15_*.rs` | none of their own | one call, one answer | disks, memory | functions of the devices' state |
| Boot and media | `machine-pc/src/guest_boot.rs`, `mbr.rs`, `fat12.rs`, `eltorito_load.rs`, `crates/firmware-interface` | none | parse an image | disks | functions |
| Probes | `machine-pc/src/post_*.rs` | counters | step loops | machine | reporting; their loop is the scheduler |
| Front ends | `emulator-cli`, `emulator-web` | options | run, print | machine | plumbing |

The hazards of each, at the line where they bite, with the properties that address them, are in
`PROJECT.json`.

## 2. The modules

```
 Pic8259 ──┬── DualPic ──────── DualPicProofs         LocalApic
           ├── IrqDelivery ──── IrqDeliveryProofs     IoApic
           └── KeyPath ──────── KeyPathProofs            │
          I8042 ┘ │ implements                       ApicFabric ── ApicFabricProofs
               KeyStream

 Pit8254 ┐                        Dma8237 ── Fdc82077 ── Floppy ┐
 CmosRtc ┤                                                      ├── Storage ── StorageProofs
 Hpet    ├── Timers ── TimersProofs IdeDevice ── Ide ─────────────┘
 Pic8259 ┘     │ implements
            WallClock             Paging ── Tlb ── PagedCpu ──────────┐
                                                     │ implements     ├── ProtectedMode
                                                  TlbContract         │        │
                                               TaskSegments ──────────┘        │
                                                     │ implements     ProtectedModeProofs
                                                  TaskContract
```

`Pic8259Lemmas` holds what the proofs about the three modules that use the PIC share. Each `MC...`
module beside them (`MCDualPic`, `MCStorage`, ...) holds the values TLC gives their constants.

Chips are *records* and their methods *operators* from a record to a record, so that a module
that composes several components can apply whole methods in the order the code calls them:
`SyncCascade(AckSynced(...))` is one step because it is one call. Registers are sets of bit
numbers. The modules with variables have one action per call that somebody outside can make.

**Guests.** What software does is a constant: `Guests` is a set of sets of *features* (uses AEOI,
writes the ELCR, stops the keyboard's clock, ...), and a behaviour chooses one and keeps it. This
bounds the state space, and it lets a property that needs a discipline of the guest say which.

**Pic8259** (`devices/src/pic.rs`). `Chip` is `struct Pic8259`, `Pair` is `struct DualPic`.
`SetLine` is `set_irq_line`, `Requests` what `highest_priority_request` considers,
`InServiceBlocks` its blocking rule with special-mask and special-fully-nested modes, `AckIr`
`ack_ir_inner` with the spurious IR7, `Ocw2`/`Ocw3` and the ICW operators the command decoder,
`SyncCascade` and `AckSynced` the pair. Left out: vector bases (a vector is named by its chip and
its line) and register read-back.

**DualPic** puts the pair between guest port writes, device lines and CPU acknowledges. Its
history variable `served` is the stack of acknowledged and not ended inputs of each chip.

**IrqDelivery** (`step_paged`, `service_pending_external_interrupt`, `Machine::step`) is the CPU's
half: the eager acknowledge into the single `pending_irq` slot, the MOV SS shadow, NMI first,
HLT, and the guest's stack of frames with the stage of each handler (service the device, EOIs,
IRET). Handlers are any that service their device, write the EOIs their vector calls for and
return. `pair` and `lost` are history. Left out: the polls between iterations of a REP
instruction, faults, gates that change privilege.

**LocalApic**, **IoApic**, **ApicFabric** (`devices/src/lapic.rs`, `ioapic.rs`,
`machine-pc/src/ioapic_wire.rs`, `hpet_wire.rs`, `lapic_wire.rs`). The Local APIC has IRR *and* a
latch of one pending vector; a pin's delivery that does not find the latch free is dropped after
Remote IRR is set, as in the code. A register store is modelled with the effect of its four byte
stores where that differs (`EoiStores`). `orphaned` is history: pins whose Remote IRR belongs to a
delivery that was dropped, an entry that was rewritten, or a vector ended without the broadcast. The
HPET is its line here: an advance may raise it, and syncs the pin; a store may do anything to it,
and does not sync. What moves that line is module Hpet's. Left out: read-only registers, LDR/DFR and
the indirect index.

**I8042** (`devices/src/i8042.rs`) is the keyboard controller with the keyboard and mouse behind
it: the output buffer, the four queues that share it and the order `take_output` serves them in,
translation with its break prefix, the clocks, bytes deferred for the mouse, the commands of all
three devices by what they change and how many bytes they answer. A byte is what its reader can
make of it: a make code (a key), `Quiet` (a break, prefix or modifier), `Reply` (bit 7 set: the
BIOS ignores it), `Stray` (reads like a make code), `Mouse`. LEDs, rates, resolution and movement
data are left out: nothing depends on them.

**KeyPath** composes I8042 with the PIC pair, the BIOS keyboard buffer (`bda_kbd.rs`, a ring in
guest RAM that survives a reset and starts as untouched zeros), INT 16h with the host's own
typeahead (`int16.rs`), the A20 gate's three copies and the reset latches of 8042, port 92h and
CF9h. A guest's step is a poll, which the code
makes whether interrupts are enabled or not, and one port access; the reset an access latched
follows within the same step, as in `Machine::step`. `arrival` is history: how
the byte in the output buffer got there.

**KeyStream** is what that path promises: two bounded queues, `held` and `buffered`, in which keys
keep their order. KeyPath implements it under the refinement mapping
`held <- Keys(<<output>> \o scan queue)`, `buffered <- Keys(ring words from head to tail)`.

**Pit8254**, **CmosRtc**, **Hpet** (`devices/src/pit.rs`, `cmos.rs`, `hpet.rs`) are the three timer
chips as records. A channel of the 8254 has its two-phase writes and reads, its count and status
latches, the gate, and one `Tick...` operator per mode (1 and 5 share the strobes' and one-shots');
port 61h with its error latches is part of it. The RTC keeps its time in registers as the guest
formatted them, BCD or binary, 12 hours with a PM bit or 24, and the calendar carries in that form;
with it come the alarm, the flags of Status C, SET, UIP and the periodic rate. The HPET has its
counter, whose dword store is four byte stores each compared with the comparator, and Timer 0,
one-shot or periodic.

**Timers** (`Machine::step`, `tick_pit`, `tick_cmos`, `step_clock.rs`, `bda_timer.rs`) is one step:
poll the lines and acknowledge, one port access, then the clocks the step is charged, with the step
clock's remainders, all three PIT channels, the HPET, the RTC's periods and seconds, IRQ0 and IRQ8
and the BIOS tick count. The host may tick each chip itself. A fold of clock ticks is one action
because the code makes it inside one call. History: `meter` (the intervals between edges of OUT),
`reading` (what a latch caught and the reads returned), `irq`, `due`, `order`, `elapsed`.
**WallClock** is what a clock with a calendar and an alarm promises, over a day number and a second
of the day; Timers implements it by decoding the registers.

**Dma8237**, **Fdc82077**, **Floppy** (`devices/src/dma.rs`, `fdc.rs`, `Machine`'s pump of DMA after
a port write, `machine-pc/src/int13.rs` for the floppy). The FDC's command, parameter and result
phases are there for every command; a command executes in the write of its last parameter, and
the data it armed moves through channel 2 in the same port write, as in the code. The DMA's
registers are written by digits through the shared flip-flop. The host changes media and serves
INT 13h on the same image.

**IdeDevice**, **Ide** (`devices/src/ide.rs`): one channel with one device, an ATA disk or an ATAPI
drive; commands by their protocol (PIO in, PIO out, multiple, buffer, packet, no data), the sector
loop of both directions, LBA28 and LBA48 counts, the packet phases with their byte-count limits,
sense, soft reset, nIEN and the selection of the absent slave. `job` is history: what the host asked
for and how far it got. **Storage** puts floppy and IDE side by side; they share no state, so a
behaviour drives one of them.

**Paging**, **Tlb** (`x86-mmu/src/paging`): entries, the walk, the rights with WP and U/S, reserved
bits, accessed and dirty marks, error codes; the TLB keyed by 4-KiB page number, also for large pages,
with global entries, INVLPG, and what loads of CR0, CR3, CR4 and page faults invalidate.
**PagedCpu** (`PagedBus`, `step_paged`) is the interpreter around it: loads and stores, a store over
two pages (both are probed before the first byte is written), REP INSB, which commits its registers
with every iteration, CMPXCHG8B by accesses, the restart after `#PF`, and the guest's edits of its
tables. **TlbContract** is what software may rely on in a TLB, in the words of the SDM that `tlb.rs`
quotes; PagedCpu implements it.

**TaskSegments** (`task_switch`, `resolve_task_tss_selector`, `exec_ltr`) is a hardware task switch
store by store: the checks, the two halves of the outgoing context, the link of a CALL, the busy
bits in the order of each form, and the registers last. Any store whose page the switch has not
written yet may page-fault; what was stored stays, and the guest runs the switch again or gives it
up. **TaskContract** is what software may rely on: switches happen as a whole, over one set of busy
tasks and one context per task; TaskSegments implements it. **ProtectedMode** composes the two:
stores fault only with paging on, and a switch that is done loads CR3 and CR0.TS.

## 3. What is checked

Deadlock is checked in every passing run. A run takes between half a minute and three minutes with
two workers.

| Run | Module, cfg | Distinct states | Question |
|---|---|---|---|
| `pic` | MCDualPic, `DualPic.cfg` | 744,777 | Does the pair keep its requests and its nesting under any sequence of writes, lines and acknowledges? |
| `irq` | MCIrqDelivery, `IrqDelivery.cfg` | 543,725 | Is every acknowledged interrupt served and ended, and does a halted CPU wake? |
| `irq_lost` | same module, `IrqLost.cfg` | violation | section 5 |
| `apic` | MCApicFabric, `ApicFabric.cfg` | 1,018,112 | Do latch, IRR, ISR and Remote IRR stay consistent? |
| `apic_eoi` | same module, `ApicEoi.cfg` | violation | section 5 |
| `kbd` | MCKeyPath, `KeyPath.cfg` | 546,566 | Do keys arrive, in order, with their interrupt? |
| `kbd_irq` | same module, `KbdIrq.cfg` | violation | section 5 |
| `timers` | MCTimers, `Timers.cfg` | 195,101 | Do counters, clock and HPET keep time, and do their interrupts arrive once each? |
| `storage` | MCStorage, `Storage.cfg` | 555,968 | Does the data of every disk command land where and as its result says, with its interrupt? |
| `fdc_write` | same module, `FdcWrite.cfg` | violation | section 5 |
| `paging` | MCPaging, `Paging.cfg` | 398,698 | Does the TLB keep its contract, is every access exact through faults and restarts, and is a task switch whole? |
| `swap` | same module, `PagingSwap.cfg` | violation | section 5 |

### `pic`

Three inputs per chip and twelve guests. With three inputs an input has one of higher and one of
lower priority and the cascade sits between two devices, so every relation the priority resolver
distinguishes occurs, under every rotation; two slave inputs are enough to have one in service and
one requesting. Guests use one group of features each: masks, specific EOI, rotation, special mask
mode, software poll, AEOI, special fully nested mode, short ICW sequences, ELCR, re-initialisation,
and devices that drop a request before it is acknowledged.

- `LevelRequestIsPin`: a level input requests exactly while its pin is high.
- `CascadePinFollowsSlave`: the master's cascade pin is the slave's INT output, always.
- `SlaveRequestReachesMaster`: and it is latched, so the slave's request will be delivered. For
  four kinds of guest this fails, and the property excludes them by name (`KeepsCascadeEdges`): a
  software poll of the master, AEOI, a second ICW1, and a device that drops its request each consume
  the cascade's edge while the slave's output stays high. The code is an edge-triggered 8259A there,
  and the situation is one its guest asked for.
- `ServiceNests`: for guests that only nest, the ISR is the stack of what was acknowledged and not
  ended, by strictly rising priority; so a non-specific EOI ends the innermost handler.
- `EdgeRequestSticks`: an edge request leaves the IRR only by its acknowledge, ICW1, reset or a
  switch to level sense, on either chip.

### `irq`

A timer and a keyboard on the master, a clock on the slave, handlers nested to depth two (the
bound `MaxDepth`), NMI at any time, two OCW1 values. Depth two has every pair of interrupter and
interrupted; a third level adds no new relation between a frame and the slot.

- `ServiceAccounted`: every ISR bit is owed exactly one EOI, by a handler that has not written it,
  by the vector in the slot or by one that was overwritten there.
- `SsPairUnsplit`: a maskable interrupt between MOV SS and the next instruction occurs only where
  an NMI came first.
- `HaltWakes` (liveness): a CPU halted with IF set and a deliverable request wakes.

Fairness: `WF_vars(IdleStep)`, steps of a CPU that is halted with interrupts enabled. The code's
measuring loop keeps stepping such a CPU (`machine-pc/src/post_probe.rs:537`,
`docs/machine-r4-halt-diagnosis.md`). `Machine::run` and the command line's loop stop at HLT, and
for them nothing is claimed. No fairness is assumed of devices or of the guest.

### `apic`

Vectors 32 and 33 of one class and 48 of a higher one; the HPET on a level pin, a device on a pin
that the guest may give a vector of its own, the HPET's, or a delivery mode the code does not
support; two destination IDs; a timer that counts to one. The divider of 2 makes the prescaler's
remainder matter. `TprStores` has a class below and one equal to the lower vectors'.

- `PendingIsRequest`: IRR and the latch are one fact.
- `ServiceNests`: one vector in service per class, the tracked one the highest.
- `RemoteIrrAccounted`: Remote IRR means a vector latched or in service, or `orphaned`.
- `EoiRedeliversLevel` (action property): a level HPET line still high at the host's EOI is
  delivered by that EOI.

### `kbd`

Two keys; scancode queue of 2, mouse queue of 4 (the longest response), deferred mouse bytes 2,
dump of 2, ring of 3 slots, typeahead of 1; four PIC inputs. All limits are reached, and each
queue can be empty, full and between. Ten guests: BIOS services with break codes; a driver that
switches clocks and writes the configuration; keyboard commands; mouse with configuration, and with
clocks and keys; dump, A20 and resets; interrupts; and three that `barge`: give commands, or let
the host place bytes, whatever the output buffer holds. Mouse commands are the six that differ in
what they do to the mouse's mode; the others answer like one of these.

- `KeysFlow`: KeyPath implements KeyStream. Keys pass through the scancode queue, the output buffer
  and the ring in the order they were typed, with responses going first, clocks stopping between,
  bytes forced in, a full ring and resets in between.
- `UnreadKeyWaits` (action property): a key in the output buffer leaves it only by a read or a
  reset, unless the guest barges. A command that is answered at once does overwrite the buffer in
  the code (`push_output`); guests that follow the usual discipline, with the keyboard's clock
  off and the buffer drained, are safe, and the model lets the mouse get in between.
- `NothingHeldBack`: nothing waits behind an empty output buffer except for a clock that is off.
  Scancodes and keyboard responses are not in it: see section 5.
- `A20Agrees`: the output port, port 92h and the memory map have one A20.
- `FreshKeyRequests`: a key that finds the buffer empty raises IRQ1 even when no poll has seen the
  line low since the last one was read, which is why the injection pulses the line.

No fairness is assumed.

### `timers`

A byte is a digit in base 2, so a count has two digits and counts run to 4: low and high byte still
differ, a borrow crosses from one to the other, and 0 stands for the full count. One RTC period is 2
clocks, one second 3 (they interleave unevenly, with remainders), a day 2 BIOS ticks. The clock runs
up to `MaxSeconds` = 2 after it was set, from eight dates that each stand one or two seconds before
a carry: year and century, the calendar's end, leap day of a 400-year, no leap day of a century, end
of a leap day, noon, the hour after noon, midnight's hour. The HPET's byte lanes are digits in base
2 too, so its counter wraps at 16, and it runs 3 ticks per clock. Eighteen guests use one thing
each: the periodic modes under three charges per step (1, 2, 3 clocks, more than a whole period
included), rewriting counts, latches, gate and port 61h on channel 2, errors and NMI enables, RTC
interrupts, calendar in both formats, HPET, and a host that ticks.

- `OutOnTime`: intervals between edges of OUT are the mode's, whatever a step is charged. A count
  of 1 in modes 2 and 3, which the datasheet forbids, is excluded.
- `CountReadWhole`: the two bytes read after a latch are one count, the one at the first latch.
- `HpetOnTime`: the event comes in the tick that reaches the comparator, over the wrap, once, and a
  periodic timer's next one a period after that tick; the line shows it until it is cleared. It says
  nothing between a store of the counter, or of another mode, and the next store of the comparator:
  see section 5.
- `InterruptsKept` (action property): an edge of IRQ0 is acknowledged by the very next step unless
  in service or OUT fell again, IRQ8 as soon as nothing is above it, and neither without an edge.
- `CalendarRuns`: Timers implements WallClock, in every format and across changes of it. The calendar
  goes round: after 31 December 9999 comes 1 January 0, as `advance_year` has it. Guests write days that
  the calendar has (`Date`), with any weekday; while the weekday is not the date's, WallClock shows
  no time.

No fairness: a clock tick is part of the step that is charged for it, so "on time" is safety.

### `storage`

A floppy of two heads, two sectors per track, two bytes per sector; cylinder 1 exists for seeks but
not on the medium, so the reads past the end occur. 16-bit DMA registers are two digits in base 2:
an address and a count each have a low and a high byte, a block may wrap inside its page, and the
counts 1 to 3 end before, with and after the transfer the command asked for. `MaxMoves` = 2 bounds
how often the guest programs channel 2, enough for a block left over, or wanted twice. Twelve floppy
guests use one or two groups of commands each. The disk has four sectors of two words; a count
register of 0 stands for 4, multiple mode takes 2, and `MaxCommands` = 2 commands in one behaviour
have one abandon the other in every phase. Transfers also start at the last sector and at the one
before it, so that an LBA28 transfer leaves the disk at a block's start and in mid-block. Ten IDE
guests.

- `ResultTells`: what a floppy command's result says is what was moved.
- `OneBlockPerProgram`: memory is written only by a block the guest programmed.
- `AnswerInterrupts`, `SeekEndReported`: every answer raises the line if the one before was
  answered; a seek's end is reported after a reset's four statuses and is not lost behind them.
- `TransferOnCourse`, `SectorsLand`, `BlocksInterrupt`: host and device agree, word by word, on
  where they are, whatever was abandoned before; sectors are written whole, where and as the host
  sent them; interrupts come per block, and where the transfer fails.
- `WaitsOnOne`: DRQ asks for one thing, and no packet phase outlives its command.

No fairness: every command completes within the access, so nothing is left to be scheduled.

### `paging`

One region (a directory entry) with two pages, two directories, two tables, of which the second is
also the base of a large page, two frames. Two pages are what a straddling store, INS and an operand
of CMPXCHG8B need; two directories what CR3 loads and global pages need. Five guests edit entries
from small sets: write protection with user and supervisor accesses; two address spaces with global
pages, PGE, PG and reset; a large page against a table in its place, with reserved bits and PSE;
REP INSB of three bytes with interrupts between; CMPXCHG8B. A sixth guest switches between three
tasks, which is what a chain of calls that is left by JMP needs; a context has two halves of two values.

- `CacheKeepsContract`: PagedCpu implements TlbContract: what is cached was a walk's result, and is
  no older than the last thing that invalidates it. A large page is cached once per small page used,
  and INVLPG of any of them drops all.
- `AccessExact` (action property): a fault leaves the structures unmarked, reports what they or the
  cached entry say, and does not come again at a page once it permits the access; a store leaves its
  page dirty; every byte INS takes from the port is in the buffer once, in its place.
- `SwitchesWhole`: TaskSegments implements TaskContract, whichever stores of a switch fault, whether
  it is run again or given up, in any order of JMP, CALL and IRET. One case is left out of the
  guest: giving up a JMP that has cleared the busy bit of the task that runs (section 5).

No fairness: faults are handled by the guest or not at all.

## 4. What is proved

Each proof module proves properties of one component for every value of its constants: any number of
inputs, any set of vectors, pins, keys, pages, tasks or guests that satisfies the named assumptions
(`PicAssumption`, `DualPicAssumption`, `LocalApicAssumption`, `IoApicAssumption`,
`FabricAssumption`, `IrqAssumption`, `I8042Assumption`, `KeyPathAssumption`, `PagingAssumption`,
`TlbAssumption`, `PagedCpuAssumption`, `TaskAssumption`, `IdeAssumption`, `HostAssumption`,
`DmaAssumption`, `FdcAssumption`, `FloppyAssumption`, `PitAssumption`, `HpetAssumption`,
`TimersAssumption`), which say that registers have a width and queues a room, and which TLC
evaluates in the runs. `Pic8259Lemmas` derives least and greatest elements from the well-foundedness
of the naturals; everything said about "the highest priority" rests on it.

| Module | Theorem | Says |
|---|---|---|
| `DualPicProofs` | `TypeCorrect` | `Spec => []TypeOK` |
| | `LevelRequests` | `Spec => []LevelRequestIsPin` |
| | `CascadePin` | `Spec => []CascadePinFollowsSlave` |
| | `SlaveRequests` | `Spec => []SlaveRequestReachesMaster` |
| | `ServiceStacks` | `Spec => []ServiceNests` |
| | `EdgesStick` | `Spec => EdgeRequestSticks` |
| `ApicFabricProofs` | `TypeCorrect` | `Spec => []TypeOK` |
| | `PendingRequest` | `Spec => []PendingIsRequest` |
| | `Nesting` | `Spec => []ServiceNests` |
| | `RemoteIrr` | `Spec => []RemoteIrrAccounted` |
| | `Redelivery` | `Spec => EoiRedeliversLevel` |
| `IrqDeliveryProofs` | `TypeCorrect` | `Spec => []TypeOK` |
| | `EoisBalance` | `Spec => []ServiceAccounted` |
| | `PairsStayWhole` | `Spec => []SsPairUnsplit` |
| `KeyPathProofs` | `TypesKept` | `Spec => []TypeOK` |
| | `NothingWaits` | `Spec => []NothingHeldBack` |
| | `A20IsOne` | `Spec => []A20Agrees` |
| | `FreshKeysRequest` | `Spec => []FreshKeyRequests` |
| | `UnreadKeysWait` | `Spec => UnreadKeyWaits` |
| | `KeysInOrder` | `Spec => KeysFlow`, a refinement |
| `ProtectedModeProofs` | `SwitchesAreWhole` | `ProtectedSpec => SwitchesWhole`, a refinement |
| | `ProtectedTypes` | `ProtectedSpec => []ProtectedTypeOK` |
| | `CacheIsSound` | `ProtectedSpec => CacheKeepsContract`, a refinement |
| | `AccessesAreExact` | `ProtectedSpec => AccessExact` |
| `StorageProofs` | `ChannelSound` | `StorageSpec => []IdeInv`, the channel's inductive invariant |
| | `ChannelWaitsOnOne` | `StorageSpec => []WaitsOnOne` |
| | `TransfersOnCourse` | `StorageSpec => []TransferOnCourse` |
| | `SectorsAlwaysLand` | `StorageSpec => SectorsLand` |
| | `BlocksAlwaysInterrupt` | `StorageSpec => BlocksInterrupt` |
| | `FloppySound` | `StorageSpec => []FdInv`, the floppy path's inductive invariant |
| | `DisksTyped` | `StorageSpec => []StorageTypeOK` |
| | `SeekEndsReported` | `StorageSpec => []SeekEndReported` |
| | `OneBlockOfMemory` | `StorageSpec => OneBlockPerProgram` |
| | `AnswersInterrupt` | `StorageSpec => AnswerInterrupts` |
| | `ResultsTell` | `StorageSpec => ResultTells` |
| `TimersProofs` | `TimersTyped` | `TimersSpec => []TimersTypeOK` |
| | `TimersOutOnTime` | `TimersSpec => []OutOnTime` |
| | `TimersCountReadWhole` | `TimersSpec => []CountReadWhole` |
| | `TimersHpetOnTime` | `TimersSpec => []HpetOnTime` |
| | `TimersInterruptsKept` | `TimersSpec => InterruptsKept` |
| | `TimersCalendarRuns` | `TimersSpec => CalendarRuns`, a refinement |

**The pair.** None of the properties is inductive alone: that the cascade pin follows the slave
depends on the slave's level requests being its pins (an acknowledge must leave a level request
standing), and that a slave request is latched at the master depends on the pin and on which
registers hold the cascade input. `PairInv` is their conjunction for a pair: `PairSound` (types,
roles, level requests, hard-wired ELCR bits), `PinFollows`, `ReachesMaster`. The argument then
follows the code: each chip-level operator takes a sound chip to a sound chip (`RaiseSound`,
`LowerSound`, `AckIrSound`, the `...Quiet` lemmas), and `SyncCascade` restores the two cascade facts
from any sound pair (`SyncCascadeSound`); an operation is a chip operator followed by `SyncCascade`,
or one on the master that does not touch the cascade input. The delicate case is the acknowledge,
where the slave's half comes between the master's and the sync (`AckSilences`, `AckSyncedInv`).
`ServiceNests` adds `NestInv`: with a guest that only nests, the ISR is what the history stack holds
and the stack rises in priority. What is acknowledged is above everything in service, so it goes on
top, and what a non-specific EOI ends is the top.

**The APICs.** `Sound` is the Local APIC's invariant: types, latch and IRR agree, classes in service
are distinct, the tracked vector is the highest. Most operations only ever *add* to what is latched
or in service, which is what Remote IRR needs; `Grows(l, m)` says so together with soundness, is
shown once per operation, and composes through the wiring. Take and EOI are the two that remove, and
have lemmas of their own (`TakeGrows`, `EoiSound`, `BroadcastSound`). That the processor priority
bounds every class in service (`PprBoundsService`) is what makes a taken vector start a new class.

**Interrupt delivery.** `IInv` joins what each party knows of an interrupt under way: the two chips
keep the wiring and the modes the BIOS gave them (`WiredPair`), every frame on the guest's stack is
at a stage its vector has (`Staged`), and each chip has as many inputs in service as EOIs are owed
(`Accounted`): by the frames, by the queued vector, and by vectors that were overwritten and are
counted as lost. `CpuInv` says that between MOV SS and its partner the shadow stands. The sums are
over sets of frames, so the proofs count: a frame that is pushed, popped or moved to its next stage
changes the cardinality by one or not at all.

**The keyboard's path.** `KInv` has a controller that is `Well` (no response of the controller waits
behind an empty buffer, nor a mouse byte while the mouse is enabled), a pair in its plain modes
(`PlainPair`), and between them that the byte a poll has not seen finds IRQ1 low or latched
(`Asks`). A flush of a queue gives its byte to an empty buffer or changes nothing (`Flushed`); every
other operation is shown to keep `Well`, A20 and an unread byte (`Moves`, `Unread`); and what the
machine does to the PIC takes no request for IRQ1 away but by acknowledging it (`Steady`).
`EnableAux` is a recursive function over the deferred bytes; that it is one, and what it keeps, is
shown from a least counterexample, by the well-foundedness of the naturals, without induction over
an operator. For `KeysFlow` the keys a controller holds are the keys among its output buffer and its
scancode queue, in that order. A flush of the queue only moves the boundary between the two
(`HeldSplit`), every operation but a read, a scancode and an overwrite of a guest that barges leaves
the keys alone (`KeepsKeys`), a read takes the first (`TakenHeld`), and a scancode adds the last
(`TypedHeld`). What the keys of a sequence are is a recursive function again: that it maps a
concatenation to one is shown by a least counterexample (`KeysAppend`, `KeysCons`). The BIOS ring is
the words from its head to its tail, modulo its size; `EnqueuedWords` and `DequeuedWords` say that
an enqueue appends one and a dequeue takes the head. Every step of KeyPath is then a step of
KeyStream or a stutter.

**Paging and task switches.** `PagedInv` is `PagedTypeOK`, `MmuInv` (the MMU saw the control
registers as they are, and the page that last faulted is not cached) and `InsInv` (what REP INSB has
moved against what it has taken from the port). From it every step of PagedCpu is a step of
TlbContract or a stutter under the refinement mapping, and `AccessExact` holds of it. `TaskInv` says
what the descriptors show in every stage of a switch: the task that runs is busy unless a JMP is
half way, NT stands only with a link to another task, a switch has a target other than itself. Every
step of TaskSegments is then a step of TaskContract, and the theorems are about their composition.

**The disk channel.** `IdeInv` relates the channel to the host's history `job`, word by word: `Tidy`
(DRQ stands for a sector or a packet phase, never both), `Sectors` (sectors done, sectors left and
the offset in the buffer against the words moved), `Place` (the address, and that the disk holds
what was sent for the sectors done), `Block` (where the block of a MULTIPLE command ends), the
packet phase against the host's limit (`Asks`), and the count register (`Tally`). Every step moves
one word (`Word`) or none (`NoWord`). Proving `BlocksInterrupt` uncovered a case that the run's
bounds had left out: a READ or WRITE MULTIPLE that fails at the end of the disk in mid-block
interrupts there. The property now says so, and transfers start close enough to the end for the run
to reach it. The bounds of the registers (`IdeBounds`) are an invariant on top: each operator of
`IdeDevice` takes `TightRegs` to `TightRegs`, given that what is asked for is a number of sectors
the count register can express. `IdeTypeOK` had bounded the sectors left by the values of one
register; an LBA48 transfer counts in two, which the instance is too small to show, and now it says
so.

**The floppy path.** Between accesses the controller is `Settled`: its registers typed, no transfer
armed, nothing under way in reset, and a seek's end told only after a reset's statuses. `FdInv` adds
what the parties agree on: an interrupt the guest is not owed is not pending, the end of a seek it
waits for is latched, and an unmasked channel is one it has programmed (only a channel that
initializes itself stays unmasked after its block). A data command arms and pumps within one access,
so `ResultTells` is about one step, but a long one. The argument follows the code's halves:
`Executed` says what a command may answer and arm, by command; `Pump` takes what is armed, and
`ReadMoved` and `WriteMoved` say what the channel's share becomes, in memory or on the medium. The
rest is arithmetic of places: the n-th byte of a span lies in sector (n - 1) div the sector's size,
which is the end address of an early end (`EndCellFacts`), and whole sectors of the share are what a
write stores (`StoredBlock`). `CommitDmaWrite` with data left over by an earlier write is the case
the theorem excludes, and `WriteSendsMemory` of section 5 fails in.

**The timers.** A step of Timers is a part of its own for each chip (`Parts`: what the instruction
does to the PIT, to the RTC and its line, to the HPET) and then the clocks it is charged, so an
invariant is shown of the parts and of one clock. `Ticked`, a recursive function over the clocks, is
reasoned about once: a set of states that a clock stays in is one that any number of clocks stays in
(`TickedKeeps`, by a least counterexample); `Freerun` over the HPET's ticks is one jump. `TimersInv`
is the types and `Counted`: both PICs in the modes the BIOS gave them (`Steered`), the cascade wired
(`Wired`), IRQF the flags that are enabled, and each latched request an edge that the history has
not seen acknowledged; `InterruptsKept` follows from it. `HpetOnTime` needs the distance from the
counter to the comparator beside the history (`Exact`), which wraps with the counter; for it the
ticks of one step stay below a lap (`TimersAssumption`: the code's 32-bit counter against the clocks
of a step). `CountReadWhole` is about a latch and the history alone (`Whole`): nothing but a latch,
a read and a control word touches them. `OutOnTime` needs `Timed`: the meter's clocks since the last
edge against the count, by mode and stage of the waveform (`FirstHalf`, `LowHalf`, `RatePulse`,
...); a clock, a count written, a gate edge each keep it, and the load starts it. The interval that
an edge closes is then the one its mode allows, for every length of a count.

**The calendar.** That Timers implements WallClock is a refinement proof of its own. The hard half
is that the clock's registers mean anything: `Keeps` says that there are a year, a month, a day, an
hour, a minute and a second of which the registers are the code in the format that is set (or the
month is the 0 of a clock that nobody has set), and an alarm likewise, whose hour may be any. The
lemmas go by layers. A field decodes to what was encoded, in BCD and in binary, and so does an hour
in both clocks (`HourReformed`, for a change of format as it runs). A field counts up to its last
value and then carries; so seconds, minutes and hours make the next second of the day. The day
number of the next date is the next number (`MonthEnds`, `YearEnds` with the leap years of the
Gregorian rule, and the calendar's end), so the weekday, which the chip counts by itself, stays the
date's. Each action is then a step of WallClock or a stutter: an update passes a second and rings
exactly when the alarm names it, and the rest keep time and alarm or were told to change them.

**Model-checked only.** `HaltWakes` is a liveness property and stays with TLC, as do `ENABLED` and
fairness in general. Every other property of a passing run is stated by a theorem. The induction
theorems of the library take an operator as a parameter, which the installed provers cannot
instantiate; where a property is about what a fold or a recursive function computes, each use needs
an argument by a least counterexample of its own. The violated properties of section 5 are runs by
nature.

## 5. Where the code and its documents differ

Each is a run in which TLC finds the statement violated; the counterexamples are short.

- `irq_lost`, `QueuedIsDelivered`. `x86-core` says a queued vector is delivered when IF allows.
  The step acknowledges the PIC before it looks at IF or the shadow and the slot holds one vector:
  a second acknowledge overwrites the first, whose ISR bit stays set with no handler to end it.
- `apic_eoi`, `EoiEndsOne`. `docs/lapic-r8-eoi-isr.md` says an EOI write clears one ISR bit. The
  CPU splits a dword store into four byte stores, and each runs the register's effect.
- `kbd_irq`, `EveryKeyRequests`. The 8042's module comment says IRQ1 is raised when the output
  buffer is filled from the keyboard. `take_output` moves the next byte up within the read, the
  line never falls, and the edge-triggered input sees nothing: the second of two keys typed ahead
  does not interrupt.

- `fdc_write`, `WriteSendsMemory`. The machine model says a successful WRITE DATA takes its bytes
  from memory by DMA. The controller keeps the bytes of the last write and the next WRITE DATA of
  that length writes them again, without a transfer. `ResultTells` is claimed of a WRITE DATA
  without such a leftover.
- `swap`, `SwapRestarts`. The comment on `PagedBus` says a restart repeats the same bytes, the test
  `cmpxchg8b_memory_faults_are_atomic` that a fault leaves the flags and EDX:EAX alone. When the
  second half of CMPXCHG8B's operand faults, the first is written, and the retry compares with it.

Observed while modelling, without a run:

*Interrupts.* `docs/architecture.md` says MOV SS blocks maskable interrupts through the following
instruction boundary; an NMI is taken inside the shadow, its handler's instructions use the shadow
up, and an interrupt comes right after the NMI's IRET (`SsPairUnsplit` says "unless an NMI came
first" for this). A dword store to the Local APIC's command register dispatches once per byte, the
first times with old bytes. PCI routing drives ISA lines after the fixed devices drove them in the
same poll, so a PIRQ that is low takes down a line it shares for that poll. A step that returns an
error leaves a latched reset for the next one.

*Keyboard.* 0AEh presents held responses but not queued scancodes, and a configuration write that
turns the keyboard's clock on presents neither (the same write does for the mouse); a break's prefix
outlives a break whose second byte a stopped clock dropped; `inject_mouse_packet`, unlike the other
injections, has no wrapper that updates IRQ12, which the next poll does.

*Timers.* Mode 2 has a period of N + 1 clocks, though `tick_mode2`'s comment says N (a test in
`machine-pc/src/lib.rs` expects N + 1, and so does `OutOnTime`). A mode 0 count rewritten without
a control word leaves OUT high, so the second time-out has no edge. A count byte written in modes 1
and 5 between the trigger and the load cancels the trigger. Edges folded in one tick count as one
BIOS tick. Status C's alarm and update flags are set again by every period within the second that
matched. UIP is raised after the update, not before. Changing DM and 24/12 in one write converts the
hour wrongly. The HPET compares its counter after every byte of a store, also when it is halted, and
takes a byte that lowers the counter for a wrap: setting the counter back can latch an event (a test
in `hpet.rs` halts the counter "so byte-wise MMIO assembly does not spuriously cross a live
comparator", which halting does not prevent). A periodic timer re-arms a period after the tick that
fired, not after its comparator, as `docs/hpet-r8-periodic.md` documents: with a jumping counter it
drifts.

*Disks.* A masked channel, or one whose count is larger than the transfer, gives a normal result
with nothing moved. READ TRACK that the channel stops early gives an end address from R and from an
MT left over. Programmed writes put partial sectors on the medium before they fail with NW.
Attaching a medium over another leaves the change line alone. A WRITE BUFFER that is abandoned
leaves the next write going to the sector buffer until another command clears it; IDENTIFY PACKET
DEVICE and DIAGNOSTIC in mid-packet leave the packet phase (the guests of the model do neither). The
end of a soft reset sets nIEN. An LBA28 count of 0, which is the largest, never counts down in the
register. LBA28 transfers are refused at the sector that leaves the disk, LBA48 ones before they
start. A host's change of the CD raises no unit attention.

*Paging.* A store by a cached translation that is not marked dirty sets D in whatever entry now lies
at the remembered address, even one not present. A read-modify-write reports the read's fault first
and, after it is handled, the write's.

*Task switches.* The IRET form clears NT in the task it returns to, where the SDM restores it from
that task's TSS. In a chain A calls B calls C, C's IRET resumes B without NT: B cannot return to A,
and A stays busy, so nobody can switch to it until software rewrites its descriptor. `TaskContract`
says what the code does (`Return` leaves nothing to return to). A JMP clears the outgoing busy bit
before it sets the incoming one, two stores either of which may page-fault; between them the task
that runs is marked available, and a guest that does not run the JMP again can enter it a second
time. The comment on `PagedBus` that instructions with several writes write only to the stack does
not hold for either form.

## 6. What is not modelled

Decoding and the arithmetic of instructions, VGA planes, image parsers, `INT 10h`/`INT 15h` and the
probes' reports are functions from inputs to outputs: they have no order to get wrong, and tests
with vectors reach what a model would. The front ends only pass options and text. fw_cfg completes
each request within the access. PCI's configuration and routing, ACPI's timer, UHCI, the serial
port, the ROM and PAM steering of memory and privilege changes are not modelled *yet*: they are in
the next section.

Within the modelled components: 16-bit TSSs and Virtual-8086 targets, which the code refuses, and
the descriptor and segment checks of a task switch, which come before its first store; BCD counting
of the 8254; the RTC's index register, whose two accesses are one action; CHS addresses, the
contents of IDENTIFY and inquiry data, and the bus master of IDE; the 16-bit channels of the second
DMA controller, which no device uses; PSE-36 addresses and memory types; instruction fetch, which is
a read; faults while an interrupt is delivered; and host errors: an `Err` from a step ends the run
of every driver, so a state after one is out of scope. Register read-back changes nothing.

## 7. Plan

Timers, paging, task switches and disks, the first parts of the plan, are done. In this order:

1. **Routing and memory**: PIRQ lines shared with ISA inputs, the ACPI timer, UHCI's status
   interrupt; PAM, SMRAM and ROM overlay as a function from address and attributes to an owner.
2. **Privilege**: gate delivery with a stack switch, every fault point; the property is that a fault
   leaves the outgoing context whole or the incoming one.
3. **Serial port**: FIFOs and the THRE interrupt.
4. **Machine**: one module with the order of a step (poll, execute, clock, reset) over the others'
   operators, for what only the whole shows, such as a reset that leaves no stale copy.
