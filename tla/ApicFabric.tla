----------------------------- MODULE ApicFabric -----------------------------
(***************************************************************************)
(* The Local APIC, the I/O APIC and HPET timer 0's interrupt line, wired   *)
(* as machine-pc does (hpet_wire.rs, ioapic_wire.rs, lapic_wire.rs).       *)
(*                                                                         *)
(* The guest stores to the memory-mapped registers; the host ticks the     *)
(* timers, drives pins, takes vectors and ends them.  The HPET itself is   *)
(* its line: an advance may raise it and is followed by a sync of the pin, *)
(* a register store may do anything to it and is not.                      *)
(***************************************************************************)
EXTENDS IoApic, FiniteSets

CONSTANTS
  HpetGsi,           (* the pin the HPET's timer 0 drives                   *)
  IdStores, TprStores, LvtStores, CountStores, IcrStores,
  RteStores, DestStores
                     (* the values the guest stores                         *)

ASSUME FabricAssumption ==
  /\ HpetGsi \in Gsi
  /\ IdStores \subseteq ApicId
  /\ TprStores \subseteq 0 .. 15
  /\ LvtStores \subseteq [vector : Vector, masked : BOOLEAN,
                          periodic : BOOLEAN]
  /\ CountStores \subseteq 0 .. MaxCount
  /\ IcrStores \subseteq [vector : Vector, fixed : BOOLEAN,
                          shorthand : Shorthands]
  /\ RteStores \subseteq [gsi : Gsi, vector : Vector, fixed : BOOLEAN,
                          masked : BOOLEAN, level : BOOLEAN]
  /\ DestStores \subseteq [gsi : Gsi, dest : ApicId]

VARIABLES
  lapic,
  ioapic,
  hpetLine,          (* HpetMmio::irq_line                                  *)
  orphaned           (* history: pins whose Remote IRR belongs to a         *)
                     (* delivery no host EOI will follow                    *)

vars == <<lapic, ioapic, hpetLine, orphaned>>

Init ==
  /\ lapic = ResetLapic
  /\ ioapic = ResetIoApic
  /\ hpetLine = FALSE
  /\ orphaned = {}

----------------------------------------------------------------------------
(* The host.                                                                *)

(* Drives pin g of the I/O APIC io, with the Local APIC l behind it.        *)
Drive(io, l, g, high) ==
  /\ ioapic' = AssertPin(io, g, high)
  /\ lapic' = LapicAfterPin(io, l, g, high)

(* A level delivery that does not reach the Local APIC leaves its Remote    *)
(* IRR set.                                                                 *)
Orphans(io, l, g, high) ==
  IF Delivers(io, g, high) /\ io.rte[g].level /\ ~Reaches(io, l, g, high)
  THEN {g} ELSE {}

AssertGsi(g, high) ==
  /\ Drive(ioapic, lapic, g, high)
  /\ orphaned' = orphaned \cup Orphans(ioapic, lapic, g, high)
  /\ UNCHANGED hpetLine

(* advance_hpet, which every PIT tick ends in.                              *)
AdvanceHpet ==
  \E high \in {hpetLine, TRUE} :
    /\ hpetLine' = high
    /\ Drive(ioapic, lapic, HpetGsi, high)
    /\ orphaned' = orphaned \cup Orphans(ioapic, lapic, HpetGsi, high)

TickLapic ==
  /\ lapic' = TickTimer(lapic)
  /\ UNCHANGED <<ioapic, hpetLine, orphaned>>

Take ==
  /\ lapic' = TakeInterrupt(lapic)
  /\ UNCHANGED <<ioapic, hpetLine, orphaned>>

TakeUnsupported ==
  /\ ioapic.unsupported # None
  /\ ioapic' = [ioapic EXCEPT !.unsupported = None]
  /\ UNCHANGED <<lapic, hpetLine, orphaned>>

(* Mutant: the HPET's pin is not driven again after the EOI.                *)
EoiLapicIoApicNoResync ==
  LET vector == EoiVector(lapic)
      cleared == {g \in Gsi : /\ ioapic.rte[g].level
                              /\ ioapic.rte[g].vector = vector}
  IN  /\ vector # None
      /\ lapic' = Eoi(lapic)
      /\ ioapic' = IoEoi(ioapic, vector)
      /\ orphaned' = orphaned \ cleared
      /\ UNCHANGED hpetLine

(* eoi_lapic_ioapic: the EOI, its broadcast, and the HPET's pin driven      *)
(* again.                                                                   *)
EoiLapicIoApic ==
  LET vector == EoiVector(lapic)
      io == IoEoi(ioapic, vector)
      l == Eoi(lapic)
      cleared == {g \in Gsi : /\ ioapic.rte[g].level
                              /\ ioapic.rte[g].vector = vector}
  IN  /\ vector # None
      /\ Drive(io, l, HpetGsi, hpetLine)
      /\ orphaned' = (orphaned \ cleared)
                       \cup Orphans(io, l, HpetGsi, hpetLine)
      /\ UNCHANGED hpetLine

----------------------------------------------------------------------------
(* The guest's stores.                                                      *)

(* The EOI register: no broadcast to the I/O APIC.                          *)
EoiStore ==
  \E bytes \in {1, 2, 4} :
    LET l == EoiStores(lapic)[bytes]
    IN  /\ lapic' = l
        /\ orphaned' = orphaned \cup
             {g \in Gsi : /\ ioapic.rte[g].remoteIrr
                          /\ ioapic.rte[g].vector \in lapic.isr \ l.isr}
        /\ UNCHANGED <<ioapic, hpetLine>>

LapicStore ==
  /\ \/ \E id \in IdStores : lapic' = StoreId(lapic, id)
     \/ \E class \in TprStores : lapic' = StoreTpr(lapic, class)
     \/ \E enabled \in BOOLEAN : lapic' = StoreSvr(lapic, enabled)
     \/ \E s \in LvtStores :
          lapic' = StoreLvtTimer(lapic, s.vector, s.masked, s.periodic)
     \/ \E count \in CountStores : lapic' = StoreTimerCount(lapic, count)
     \/ \E divide \in Divides : lapic' = StoreDivide(lapic, divide)
     \/ \E s \in IcrStores :
          lapic' = StoreIcrLow(lapic, s.vector, s.fixed, s.shorthand)
  /\ UNCHANGED <<ioapic, hpetLine, orphaned>>

RteLowStore ==
  \E s \in RteStores :
    /\ ioapic' = StoreRteLow(ioapic, s.gsi, s.vector, s.fixed, s.masked,
                             s.level)
    /\ orphaned' = IF ioapic.rte[s.gsi].remoteIrr
                   THEN orphaned \cup {s.gsi} ELSE orphaned
    /\ UNCHANGED <<lapic, hpetLine>>

RteHighStore ==
  \E s \in DestStores :
    /\ ioapic' = StoreRteHigh(ioapic, s.gsi, s.dest)
    /\ UNCHANGED <<lapic, hpetLine, orphaned>>

(* Status write-1-to-clear, enables, counter and comparator stores.         *)
HpetStore ==
  /\ hpetLine' \in BOOLEAN
  /\ UNCHANGED <<lapic, ioapic, orphaned>>

(* Machine::reset.                                                          *)
MachineReset ==
  /\ lapic' = ResetLapic
  /\ ioapic' = ResetIoApic
  /\ hpetLine' = FALSE
  /\ orphaned' = {}

Next ==
  \/ \E g \in Gsi \ {HpetGsi}, high \in BOOLEAN : AssertGsi(g, high)
  \/ AdvanceHpet
  \/ TickLapic
  \/ Take
  \/ TakeUnsupported
  \/ EoiLapicIoApic
  \/ EoiStore
  \/ LapicStore
  \/ RteLowStore
  \/ RteHighStore
  \/ HpetStore
  \/ MachineReset

Spec == Init /\ [][Next]_vars

----------------------------------------------------------------------------
(* Properties.                                                              *)

TypeOK ==
  /\ lapic \in Lapic
  /\ ioapic \in IoApicState
  /\ hpetLine \in BOOLEAN
  /\ orphaned \subseteq Gsi

(* IRR holds the latched vector and nothing else: no path sets a request it *)
(* cannot latch, and none takes the latch and leaves the request.           *)
PendingIsRequest ==
  lapic.irr = IF lapic.pending = None THEN {} ELSE {lapic.pending}

(* Vectors in service nest: one per priority class, and the one EOI ends    *)
(* next, tracked or not, is the highest.                                    *)
ServiceNests ==
  /\ \A v, w \in lapic.isr : Class(v) = Class(w) => v = w
  /\ lapic.inService # None => /\ lapic.inService \in lapic.isr
                               /\ \A v \in lapic.isr : v <= lapic.inService

(* Remote IRR stands for a vector that is latched or in service, unless its *)
(* delivery was dropped, its entry rewritten under it, or the guest ended   *)
(* it without the broadcast.                                                *)
RemoteIrrAccounted ==
  \A g \in Gsi : ioapic.rte[g].remoteIrr /\ g \notin orphaned =>
    ioapic.rte[g].vector \in lapic.isr \cup {lapic.pending}

(* docs/hpet-r11-wrap-irq.md: a level line still high at the EOI of its     *)
(* vector is delivered again by that EOI.                                   *)
EoiRedeliversLevel ==
  [][LET e == ioapic.rte[HpetGsi]
     IN  (/\ EoiLapicIoApic
          /\ hpetLine /\ e.level /\ ~e.masked /\ e.fixed
          /\ e.vector = EoiVector(lapic)
          /\ e.dest = lapic.id /\ Accepts(lapic))
         => lapic'.pending = e.vector /\ ioapic'.rte[HpetGsi].remoteIrr]_vars

(* docs/lapic-r8-eoi-isr.md: an EOI write clears the tracked (or highest)   *)
(* ISR bit, and no other.                                                   *)
EoiEndsOne ==
  [][EoiStore => Cardinality(lapic.isr \ lapic'.isr) <= 1]_vars
=============================================================================
