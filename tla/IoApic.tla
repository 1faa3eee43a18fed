------------------------------- MODULE IoApic -------------------------------
(***************************************************************************)
(* The I/O APIC of crates/devices/src/ioapic.rs and its wiring to the      *)
(* Local APIC (machine-pc/src/ioapic_wire.rs), as operators on a record    *)
(* (struct IoApicMmio).  IOREGSEL, the ID register and the scratch dword   *)
(* are left out: no delivery depends on them.                              *)
(***************************************************************************)
EXTENDS LocalApic

CONSTANT
  Gsi                (* the input pins in use, of 0 .. 23                   *)

ASSUME IoApicAssumption == Gsi \subseteq 0 .. 23

Rte ==
  [vector : Vector, fixed : BOOLEAN, masked : BOOLEAN, level : BOOLEAN,
   remoteIrr : BOOLEAN, dest : ApicId]

IoApicState ==
  [rte : [Gsi -> Rte], pin : [Gsi -> BOOLEAN],
   unsupported : Gsi \cup {None}]

ResetIoApic ==
  [rte |-> [g \in Gsi |-> [vector |-> AnyVector, fixed |-> TRUE,
                           masked |-> TRUE, level |-> FALSE,
                           remoteIrr |-> FALSE, dest |-> 0]],
   pin |-> [g \in Gsi |-> FALSE],
   unsupported |-> None]

----------------------------------------------------------------------------
(* Pins.                                                                    *)

(* Does driving the pin try the redirection entry?                          *)
Tries(io, g, high) ==
  /\ high
  /\ IF io.rte[g].level THEN ~io.rte[g].remoteIrr ELSE ~io.pin[g]

Delivers(io, g, high) ==
  Tries(io, g, high) /\ ~io.rte[g].masked /\ io.rte[g].fixed

(* Mutant: Remote IRR is set for every try, delivered or not.               *)
AssertPinEarlyIrr(io, g, high) ==
  [io EXCEPT
     !.pin[g] = high,
     !.rte[g].remoteIrr = @ \/ (Tries(io, g, high) /\ io.rte[g].level),
     !.unsupported = IF Tries(io, g, high) /\ ~io.rte[g].masked
                        /\ ~io.rte[g].fixed
                     THEN g ELSE @]

AssertPin(io, g, high) ==
  [io EXCEPT
     !.pin[g] = high,
     !.rte[g].remoteIrr = @ \/ (Delivers(io, g, high) /\ io.rte[g].level),
     !.unsupported = IF Tries(io, g, high) /\ ~io.rte[g].masked
                        /\ ~io.rte[g].fixed
                     THEN g ELSE @]

(* What the Local APIC makes of it: a delivery to another ID, to a disabled *)
(* APIC or to a busy one is dropped.                                        *)
Reaches(io, l, g, high) ==
  Delivers(io, g, high) /\ io.rte[g].dest = l.id /\ Accepts(l)

LapicAfterPin(io, l, g, high) ==
  IF Delivers(io, g, high) /\ io.rte[g].dest = l.id
  THEN InjectFixed(l, io.rte[g].vector)
  ELSE l

(* An EOI clears Remote IRR in every level entry of the vector.             *)
IoEoi(io, vector) ==
  [io EXCEPT !.rte =
     [g \in Gsi |->
        IF io.rte[g].level /\ io.rte[g].vector = vector
        THEN [io.rte[g] EXCEPT !.remoteIrr = FALSE] ELSE io.rte[g]]]

----------------------------------------------------------------------------
(* Guest stores to an entry; Remote IRR is the hardware's.                  *)

StoreRteLow(io, g, vector, fixed, masked, level) ==
  [io EXCEPT !.rte[g] =
     [@ EXCEPT !.vector = vector, !.fixed = fixed, !.masked = masked,
               !.level = level]]

StoreRteHigh(io, g, dest) == [io EXCEPT !.rte[g].dest = dest]
=============================================================================
