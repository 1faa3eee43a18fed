----------------------------- MODULE LocalApic -----------------------------
(***************************************************************************)
(* The Local APIC of crates/devices/src/lapic.rs, as operators on a record *)
(* (struct LocalApicMmio).                                                 *)
(*                                                                         *)
(* IRR and ISR are sets of vectors.  What nothing but its own read-back    *)
(* uses is left out: TMR, LDR, DFR, ICR high, the spurious vector, TPR's   *)
(* low nibble, the scratch dword.                                          *)
(***************************************************************************)
EXTENDS Integers

CONSTANTS
  Vector,            (* the interrupt vectors in use, of 0 .. 255           *)
  ApicId,            (* Local APIC IDs in use; 0 is the reset value         *)
  MaxCount,          (* bound: largest timer initial count                  *)
  Divides            (* divide configurations in use                        *)

ASSUME LocalApicAssumption ==
  /\ Vector \subseteq 0 .. 255 /\ Vector # {}
  /\ 0 \in ApicId
  /\ MaxCount \in Nat
  /\ 2 \in Divides /\ Divides \subseteq {1, 2, 4, 8, 16, 32, 64, 128}

None == -1

Shorthands == {"none", "self", "allInc", "allExc"}

Lapic ==
  [id : ApicId, enabled : BOOLEAN, tpr : 0 .. 15,
   lvtVector : Vector, lvtMasked : BOOLEAN, lvtPeriodic : BOOLEAN,
   initial : 0 .. MaxCount, current : 0 .. MaxCount,
   divide : Divides, accum : 0 .. 128,
   icrVector : Vector, icrFixed : BOOLEAN, icrShorthand : Shorthands,
   pending : Vector \cup {None}, inService : Vector \cup {None},
   irr : SUBSET Vector, isr : SUBSET Vector]

(* Vector fields reset to 0; AnyVector stands for it where 0 is not in use. *)
AnyVector == CHOOSE v \in Vector : TRUE

ResetLapic ==
  [id |-> 0, enabled |-> FALSE, tpr |-> 0,
   lvtVector |-> AnyVector, lvtMasked |-> TRUE, lvtPeriodic |-> FALSE,
   initial |-> 0, current |-> 0, divide |-> 2, accum |-> 0,
   icrVector |-> AnyVector, icrFixed |-> TRUE, icrShorthand |-> "none",
   pending |-> None, inService |-> None,
   irr |-> {}, isr |-> {}]

----------------------------------------------------------------------------
(* Priorities.                                                              *)

Class(v) == v \div 16

HighestVector(S) == CHOOSE v \in S : \A w \in S : w <= v

(* The class of PPR: TPR's, or that of the highest vector in service.       *)
PprClass(l) ==
  IF l.isr # {} /\ Class(HighestVector(l.isr)) > l.tpr
  THEN Class(HighestVector(l.isr))
  ELSE l.tpr

InterruptPending(l) == l.pending # None /\ Class(l.pending) > PprClass(l)

(* Mutant: a vector of the class in service is taken too.                   *)
TakeInterruptSameClass(l) ==
  IF l.pending # None /\ Class(l.pending) >= PprClass(l)
  THEN [l EXCEPT !.pending = None, !.inService = l.pending,
                 !.irr = @ \ {l.pending}, !.isr = @ \cup {l.pending}]
  ELSE l

(* take_interrupt: the latched vector goes from IRR to ISR.                 *)
TakeInterrupt(l) ==
  IF InterruptPending(l)
  THEN [l EXCEPT !.pending = None, !.inService = l.pending,
                 !.irr = @ \ {l.pending}, !.isr = @ \cup {l.pending}]
  ELSE l

----------------------------------------------------------------------------
(* Acceptance into IRR.                                                     *)

Accepts(l) == l.enabled /\ l.pending = None

(* Mutant: a busy slot still sets the IRR bit.                              *)
InjectFixedBusy(l, vector) ==
  IF ~l.enabled THEN l
  ELSE [l EXCEPT !.irr = @ \cup {vector},
                 !.pending = IF @ = None THEN vector ELSE @]

InjectFixed(l, vector) ==
  IF Accepts(l)
  THEN [l EXCEPT !.irr = @ \cup {vector},
                 !.pending = vector]
  ELSE l

(* An unmasked timer expiry latches a vector like any other source.         *)
FireTimer(l) == IF l.lvtMasked THEN l ELSE InjectFixed(l, l.lvtVector)

(* Mutant: a stopped timer counts on.                                       *)
TickTimerUnguarded(l) ==
  IF l.accum + 1 < l.divide THEN [l EXCEPT !.accum = @ + 1]
  ELSE IF l.current # 1 THEN [l EXCEPT !.accum = 0, !.current = @ - 1]
  ELSE [FireTimer(l) EXCEPT
          !.accum = 0,
          !.current = IF l.lvtPeriodic THEN l.initial ELSE 0]

(* One bus clock of tick_timer, which is a loop of these.                   *)
TickTimer(l) ==
  IF l.current = 0 THEN l
  ELSE IF l.accum + 1 < l.divide THEN [l EXCEPT !.accum = @ + 1]
  ELSE IF l.current > 1 THEN [l EXCEPT !.accum = 0, !.current = @ - 1]
  ELSE [FireTimer(l) EXCEPT
          !.accum = 0,
          !.current = IF l.lvtPeriodic THEN l.initial ELSE 0]

----------------------------------------------------------------------------
(* End of interrupt.                                                        *)

EoiVector(l) ==
  IF l.inService # None THEN l.inService
  ELSE IF l.isr # {} THEN HighestVector(l.isr) ELSE None

Eoi(l) == [l EXCEPT !.inService = None, !.isr = @ \ {EoiVector(l)}]

(* A store to the EOI register reaches the APIC one byte at a time, and     *)
(* every byte is an EOI.                                                    *)
EoiStores(l) ==
  [bytes \in {1, 2, 4} |->
     IF bytes = 1 THEN Eoi(l)
     ELSE IF bytes = 2 THEN Eoi(Eoi(l))
     ELSE Eoi(Eoi(Eoi(Eoi(l))))]

----------------------------------------------------------------------------
(* Guest stores to the other registers.                                     *)

(* try_dispatch_icr: only a Fixed self-IPI is delivered.                    *)
DispatchIcr(l) ==
  IF l.icrFixed /\ l.icrShorthand \in {"self", "allInc"}
  THEN InjectFixed(l, l.icrVector)
  ELSE l

(* The four bytes of a dword store to ICR low: vector, delivery mode,       *)
(* shorthand, nothing; the command is dispatched after each.                *)
StoreIcrLow(l, vector, fixed, shorthand) ==
  LET byte0 == DispatchIcr([l EXCEPT !.icrVector = vector])
      byte1 == DispatchIcr([byte0 EXCEPT !.icrFixed = fixed])
      byte2 == DispatchIcr([byte1 EXCEPT !.icrShorthand = shorthand])
  IN  DispatchIcr(byte2)

StoreId(l, id) == [l EXCEPT !.id = id]

StoreTpr(l, class) == [l EXCEPT !.tpr = class]

StoreSvr(l, enabled) == [l EXCEPT !.enabled = enabled]

StoreLvtTimer(l, vector, masked, periodic) ==
  [l EXCEPT !.lvtVector = vector, !.lvtMasked = masked,
            !.lvtPeriodic = periodic]

StoreTimerCount(l, count) ==
  [l EXCEPT !.initial = count, !.current = count, !.accum = 0]

StoreDivide(l, divide) == [l EXCEPT !.divide = divide, !.accum = 0]
=============================================================================
