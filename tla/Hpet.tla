-------------------------------- MODULE Hpet --------------------------------
(***************************************************************************)
(* The HPET of crates/devices/src/hpet.rs: a main counter and the          *)
(* comparator of Timer 0.  struct HpetMmio is a record, every method an    *)
(* operator on it.  The route, of which the code accepts only one, the     *)
(* read-only registers and the upper halves, which hold zeros, are left    *)
(* out.                                                                    *)
(***************************************************************************)
EXTENDS Integers

CONSTANTS
  LaneBase,          (* values of one of a register's four byte lanes: 256  *)
  HpetClocks         (* HPET_TICKS_PER_PIT_CLOCK                            *)

ASSUME HpetAssumption == LaneBase \in Nat \ {0, 1} /\ HpetClocks \in Nat \ {0}

HpetSize == LaneBase * LaneBase * LaneBase * LaneBase  \* HPET_COUNTER_MASK + 1
HpetValue == 0 .. HpetSize - 1

HpetMmio ==
  [enable : BOOLEAN, counter : HpetValue, status : BOOLEAN, edge : BOOLEAN,
   level : BOOLEAN, intEnb : BOOLEAN, periodic : BOOLEAN, cmp : HpetValue,
   period : HpetValue, valSet : BOOLEAN, armed : BOOLEAN]

ResetHpet ==
  [enable |-> FALSE, counter |-> 0, status |-> FALSE, edge |-> FALSE,
   level |-> FALSE, intEnb |-> FALSE, periodic |-> FALSE, cmp |-> 0,
   period |-> 0, valSet |-> FALSE, armed |-> TRUE]

IrqLine(h) ==
  h.enable /\ h.intEnb /\ (IF h.level THEN h.status ELSE h.edge)

AtLeastOne(v) == IF v = 0 THEN 1 ELSE v

(* Mutant: a comparator behind the wrap of the counter is not met.          *)
CrossedFlat(before, after, cmp) == before < cmp /\ cmp <= after

(* The counter went from one value to another, by no more than a lap.       *)
Crossed(before, after, cmp) ==
  IF before <= after THEN before < cmp /\ cmp <= after
                     ELSE before < cmp \/ cmp <= after

EvalTimer0(h, before) ==
  IF ~Crossed(before, h.counter, h.cmp) \/ ~(h.periodic \/ h.armed) THEN h
  ELSE [h EXCEPT
          !.status = TRUE,
          !.edge   = @ \/ ~h.level,
          !.cmp    = IF ~h.periodic THEN @
                     ELSE (h.counter + IF h.period = 0 THEN AtLeastOne(@) ELSE h.period)
                          % HpetSize,
          !.armed  = @ /\ h.periodic]

AdvanceMainCounter(h, delta) ==
  IF delta = 0 \/ ~h.enable THEN h
  ELSE EvalTimer0([h EXCEPT !.counter = (@ + delta) % HpetSize], h.counter)

(* Stores of a dword, which the bus makes a byte at a time.                 *)
Weight == <<1, LaneBase, LaneBase * LaneBase, LaneBase * LaneBase * LaneBase>>
Lane(v, lane) == (v \div Weight[lane]) % LaneBase

WriteCounterByte(h, lane, v) ==
  EvalTimer0([h EXCEPT !.counter = @ + (Lane(v, lane) - Lane(@, lane)) * Weight[lane]],
             h.counter)

StoreCounter(h, v) ==
  LET after[k \in 0 .. 4] == IF k = 0 THEN h ELSE WriteCounterByte(after[k - 1], k, v)
  IN  after[4]

(* The last lane commits: to the period, if there is one to set, and the    *)
(* one-shot.                                                                *)
StoreComparator(h, v) ==
  LET sets == h.periodic /\ (h.valSet \/ h.period = 0)
  IN  [h EXCEPT !.cmp = v, !.armed = TRUE,
                !.period = IF sets THEN AtLeastOne(v) ELSE @,
                !.valSet = @ /\ ~h.periodic]

StoreT0Config(h, level, intEnb, periodic, valSet) ==
  [h EXCEPT !.level = level, !.intEnb = intEnb, !.periodic = periodic,
            !.valSet = @ \/ valSet]

ClearStatus(h) == [h EXCEPT !.status = FALSE, !.edge = FALSE]
=============================================================================
