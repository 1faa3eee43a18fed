-------------------------- MODULE ApicFabricProofs --------------------------
(***************************************************************************)
(* Proofs about ApicFabric for every set of vectors, pins and stores.      *)
(***************************************************************************)
EXTENDS ApicFabric, WellFoundedInduction, TLAPS

----------------------------------------------------------------------------
(* The invariant.                                                           *)

(* The Local APIC by itself: its latch is its IRR, its service nests.       *)
Latched(l) == l.irr = IF l.pending = None THEN {} ELSE {l.pending}

Nests(l) ==
  /\ \A v, w \in l.isr : Class(v) = Class(w) => v = w
  /\ l.inService # None => /\ l.inService \in l.isr
                           /\ \A v \in l.isr : v <= l.inService

Sound(l) == l \in Lapic /\ Latched(l) /\ Nests(l)

(* The vectors a Remote IRR bit may stand for.                              *)
Held(l) == l.isr \cup {l.pending}

(* Without the level bit an EOI would pass the entry over, and Remote IRR   *)
(* would outlive the service of its vector.                                 *)
Accounted(l, io, orph) ==
  \A g \in Gsi : io.rte[g].remoteIrr /\ g \notin orph =>
    io.rte[g].level /\ io.rte[g].vector \in Held(l)

IInv ==
  /\ Sound(lapic)
  /\ ioapic \in IoApicState
  /\ hpetLine \in BOOLEAN
  /\ orphaned \subseteq Gsi
  /\ Accounted(lapic, ioapic, orphaned)

----------------------------------------------------------------------------
(* Least and greatest elements.                                             *)

NatLess == {ss \in Nat \X Nat : ss[1] < ss[2]}

(* The order on the naturals is well founded.                               *)
LEMMA NatLessIsWellFounded == IsWellFoundedOn(NatLess, Nat)
BY NatLessThanWellFounded DEF OpToRel, NatLess

(* A nonempty set of naturals has a least member.                           *)
LEMMA LeastNatural ==
  ASSUME NEW T, T \subseteq Nat, T # {}
  PROVE  \E m \in T : \A n \in T : m <= n
<1>1. \A n, m \in Nat : n < m => <<n, m>> \in NatLess
  BY DEF NatLess
<1>2. PICK m \in T : \A n \in T : <<n, m>> \notin NatLess
  BY NatLessIsWellFounded, WFMin
<1>3. ASSUME NEW n \in T
      PROVE  m <= n
  <2>1. m \in Nat /\ n \in Nat
    OBVIOUS
  <2>2. ~(n < m)
    BY <1>1, <1>2, <2>1
  <2> QED BY <2>1, <2>2
<1> QED BY <1>3

(* A nonempty set of naturals with an upper bound has a greatest member.    *)
LEMMA GreatestNatural ==
  ASSUME NEW bound \in Nat, NEW T, T \subseteq 0 .. bound, T # {}
  PROVE  \E m \in T : \A n \in T : n <= m
<1> DEFINE Gap == {k \in 0 .. bound : bound - k \in T}
<1>1. \A n \in T : bound - n \in Gap
  OBVIOUS
<1>2. Gap # {} /\ Gap \subseteq Nat
  <2>1. PICK n \in T : TRUE
    OBVIOUS
  <2>2. bound - n \in Gap
    BY <1>1, <2>1
  <2>3. \A k \in Gap : k \in Nat
    OBVIOUS
  <2> HIDE DEF Gap
  <2> QED BY <2>2, <2>3
<1>3. PICK k \in Gap : \A j \in Gap : k <= j
  <2> HIDE DEF Gap
  <2> QED BY <1>2, LeastNatural
<1>4. \A n \in T : n <= bound - k
  BY <1>1, <1>3
<1> QED BY <1>4

----------------------------------------------------------------------------
(* Vectors and classes.                                                     *)

LEMMA VectorType == \A v \in Vector : v \in 0 .. 255
BY LocalApicAssumption

LEMMA ClassType == \A v \in Vector : v \in 0 .. 255 /\ Class(v) \in 0 .. 15
<1>1. \A v \in 0 .. 255 : v \div 16 \in 0 .. 15
  OBVIOUS
<1> QED BY <1>1, VectorType DEF Class

LEMMA ClassMonotone ==
  \A v, w \in Vector : v <= w => Class(v) <= Class(w)
<1>1. \A v, w \in 0 .. 255 : v <= w => v \div 16 <= w \div 16
  OBVIOUS
<1> QED BY <1>1, VectorType DEF Class

(* None is no vector.                                                       *)
LEMMA NoneIsNoVector == None \notin Vector /\ None \in Int
BY VectorType DEF None

LEMMA AnyVectorType == AnyVector \in Vector
BY LocalApicAssumption DEF AnyVector

LEMMA HighestVectorIsMember ==
  ASSUME NEW S, S \subseteq Vector, S # {}
  PROVE  /\ HighestVector(S) \in S
         /\ \A v \in S : v <= HighestVector(S)
<1>1. S \subseteq 0 .. 255 /\ 255 \in Nat
  BY VectorType
<1>2. PICK m \in S : \A n \in S : n <= m
  BY <1>1, GreatestNatural
<1> QED BY <1>2 DEF HighestVector

(* PPR is at least the class of every vector in service.                    *)
LEMMA PprBoundsService ==
  ASSUME NEW l \in Lapic
  PROVE  /\ PprClass(l) \in 0 .. 15
         /\ \A v \in l.isr : Class(v) <= PprClass(l)
<1>1. l.tpr \in 0 .. 15 /\ l.isr \subseteq Vector
  BY DEF Lapic
<1>2. CASE l.isr = {}
  BY <1>1, <1>2 DEF PprClass
<1>3. CASE l.isr # {}
  <2> DEFINE top == HighestVector(l.isr)
  <2>1. top \in l.isr /\ \A v \in l.isr : v <= top
    BY <1>1, <1>3, HighestVectorIsMember
  <2>2. \A v \in l.isr : Class(v) <= Class(top)
    BY <1>1, <2>1, ClassMonotone
  <2>3. /\ Class(top) \in 0 .. 15
        /\ \A v \in l.isr : Class(v) \in 0 .. 15
    BY <1>1, <2>1, ClassType
  <2>4. PprClass(l) = IF Class(top) > l.tpr THEN Class(top) ELSE l.tpr
    BY <1>3 DEF PprClass
  <2> HIDE DEF top
  <2> QED BY <1>1, <2>2, <2>3, <2>4
<1> QED BY <1>2, <1>3

----------------------------------------------------------------------------
(* The Local APIC's operations.                                             *)

(* What every operation but an EOI makes of a Local APIC: it forgets no     *)
(* vector it holds.                                                         *)
Grows(l, m) == Sound(m) /\ Held(l) \cap Vector \subseteq Held(m)

LEMMA ZeroAccum == 0 \in 0 .. 128
OBVIOUS

(* The fields an operation may change, one group at a time.                 *)
LEMMA TimerType ==
  ASSUME NEW l \in Lapic, NEW a \in 0 .. 128, NEW c \in 0 .. MaxCount
  PROVE  [l EXCEPT !.accum = a, !.current = c] \in Lapic
<1> DEFINE m == [l EXCEPT !.accum = a]
<1>1. m \in Lapic
  BY DEF Lapic
<1>2. [l EXCEPT !.accum = a, !.current = c] = [m EXCEPT !.current = c]
  OBVIOUS
<1> HIDE DEF m
<1>3. [m EXCEPT !.current = c] \in Lapic
  BY <1>1 DEF Lapic
<1> QED BY <1>2, <1>3

LEMMA LatchType ==
  ASSUME NEW l \in Lapic, NEW irr \in SUBSET Vector,
         NEW p \in Vector \cup {None}
  PROVE  [l EXCEPT !.irr = irr, !.pending = p] \in Lapic
<1> DEFINE m == [l EXCEPT !.irr = irr]
<1>1. m \in Lapic
  BY DEF Lapic
<1>2. [l EXCEPT !.irr = irr, !.pending = p] = [m EXCEPT !.pending = p]
  OBVIOUS
<1> HIDE DEF m
<1>3. [m EXCEPT !.pending = p] \in Lapic
  BY <1>1 DEF Lapic
<1> QED BY <1>2, <1>3

LEMMA ServiceType ==
  ASSUME NEW l \in Lapic, NEW isr \in SUBSET Vector,
         NEW p \in Vector \cup {None}
  PROVE  [l EXCEPT !.inService = p, !.isr = isr] \in Lapic
<1> DEFINE m == [l EXCEPT !.inService = p]
<1>1. m \in Lapic
  BY DEF Lapic
<1>2. [l EXCEPT !.inService = p, !.isr = isr] = [m EXCEPT !.isr = isr]
  OBVIOUS
<1> HIDE DEF m
<1>3. [m EXCEPT !.isr = isr] \in Lapic
  BY <1>1 DEF Lapic
<1> QED BY <1>2, <1>3

LEMMA ResetSound == Sound(ResetLapic)
BY LocalApicAssumption, AnyVectorType, NoneIsNoVector
   DEF ResetLapic, Sound, Lapic, Latched, Nests, Shorthands

(* An operation that touches neither the latch nor the service.             *)
LEMMA RegisterGrows ==
  ASSUME NEW l, Sound(l), NEW m \in Lapic,
         m.pending = l.pending, m.inService = l.inService,
         m.irr = l.irr, m.isr = l.isr
  PROVE  Grows(l, m)
BY DEF Grows, Sound, Latched, Nests, Held

LEMMA InjectGrows ==
  ASSUME NEW l, Sound(l), NEW vector \in Vector
  PROVE  /\ Grows(l, InjectFixed(l, vector))
         /\ InjectFixed(l, vector) = [l EXCEPT !.irr = InjectFixed(l, vector).irr,
                                               !.pending = InjectFixed(l, vector).pending]
         /\ Accepts(l) => InjectFixed(l, vector).pending = vector
<1> DEFINE m == InjectFixed(l, vector)
<1>1. l \in Lapic
  BY DEF Sound
<1>2. CASE Accepts(l)
  <2>1. m = [l EXCEPT !.irr = l.irr \cup {vector}, !.pending = vector]
    BY <1>2 DEF InjectFixed
  <2>2. m \in Lapic
    <3>1. l.irr \cup {vector} \in SUBSET Vector
      BY <1>1 DEF Lapic
    <3>2. [l EXCEPT !.irr = l.irr \cup {vector}, !.pending = vector] \in Lapic
      BY <1>1, <3>1, LatchType
    <3> QED BY <2>1, <3>2
  <2>3. /\ m.irr = {vector} /\ m.pending = vector
        /\ m.isr = l.isr /\ m.inService = l.inService
    BY <1>1, <1>2, <2>1 DEF Lapic, Accepts, Sound, Latched
  <2>4. m = [l EXCEPT !.irr = m.irr, !.pending = m.pending]
    BY <1>1, <2>1, <2>3 DEF Lapic
  <2>5. l.pending \notin Vector
    BY <1>2, NoneIsNoVector DEF Accepts
  <2> HIDE DEF m
  <2>6. Grows(l, m)
    BY <2>2, <2>3, <2>5, NoneIsNoVector
       DEF Grows, Sound, Latched, Nests, Held
  <2> QED BY <2>3, <2>4, <2>6 DEF m
<1>3. CASE ~Accepts(l)
  <2>1. m = l
    BY <1>3 DEF InjectFixed
  <2>2. Grows(l, l)
    BY DEF Grows
  <2>3. l = [l EXCEPT !.irr = l.irr, !.pending = l.pending]
    BY <1>1 DEF Lapic
  <2> QED BY <1>3, <2>1, <2>2, <2>3
<1> QED BY <1>2, <1>3

LEMMA FireTimerGrows ==
  ASSUME NEW l, Sound(l)
  PROVE  /\ Grows(l, FireTimer(l))
         /\ FireTimer(l) = [l EXCEPT !.irr = FireTimer(l).irr,
                                     !.pending = FireTimer(l).pending]
<1>1. l \in Lapic /\ l.lvtVector \in Vector
  BY DEF Sound, Lapic
<1>2. CASE l.lvtMasked
  <2>1. FireTimer(l) = l
    BY <1>2 DEF FireTimer
  <2>2. l = [l EXCEPT !.irr = l.irr, !.pending = l.pending]
    BY <1>1 DEF Lapic
  <2> QED BY <2>1, <2>2 DEF Grows
<1>3. CASE ~l.lvtMasked
  BY <1>1, <1>3, InjectGrows DEF FireTimer
<1> QED BY <1>2, <1>3

LEMMA CountGrows ==
  ASSUME NEW l, Sound(l), NEW a \in 0 .. 128, NEW c \in 0 .. MaxCount
  PROVE  Grows(l, [l EXCEPT !.accum = a, !.current = c])
<1> DEFINE m == [l EXCEPT !.accum = a, !.current = c]
<1>1. l \in Lapic
  BY DEF Sound
<1>2. m \in Lapic
  BY <1>1, TimerType
<1>3. /\ m.pending = l.pending /\ m.inService = l.inService
      /\ m.irr = l.irr /\ m.isr = l.isr
  BY <1>1 DEF Lapic
<1> HIDE DEF m
<1>4. Grows(l, m)
  BY <1>2, <1>3, RegisterGrows
<1> QED BY <1>4 DEF m

(* The order in which an expiry reloads the counter and fires is of no      *)
(* account.                                                                 *)
LEMMA TickTimerGrows ==
  ASSUME NEW l, Sound(l)
  PROVE  Grows(l, TickTimer(l))
<1>1. /\ l \in Lapic
      /\ l.current \in 0 .. MaxCount /\ l.initial \in 0 .. MaxCount
      /\ l.divide \in Divides /\ l.accum \in 0 .. 128
      /\ MaxCount \in Nat
  BY LocalApicAssumption DEF Sound, Lapic
<1>6. l.divide \in Int /\ l.divide <= 128
  <2>1. l.divide \in {1, 2, 4, 8, 16, 32, 64, 128}
    BY <1>1, LocalApicAssumption
  <2> QED BY <2>1
<1>2. CASE l.current = 0
  BY <1>2 DEF TickTimer, Grows
<1>3. CASE l.current # 0 /\ l.accum + 1 < l.divide
  <2>1. TickTimer(l) = [l EXCEPT !.accum = l.accum + 1]
    BY <1>3 DEF TickTimer
  <2>2. l.accum + 1 \in 0 .. 128
    BY <1>1, <1>3, <1>6
  <2>3. [l EXCEPT !.accum = l.accum + 1] \in Lapic
    BY <1>1, <2>2 DEF Lapic
  <2> QED BY <1>1, <2>1, <2>3, RegisterGrows DEF Lapic
<1>4. CASE l.current > 1 /\ ~(l.accum + 1 < l.divide)
  <2>1. TickTimer(l) = [l EXCEPT !.accum = 0, !.current = l.current - 1]
    BY <1>1, <1>4 DEF TickTimer
  <2>2. l.current - 1 \in 0 .. MaxCount
    BY <1>1, <1>4
  <2>3. Grows(l, [l EXCEPT !.accum = 0, !.current = l.current - 1])
    BY <2>2, ZeroAccum, CountGrows
  <2> QED BY <2>1, <2>3
<1>5. CASE l.current = 1 /\ ~(l.accum + 1 < l.divide)
  <2> DEFINE f == FireTimer(l)
             count == IF l.lvtPeriodic THEN l.initial ELSE 0
  <2>1. TickTimer(l) = [f EXCEPT !.accum = 0, !.current = count]
    BY <1>5 DEF TickTimer
  <2>2. Grows(l, f) /\ Sound(f)
    BY FireTimerGrows DEF Grows
  <2>3. count \in 0 .. MaxCount
    BY <1>1
  <2> HIDE DEF f, count
  <2>4. Grows(f, [f EXCEPT !.accum = 0, !.current = count])
    BY <2>2, <2>3, ZeroAccum, CountGrows
  <2> QED BY <2>1, <2>2, <2>4 DEF Grows
<1> QED BY <1>1, <1>2, <1>3, <1>4, <1>5

(* A vector taken is of a higher class than all in service.                 *)
LEMMA TakeGrows ==
  ASSUME NEW l, Sound(l)
  PROVE  Grows(l, TakeInterrupt(l))
<1>1. /\ l \in Lapic /\ l.isr \subseteq Vector
      /\ l.pending \in Vector \cup {None}
  BY DEF Sound, Lapic
<1>2. CASE InterruptPending(l)
  <2> DEFINE v == l.pending
             m == TakeInterrupt(l)
  <2>1. v \in Vector /\ Class(v) > PprClass(l)
    BY <1>1, <1>2 DEF InterruptPending
  <2>2. \A w \in l.isr : Class(w) < Class(v)
    <3>1. \A w \in l.isr : Class(w) \in 0 .. 15 /\ Class(w) <= PprClass(l)
      BY <1>1, ClassType, PprBoundsService
    <3>2. Class(v) \in 0 .. 15 /\ PprClass(l) \in 0 .. 15
      BY <1>1, <2>1, ClassType, PprBoundsService
    <3> QED BY <2>1, <3>1, <3>2
  <2>3. \A w \in l.isr : w <= v
    <3> SUFFICES ASSUME NEW w \in l.isr
                 PROVE  w <= v
      OBVIOUS
    <3>1. v <= w => Class(v) <= Class(w)
      BY <1>1, <2>1, ClassMonotone
    <3>2. Class(w) \in 0 .. 15 /\ w \in 0 .. 255 /\ Class(w) < Class(v)
      BY <1>1, <2>2, ClassType
    <3>3. Class(v) \in 0 .. 15 /\ v \in 0 .. 255
      BY <2>1, ClassType
    <3> HIDE DEF v
    <3> QED BY <3>1, <3>2, <3>3
  <2>4. m = [l EXCEPT !.pending = None, !.inService = v,
                      !.irr = l.irr \ {v}, !.isr = l.isr \cup {v}]
    BY <1>2 DEF TakeInterrupt
  <2>5. /\ m.pending = None /\ m.inService = v
        /\ m.irr = {} /\ m.isr = l.isr \cup {v}
    BY <1>1, <2>1, <2>4, NoneIsNoVector DEF Lapic, Sound, Latched
  <2>6. m \in Lapic
    <3> DEFINE taken == [l EXCEPT !.irr = l.irr \ {v}, !.pending = None]
    <3>1. taken \in Lapic
      <4>1. l.irr \ {v} \in SUBSET Vector /\ None \in Vector \cup {None}
        BY <1>1 DEF Lapic
      <4> QED BY <1>1, <4>1, LatchType
    <3>2. m = [taken EXCEPT !.inService = v, !.isr = l.isr \cup {v}]
      BY <1>1, <2>4 DEF Lapic
    <3>3. l.isr \cup {v} \in SUBSET Vector /\ v \in Vector \cup {None}
      BY <1>1, <2>1
    <3> HIDE DEF taken, m
    <3>4. [taken EXCEPT !.inService = v, !.isr = l.isr \cup {v}] \in Lapic
      BY <3>1, <3>3, ServiceType
    <3> QED BY <3>2, <3>4
  <2>7. \A u, w \in m.isr : Class(u) = Class(w) => u = w
    <3>1. \A u, w \in l.isr : Class(u) = Class(w) => u = w
      BY DEF Sound, Nests
    <3>2. \A u \in m.isr : Class(u) \in 0 .. 15
      BY <1>1, <2>1, <2>5, ClassType
    <3> HIDE DEF m
    <3> QED BY <2>2, <2>5, <3>1, <3>2
  <2>8. \A w \in m.isr : w <= m.inService
    BY <2>1, <2>3, <2>5, ClassType
  <2> HIDE DEF m
  <2>9. Nests(m)
    BY <2>5, <2>7, <2>8 DEF Nests
  <2>10. Held(l) \cap Vector \subseteq Held(m)
    BY <2>5 DEF Held
  <2> QED BY <2>5, <2>6, <2>9, <2>10 DEF Grows, Sound, Latched, m
<1>3. CASE ~InterruptPending(l)
  BY <1>3 DEF TakeInterrupt, Grows
<1> QED BY <1>2, <1>3

LEMMA EoiSound ==
  ASSUME NEW l, Sound(l)
  PROVE  /\ Sound(Eoi(l))
         /\ EoiVector(l) \in l.isr \cup {None}
         /\ Eoi(l).pending = l.pending /\ Eoi(l).isr = l.isr \ {EoiVector(l)}
<1> DEFINE v == EoiVector(l)
           m == Eoi(l)
<1>1. /\ l \in Lapic /\ l.isr \subseteq Vector
      /\ l.inService # None => l.inService \in l.isr
  BY DEF Sound, Lapic, Nests
<1>2. v \in l.isr \cup {None}
  BY <1>1, HighestVectorIsMember DEF EoiVector
<1>3. m = [l EXCEPT !.inService = None, !.isr = l.isr \ {v}]
  BY DEF Eoi
<1>4. m \in Lapic
  <2>1. l.isr \ {v} \in SUBSET Vector /\ None \in Vector \cup {None}
    BY <1>1
  <2> HIDE DEF m, v
  <2>2. [l EXCEPT !.inService = None, !.isr = l.isr \ {v}] \in Lapic
    BY <1>1, <2>1, ServiceType
  <2> QED BY <1>3, <2>2
<1>5. /\ m.pending = l.pending /\ m.irr = l.irr
      /\ m.inService = None /\ m.isr = l.isr \ {v}
  BY <1>1, <1>3 DEF Lapic
<1> HIDE DEF m, v
<1>6. Sound(m)
  BY <1>4, <1>5 DEF Sound, Latched, Nests
<1> QED BY <1>2, <1>5, <1>6 DEF m, v

(* However many bytes an EOI store has, the vectors it ends are the only    *)
(* ones to go.                                                              *)
LEMMA EoiStoresSound ==
  ASSUME NEW l, Sound(l), NEW bytes \in {1, 2, 4}
  PROVE  /\ Sound(EoiStores(l)[bytes])
         /\ EoiStores(l)[bytes].pending = l.pending
<1>1. Sound(Eoi(l)) /\ Eoi(l).pending = l.pending
  BY EoiSound
<1>2. Sound(Eoi(Eoi(l))) /\ Eoi(Eoi(l)).pending = l.pending
  BY <1>1, EoiSound
<1>3. /\ Sound(Eoi(Eoi(Eoi(Eoi(l)))))
      /\ Eoi(Eoi(Eoi(Eoi(l)))).pending = l.pending
  BY <1>2, EoiSound
<1> QED BY <1>1, <1>2, <1>3 DEF EoiStores

----------------------------------------------------------------------------
(* Guest stores.                                                            *)

LEMMA DispatchGrows ==
  ASSUME NEW l, Sound(l)
  PROVE  Grows(l, DispatchIcr(l))
<1>1. l.icrVector \in Vector
  BY DEF Sound, Lapic
<1> QED BY <1>1, InjectGrows DEF DispatchIcr, Grows

LEMMA StoreIcrLowGrows ==
  ASSUME NEW l, Sound(l), NEW vector \in Vector, NEW fixed \in BOOLEAN,
         NEW shorthand \in Shorthands
  PROVE  Grows(l, StoreIcrLow(l, vector, fixed, shorthand))
<1> DEFINE b0 == DispatchIcr([l EXCEPT !.icrVector = vector])
           b1 == DispatchIcr([b0 EXCEPT !.icrFixed = fixed])
           b2 == DispatchIcr([b1 EXCEPT !.icrShorthand = shorthand])
           b3 == DispatchIcr(b2)
<1>1. Grows(l, b0)
  <2>1. Grows(l, [l EXCEPT !.icrVector = vector])
    BY RegisterGrows DEF Sound, Lapic
  <2> QED BY <2>1, DispatchGrows DEF Grows
<1>2. Grows(b0, b1)
  <2> HIDE DEF b0
  <2>1. Grows(b0, [b0 EXCEPT !.icrFixed = fixed])
    BY <1>1, RegisterGrows DEF Grows, Sound, Lapic
  <2> QED BY <2>1, DispatchGrows DEF Grows
<1>3. Grows(b1, b2)
  <2> HIDE DEF b1
  <2>1. Grows(b1, [b1 EXCEPT !.icrShorthand = shorthand])
    BY <1>2, RegisterGrows DEF Grows, Sound, Lapic
  <2> QED BY <2>1, DispatchGrows DEF Grows
<1>4. Grows(b2, b3)
  <2> HIDE DEF b2
  <2> QED BY <1>3, DispatchGrows DEF Grows
<1>5. StoreIcrLow(l, vector, fixed, shorthand) = b3
  BY DEF StoreIcrLow
<1> HIDE DEF b0, b1, b2, b3
<1> QED BY <1>1, <1>2, <1>3, <1>4, <1>5 DEF Grows

LEMMA StoreLvtGrows ==
  ASSUME NEW l, Sound(l), NEW vector \in Vector, NEW masked \in BOOLEAN,
         NEW periodic \in BOOLEAN
  PROVE  Grows(l, StoreLvtTimer(l, vector, masked, periodic))
<1> DEFINE a == [l EXCEPT !.lvtVector = vector]
           b == [a EXCEPT !.lvtMasked = masked]
           c == [b EXCEPT !.lvtPeriodic = periodic]
<1>1. l \in Lapic
  BY DEF Sound
<1>2. Grows(l, a)
  BY <1>1, RegisterGrows DEF Lapic
<1>3. StoreLvtTimer(l, vector, masked, periodic) = c
  BY DEF StoreLvtTimer
<1> HIDE DEF a
<1>4. Grows(a, b)
  BY <1>2, RegisterGrows DEF Grows, Sound, Lapic
<1> HIDE DEF b
<1>5. Grows(b, c)
  BY <1>4, RegisterGrows DEF Grows, Sound, Lapic
<1> HIDE DEF c
<1> QED BY <1>2, <1>3, <1>4, <1>5 DEF Grows

LEMMA StoreCountGrows ==
  ASSUME NEW l, Sound(l), NEW count \in 0 .. MaxCount
  PROVE  Grows(l, StoreTimerCount(l, count))
<1> DEFINE a == [l EXCEPT !.initial = count]
           b == [a EXCEPT !.accum = 0, !.current = count]
<1>1. l \in Lapic
  BY DEF Sound
<1>2. Grows(l, a)
  BY <1>1, RegisterGrows DEF Lapic
<1>3. StoreTimerCount(l, count) = b
  BY DEF StoreTimerCount
<1> HIDE DEF a
<1>4. Grows(a, b)
  BY <1>2, ZeroAccum, CountGrows DEF Grows
<1> HIDE DEF b
<1> QED BY <1>2, <1>3, <1>4 DEF Grows

LEMMA StoreDivideGrows ==
  ASSUME NEW l, Sound(l), NEW divide \in Divides
  PROVE  Grows(l, StoreDivide(l, divide))
<1> DEFINE a == [l EXCEPT !.divide = divide]
           b == [a EXCEPT !.accum = 0]
<1>1. l \in Lapic
  BY DEF Sound
<1>2. Grows(l, a)
  BY <1>1, RegisterGrows DEF Lapic
<1>3. StoreDivide(l, divide) = b
  BY DEF StoreDivide
<1> HIDE DEF a
<1>4. Grows(a, b)
  BY <1>2, ZeroAccum, RegisterGrows DEF Grows, Sound, Lapic
<1> HIDE DEF b
<1> QED BY <1>2, <1>3, <1>4 DEF Grows

LEMMA LapicStoreGrows ==
  ASSUME Sound(lapic), LapicStore
  PROVE  Grows(lapic, lapic')
<1> DEFINE l == lapic
<1>1. l \in Lapic /\ Sound(l)
  BY DEF Sound
<1> HIDE DEF l
<1>2. ASSUME NEW id \in IdStores, lapic' = StoreId(l, id)
      PROVE  Grows(l, lapic')
  <2>1. id \in ApicId
    BY FabricAssumption
  <2> QED BY <1>1, <1>2, <2>1, RegisterGrows DEF StoreId, Lapic
<1>3. ASSUME NEW class \in TprStores, lapic' = StoreTpr(l, class)
      PROVE  Grows(l, lapic')
  <2>1. class \in 0 .. 15
    BY FabricAssumption
  <2> QED BY <1>1, <1>3, <2>1, RegisterGrows DEF StoreTpr, Lapic
<1>4. ASSUME NEW enabled \in BOOLEAN, lapic' = StoreSvr(l, enabled)
      PROVE  Grows(l, lapic')
  BY <1>1, <1>4, RegisterGrows DEF StoreSvr, Lapic
<1>5. ASSUME NEW s \in LvtStores,
             lapic' = StoreLvtTimer(l, s.vector, s.masked, s.periodic)
      PROVE  Grows(l, lapic')
  <2>1. /\ s.vector \in Vector
        /\ s.masked \in BOOLEAN /\ s.periodic \in BOOLEAN
    BY FabricAssumption
  <2> QED BY <1>1, <1>5, <2>1, StoreLvtGrows
<1>6. ASSUME NEW count \in CountStores, lapic' = StoreTimerCount(l, count)
      PROVE  Grows(l, lapic')
  <2>1. count \in 0 .. MaxCount
    BY FabricAssumption
  <2> QED BY <1>1, <1>6, <2>1, StoreCountGrows
<1>7. ASSUME NEW divide \in Divides, lapic' = StoreDivide(l, divide)
      PROVE  Grows(l, lapic')
  BY <1>1, <1>7, StoreDivideGrows
<1>8. ASSUME NEW s \in IcrStores,
             lapic' = StoreIcrLow(l, s.vector, s.fixed, s.shorthand)
      PROVE  Grows(l, lapic')
  <2>1. /\ s.vector \in Vector /\ s.fixed \in BOOLEAN
        /\ s.shorthand \in Shorthands
    BY FabricAssumption
  <2> QED BY <1>1, <1>8, <2>1, StoreIcrLowGrows
<1> QED BY <1>2, <1>3, <1>4, <1>5, <1>6, <1>7, <1>8 DEF LapicStore, l

----------------------------------------------------------------------------
(* The I/O APIC behind the Local APIC.                                      *)

(* Accounting survives whatever the Local APIC keeps hold of.               *)
LEMMA GrowsAccounted ==
  ASSUME NEW l, NEW m, Grows(l, m), NEW io \in IoApicState, NEW orph,
         Accounted(l, io, orph)
  PROVE  Accounted(m, io, orph)
<1>1. \A g \in Gsi : io.rte[g].vector \in Vector
  BY DEF IoApicState, Rte
<1> QED BY <1>1 DEF Accounted, Grows

LEMMA ResetIoApicType == ResetIoApic \in IoApicState
BY AnyVectorType, LocalApicAssumption DEF ResetIoApic, IoApicState, Rte

LEMMA EntryType ==
  ASSUME NEW io \in IoApicState, NEW g \in Gsi, NEW e \in Rte
  PROVE  [io EXCEPT !.rte[g] = e] \in IoApicState
BY DEF IoApicState

LEMMA AssertPinType ==
  ASSUME NEW io \in IoApicState, NEW g \in Gsi, NEW high \in BOOLEAN
  PROVE  AssertPin(io, g, high) \in IoApicState
<1> DEFINE irr == io.rte[g].remoteIrr \/ (Delivers(io, g, high) /\ io.rte[g].level)
           e == [io.rte[g] EXCEPT !.remoteIrr = irr]
           pinned == [io EXCEPT !.pin[g] = high]
           entered == [pinned EXCEPT !.rte[g] = e]
           failed == IF Tries(io, g, high) /\ ~io.rte[g].masked
                        /\ ~io.rte[g].fixed
                     THEN g ELSE io.unsupported
<1>1. irr \in BOOLEAN /\ io.rte[g] \in Rte
  BY DEF IoApicState, Rte, Delivers, Tries
<1>2. e \in Rte
  <2> HIDE DEF irr
  <2> QED BY <1>1 DEF Rte
<1>3. pinned \in IoApicState
  BY DEF IoApicState
<1>4. failed \in Gsi \cup {None}
  BY DEF IoApicState
<1>5. AssertPin(io, g, high) = [entered EXCEPT !.unsupported = failed]
  BY DEF AssertPin, IoApicState
<1> HIDE DEF e, pinned, failed
<1>6. entered \in IoApicState
  BY <1>2, <1>3, EntryType
<1> HIDE DEF entered
<1>7. [entered EXCEPT !.unsupported = failed] \in IoApicState
  BY <1>4, <1>6 DEF IoApicState
<1> QED BY <1>5, <1>7

(* A pin driven: a new Remote IRR is for a vector the Local APIC has just   *)
(* latched, or is an orphan.                                                *)
LEMMA DriveSound ==
  ASSUME NEW l, Sound(l), NEW io \in IoApicState, NEW orph,
         Accounted(l, io, orph), NEW g \in Gsi, NEW high \in BOOLEAN
  PROVE  /\ Sound(LapicAfterPin(io, l, g, high))
         /\ Accounted(LapicAfterPin(io, l, g, high), AssertPin(io, g, high),
                      orph \cup Orphans(io, l, g, high))
<1> DEFINE m == LapicAfterPin(io, l, g, high)
           jo == AssertPin(io, g, high)
           orphans == orph \cup Orphans(io, l, g, high)
<1>1. io.rte[g] \in Rte /\ io.rte[g].vector \in Vector
  BY DEF IoApicState, Rte
<1>2. Grows(l, m)
  BY <1>1, InjectGrows DEF LapicAfterPin, Grows
<1>3. Reaches(io, l, g, high) => m.pending = io.rte[g].vector
  BY <1>1, InjectGrows DEF LapicAfterPin, Reaches
<1>4. Accounted(m, io, orph)
  BY <1>2, GrowsAccounted
<1>5. \A h \in Gsi : /\ jo.rte[h].vector = io.rte[h].vector
                     /\ jo.rte[h].level = io.rte[h].level
                     /\ jo.rte[h].remoteIrr =
                          (\/ io.rte[h].remoteIrr
                           \/ h = g /\ Delivers(io, g, high) /\ io.rte[g].level)
  BY ZenonT(60) DEF AssertPin, IoApicState, Rte, Delivers, Tries
<1>6. Delivers(io, g, high) /\ io.rte[g].level /\ ~Reaches(io, l, g, high)
        => g \in orphans
  BY DEF Orphans
<1> HIDE DEF m, jo
<1>7. Accounted(m, jo, orphans)
  <2> SUFFICES ASSUME NEW h \in Gsi, jo.rte[h].remoteIrr, h \notin orphans
               PROVE  jo.rte[h].level /\ jo.rte[h].vector \in Held(m)
    BY DEF Accounted
  <2>1. h \notin orph
    OBVIOUS
  <2> HIDE DEF orphans
  <2>2. CASE io.rte[h].remoteIrr
    BY <1>4, <1>5, <2>1, <2>2 DEF Accounted
  <2>3. CASE ~io.rte[h].remoteIrr
    <3>1. h = g /\ Delivers(io, g, high) /\ io.rte[g].level
      BY <1>5, <2>3
    <3>2. Reaches(io, l, g, high)
      BY <1>6, <3>1
    <3> QED BY <1>3, <1>5, <3>1, <3>2 DEF Held
  <2> QED BY <2>2, <2>3
<1> QED BY <1>2, <1>7 DEF Grows, m, jo

(* The EOI broadcast clears the Remote IRR of every entry that stood for    *)
(* the vector ended.                                                        *)
LEMMA BroadcastSound ==
  ASSUME NEW l, Sound(l), NEW io \in IoApicState, NEW orph,
         Accounted(l, io, orph)
  PROVE  LET v == EoiVector(l)
             cleared == {g \in Gsi : io.rte[g].level /\ io.rte[g].vector = v}
         IN  /\ IoEoi(io, v) \in IoApicState
             /\ Accounted(Eoi(l), IoEoi(io, v), orph \ cleared)
<1> DEFINE v == EoiVector(l)
           jo == IoEoi(io, v)
           cleared == {g \in Gsi : io.rte[g].level /\ io.rte[g].vector = v}
<1>1. jo \in IoApicState
  <2> DEFINE rte == [g \in Gsi |-> IF io.rte[g].level /\ io.rte[g].vector = v
                                  THEN [io.rte[g] EXCEPT !.remoteIrr = FALSE]
                                  ELSE io.rte[g]]
  <2>1. \A g \in Gsi : io.rte[g] \in Rte
    BY DEF IoApicState
  <2>2. \A r \in Rte : [r EXCEPT !.remoteIrr = FALSE] \in Rte
    BY ZenonT(30) DEF Rte
  <2>3. rte \in [Gsi -> Rte]
    BY <2>1, <2>2
  <2>4. jo = [io EXCEPT !.rte = rte]
    BY DEF IoEoi
  <2> HIDE DEF rte
  <2> QED BY <2>3, <2>4, ZenonT(30) DEF IoApicState
<1>2. \A g \in Gsi : /\ jo.rte[g].vector = io.rte[g].vector
                     /\ jo.rte[g].level = io.rte[g].level
                     /\ jo.rte[g].remoteIrr = (io.rte[g].remoteIrr /\ g \notin cleared)
  BY DEF IoEoi, IoApicState, Rte
<1>3. Eoi(l).pending = l.pending /\ Eoi(l).isr = l.isr \ {v}
  BY EoiSound
<1>4. ASSUME NEW g \in Gsi, jo.rte[g].remoteIrr, g \notin orph \ cleared
      PROVE  jo.rte[g].level /\ jo.rte[g].vector \in Held(Eoi(l))
  <2>1. io.rte[g].remoteIrr /\ g \notin cleared /\ g \notin orph
    BY <1>2, <1>4
  <2>2. io.rte[g].level /\ io.rte[g].vector \in Held(l)
    BY <2>1 DEF Accounted
  <2>3. io.rte[g].vector # v
    BY <2>1, <2>2
  <2> HIDE DEF v, jo
  <2> QED BY <1>2, <1>3, <2>2, <2>3 DEF Held
<1> HIDE DEF jo, cleared, v
<1>5. Accounted(Eoi(l), jo, orph \ cleared)
  BY <1>4 DEF Accounted
<1> QED BY <1>1, <1>5 DEF jo, cleared, v

----------------------------------------------------------------------------
(* The invariant is inductive.                                              *)

LEMMA OrphansType ==
  ASSUME NEW io, NEW l, NEW g \in Gsi, NEW high
  PROVE  Orphans(io, l, g, high) \subseteq Gsi
BY DEF Orphans

LEMMA InitInv == Init => IInv
<1> SUFFICES ASSUME Init
             PROVE  IInv
  OBVIOUS
<1>1. Accounted(lapic, ioapic, orphaned)
  BY DEF Init, Accounted, ResetIoApic
<1> QED BY <1>1, ResetSound, ResetIoApicType DEF Init, IInv

(* A step of the Local APIC alone.                                          *)
LEMMA GrowsStep ==
  ASSUME IInv, Grows(lapic, lapic'), UNCHANGED <<ioapic, hpetLine, orphaned>>
  PROVE  IInv'
<1>1. Accounted(lapic', ioapic, orphaned)
  BY GrowsAccounted DEF IInv
<1>2. Accounted(lapic, ioapic, orphaned)'
  BY <1>1 DEF Accounted, Held
<1>3. Sound(lapic')
  BY DEF Grows
<1>4. Sound(lapic)'
  BY <1>3 DEF Sound, Latched, Nests
<1> QED BY <1>2, <1>4 DEF IInv

(* A step whose Local APIC, I/O APIC and orphans are known to be sound.     *)
LEMMA FabricStep ==
  ASSUME Sound(lapic'), ioapic' \in IoApicState, hpetLine' \in BOOLEAN,
         orphaned' \subseteq Gsi, Accounted(lapic', ioapic', orphaned')
  PROVE  IInv'
<1>1. Accounted(lapic, ioapic, orphaned)'
  BY DEF Accounted, Held
<1>2. Sound(lapic)'
  BY DEF Sound, Latched, Nests
<1> QED BY <1>1, <1>2 DEF IInv

LEMMA NextInv == IInv /\ [Next]_vars => IInv'
<1> SUFFICES ASSUME IInv, [Next]_vars
             PROVE  IInv'
  OBVIOUS
<1>1. /\ Sound(lapic) /\ ioapic \in IoApicState /\ hpetLine \in BOOLEAN
      /\ orphaned \subseteq Gsi /\ Accounted(lapic, ioapic, orphaned)
  BY DEF IInv
<1>2. ASSUME NEW g \in Gsi \ {HpetGsi}, NEW high \in BOOLEAN,
             AssertGsi(g, high)
      PROVE  IInv'
  <2>1. /\ lapic' = LapicAfterPin(ioapic, lapic, g, high)
        /\ ioapic' = AssertPin(ioapic, g, high)
        /\ orphaned' = orphaned \cup Orphans(ioapic, lapic, g, high)
        /\ hpetLine' = hpetLine
    BY <1>2 DEF AssertGsi, Drive
  <2> QED BY <1>1, <2>1, DriveSound, AssertPinType, OrphansType, FabricStep
<1>3. CASE AdvanceHpet
  <2>1. PICK high \in BOOLEAN :
          /\ lapic' = LapicAfterPin(ioapic, lapic, HpetGsi, high)
          /\ ioapic' = AssertPin(ioapic, HpetGsi, high)
          /\ orphaned' = orphaned \cup Orphans(ioapic, lapic, HpetGsi, high)
          /\ hpetLine' = high
    BY <1>1, <1>3 DEF AdvanceHpet, Drive
  <2>2. HpetGsi \in Gsi
    BY FabricAssumption
  <2> QED BY <1>1, <2>1, <2>2, DriveSound, AssertPinType, OrphansType,
             FabricStep
<1>4. CASE TickLapic
  BY <1>1, <1>4, TickTimerGrows, GrowsStep DEF TickLapic
<1>5. CASE Take
  BY <1>1, <1>5, TakeGrows, GrowsStep DEF Take
<1>6. CASE TakeUnsupported
  <2>1. ioapic' \in IoApicState
    BY <1>1, <1>6 DEF TakeUnsupported, IoApicState
  <2>2. ioapic'.rte = ioapic.rte
    BY <1>1, <1>6 DEF TakeUnsupported, IoApicState
  <2>3. Accounted(lapic', ioapic', orphaned')
    BY <1>1, <1>6, <2>2 DEF TakeUnsupported, Accounted
  <2> QED BY <1>1, <1>6, <2>1, <2>3, FabricStep DEF TakeUnsupported
<1>7. CASE EoiLapicIoApic
  <2> DEFINE v == EoiVector(lapic)
             io == IoEoi(ioapic, v)
             l == Eoi(lapic)
             cleared == {g \in Gsi : /\ ioapic.rte[g].level
                                     /\ ioapic.rte[g].vector = v}
             orph == orphaned \ cleared
  <2>1. /\ lapic' = LapicAfterPin(io, l, HpetGsi, hpetLine)
        /\ ioapic' = AssertPin(io, HpetGsi, hpetLine)
        /\ orphaned' = orph \cup Orphans(io, l, HpetGsi, hpetLine)
        /\ hpetLine' = hpetLine
    BY <1>7 DEF EoiLapicIoApic, Drive
  <2>2. Sound(l) /\ io \in IoApicState /\ Accounted(l, io, orph)
    BY <1>1, EoiSound, BroadcastSound
  <2>3. orph \subseteq Gsi /\ HpetGsi \in Gsi
    BY <1>1, FabricAssumption
  <2> HIDE DEF io, l, orph
  <2> QED BY <1>1, <2>1, <2>2, <2>3, DriveSound, AssertPinType, OrphansType,
             FabricStep
<1>8. CASE EoiStore
  <2>1. PICK bytes \in {1, 2, 4} :
          /\ lapic' = EoiStores(lapic)[bytes]
          /\ orphaned' = orphaned \cup
               {g \in Gsi : /\ ioapic.rte[g].remoteIrr
                            /\ ioapic.rte[g].vector
                                 \in lapic.isr \ EoiStores(lapic)[bytes].isr}
          /\ UNCHANGED <<ioapic, hpetLine>>
    BY <1>8 DEF EoiStore
  <2>2. Sound(lapic') /\ lapic'.pending = lapic.pending
    BY <1>1, <2>1, EoiStoresSound
  <2>3. Accounted(lapic', ioapic', orphaned')
    BY <1>1, <2>1, <2>2 DEF Accounted, Held
  <2> QED BY <1>1, <2>1, <2>2, <2>3, FabricStep
<1>9. CASE LapicStore
  <2>1. Grows(lapic, lapic')
    BY <1>1, <1>9, LapicStoreGrows
  <2> QED BY <1>9, <2>1, GrowsStep DEF LapicStore
<1>10. CASE RteLowStore
  <2>1. PICK s \in RteStores :
          /\ ioapic' = StoreRteLow(ioapic, s.gsi, s.vector, s.fixed, s.masked,
                                   s.level)
          /\ orphaned' = IF ioapic.rte[s.gsi].remoteIrr
                         THEN orphaned \cup {s.gsi} ELSE orphaned
          /\ UNCHANGED <<lapic, hpetLine>>
    BY <1>10 DEF RteLowStore
  <2>2. /\ s.gsi \in Gsi /\ s.vector \in Vector /\ s.fixed \in BOOLEAN
        /\ s.masked \in BOOLEAN /\ s.level \in BOOLEAN
    BY FabricAssumption
  <2>3. ioapic' \in IoApicState
    <3> DEFINE e == [ioapic.rte[s.gsi] EXCEPT
                       !.vector = s.vector, !.fixed = s.fixed,
                       !.masked = s.masked, !.level = s.level]
    <3>1. ioapic.rte[s.gsi] \in Rte
      BY <1>1, <2>2 DEF IoApicState
    <3>2. e \in Rte
      BY <2>2, <3>1 DEF Rte
    <3>3. ioapic' = [ioapic EXCEPT !.rte[s.gsi] = e]
      BY <2>1 DEF StoreRteLow
    <3> HIDE DEF e
    <3> QED BY <1>1, <2>2, <3>2, <3>3, EntryType
  <2>4. \A g \in Gsi : /\ ioapic'.rte[g].remoteIrr = ioapic.rte[g].remoteIrr
                       /\ g # s.gsi => ioapic'.rte[g] = ioapic.rte[g]
    BY <1>1, <2>1, <2>2 DEF StoreRteLow, IoApicState, Rte
  <2>5. Accounted(lapic', ioapic', orphaned')
    BY <1>1, <2>1, <2>4 DEF Accounted
  <2> QED BY <1>1, <2>1, <2>2, <2>3, <2>5, FabricStep
<1>11. CASE RteHighStore
  <2>1. PICK s \in DestStores :
          /\ ioapic' = StoreRteHigh(ioapic, s.gsi, s.dest)
          /\ UNCHANGED <<lapic, hpetLine, orphaned>>
    BY <1>11 DEF RteHighStore
  <2>2. s.gsi \in Gsi /\ s.dest \in ApicId
    BY FabricAssumption
  <2>3. ioapic' \in IoApicState
    <3> DEFINE e == [ioapic.rte[s.gsi] EXCEPT !.dest = s.dest]
    <3>1. ioapic.rte[s.gsi] \in Rte
      BY <1>1, <2>2 DEF IoApicState
    <3>2. e \in Rte
      BY <2>2, <3>1 DEF Rte
    <3>3. ioapic' = [ioapic EXCEPT !.rte[s.gsi] = e]
      BY <2>1 DEF StoreRteHigh
    <3> HIDE DEF e
    <3> QED BY <1>1, <2>2, <3>2, <3>3, EntryType
  <2>4. \A g \in Gsi : /\ ioapic'.rte[g].remoteIrr = ioapic.rte[g].remoteIrr
                       /\ ioapic'.rte[g].level = ioapic.rte[g].level
                       /\ ioapic'.rte[g].vector = ioapic.rte[g].vector
    BY <1>1, <2>1, <2>2 DEF StoreRteHigh, IoApicState, Rte
  <2>5. Accounted(lapic', ioapic', orphaned')
    BY <1>1, <2>1, <2>4 DEF Accounted
  <2> QED BY <1>1, <2>1, <2>3, <2>5, FabricStep
<1>12. CASE HpetStore
  BY <1>1, <1>12, FabricStep DEF HpetStore
<1>13. CASE MachineReset
  <2>1. Init'
    BY <1>13 DEF MachineReset, Init
  <2>2. Accounted(lapic', ioapic', orphaned')
    BY <1>13 DEF MachineReset, Accounted, ResetIoApic
  <2> QED BY <1>13, <2>2, ResetSound, ResetIoApicType, FabricStep
          DEF MachineReset
<1>14. CASE UNCHANGED vars
  BY <1>1, <1>14, FabricStep DEF vars
<1> QED BY <1>2, <1>3, <1>4, <1>5, <1>6, <1>7, <1>8, <1>9, <1>10, <1>11,
           <1>12, <1>13, <1>14 DEF Next

LEMMA IInvHolds == Spec => []IInv
BY InitInv, NextInv, PTL DEF Spec

----------------------------------------------------------------------------
(* The theorems.                                                            *)

(* Registers, entries and lines keep their types.                           *)
THEOREM TypeCorrect == Spec => []TypeOK
<1>1. IInv => TypeOK
  BY DEF IInv, TypeOK, Sound
<1> QED BY <1>1, IInvHolds, PTL

(* IRR holds the latched vector and nothing else.                           *)
THEOREM PendingRequest == Spec => []PendingIsRequest
<1>1. IInv => PendingIsRequest
  BY DEF IInv, Sound, Latched, PendingIsRequest
<1> QED BY <1>1, IInvHolds, PTL

(* Vectors in service nest by priority class, and an EOI ends the highest.  *)
THEOREM Nesting == Spec => []ServiceNests
<1>1. IInv => ServiceNests
  BY DEF IInv, Sound, Nests, ServiceNests
<1> QED BY <1>1, IInvHolds, PTL

(* Every Remote IRR is for a vector held, or an orphan.                     *)
THEOREM RemoteIrr == Spec => []RemoteIrrAccounted
<1>1. IInv => RemoteIrrAccounted
  BY DEF IInv, Accounted, Held, RemoteIrrAccounted
<1> QED BY <1>1, IInvHolds, PTL

(* The EOI of a level vector whose HPET line is still high delivers it      *)
(* again.                                                                   *)
THEOREM Redelivery == Spec => EoiRedeliversLevel
<1> DEFINE e == ioapic.rte[HpetGsi]
           Due == /\ EoiLapicIoApic
                  /\ hpetLine /\ e.level /\ ~e.masked /\ e.fixed
                  /\ e.vector = EoiVector(lapic)
                  /\ e.dest = lapic.id /\ Accepts(lapic)
           Again == lapic'.pending = e.vector /\ ioapic'.rte[HpetGsi].remoteIrr
<1>1. ASSUME IInv, Due
      PROVE  Again
  <2> DEFINE io == IoEoi(ioapic, EoiVector(lapic))
             l == Eoi(lapic)
  <2>1. /\ lapic' = LapicAfterPin(io, l, HpetGsi, TRUE)
        /\ ioapic' = AssertPin(io, HpetGsi, TRUE)
    BY <1>1 DEF EoiLapicIoApic, Drive, IInv
  <2>2. /\ ioapic \in IoApicState /\ HpetGsi \in Gsi /\ lapic \in Lapic
        /\ Sound(lapic)
    BY <1>1, FabricAssumption DEF IInv, Sound
  <2>3. /\ io.rte[HpetGsi] = [e EXCEPT !.remoteIrr = FALSE]
        /\ e \in Rte
    BY <1>1, <2>2 DEF IoEoi, IoApicState
  <2>4. io.rte[HpetGsi].vector = e.vector /\ Delivers(io, HpetGsi, TRUE)
    BY <1>1, <2>3 DEF Rte, Delivers, Tries
  <2>5. l.id = lapic.id /\ Accepts(l) /\ Sound(l)
    BY <1>1, <2>2, EoiSound DEF Eoi, Accepts, Lapic
  <2>6. io.rte[HpetGsi].dest = lapic.id /\ io.rte[HpetGsi].level
    BY <1>1, <2>3 DEF Rte
  <2>7. io \in IoApicState
    BY <1>1, <2>2, BroadcastSound DEF IInv
  <2> HIDE DEF io, l
  <2>8. lapic'.pending = e.vector
    <3>1. lapic' = InjectFixed(l, e.vector)
      BY <2>1, <2>4, <2>5, <2>6 DEF LapicAfterPin
    <3>2. e.vector \in Vector
      BY <2>3 DEF Rte
    <3> QED BY <2>5, <3>1, <3>2, InjectGrows
  <2>9. ioapic'.rte[HpetGsi].remoteIrr
    BY <2>1, <2>2, <2>4, <2>6, <2>7 DEF AssertPin, IoApicState, Rte
  <2> QED BY <2>8, <2>9
<1>2. IInv => (Due => Again)
  BY <1>1
<1>3. IInv /\ [Next]_vars => [Due => Again]_vars
  BY <1>2
<1>4. Spec => [][Due => Again]_vars
  BY <1>3, IInvHolds, PTL DEF Spec
<1> QED BY <1>4 DEF EoiRedeliversLevel
=============================================================================
