------------------------- MODULE IrqDeliveryProofs -------------------------
(***************************************************************************)
(* Proofs about IrqDelivery for every number of inputs, set of devices,    *)
(* wiring and depth of nesting.                                            *)
(***************************************************************************)
EXTENDS IrqDelivery, Pic8259Lemmas, FiniteSetTheorems, SequenceTheorems, TLAPS

USE PicAssumption DEF IR

----------------------------------------------------------------------------
(* The inductive invariant.                                                 *)

(* How the guest leaves the pair programmed: edge inputs, fully nested, the *)
(* slave on the master's Cascade input.  No device or slave drives the      *)
(* DEFAULT input, so an acknowledge that reports it was spurious.           *)
Wired(c) ==
  /\ Sound(c)
  /\ c.initialized /\ ~c.single /\ ~c.levelTriggered /\ c.elcr = {}
  /\ ~c.autoEoi /\ ~c.specialMask /\ ~c.specialFullyNested
  /\ DefaultIR \notin c.irr \cup c.pins \cup c.isr

WiredPair(d) ==
  /\ d \in Pair
  /\ Wired(d.master) /\ d.master.isMaster /\ d.master.slaveMask = {Cascade}
  /\ Wired(d.slave) /\ ~d.slave.isMaster /\ d.slave.slaveId = Cascade

(* A handler's stage fits its vector: what it has still to end is owed.     *)
Staged(f) ==
  /\ f.stage = "eoiSlave" => OwesSlave(f.vector)
  /\ f.stage = "eoiMaster" => OwesMaster(f.vector)
  /\ f.stage = "service" => ~IsNmi(f) /\ f.vector.line # DefaultIR

(* The frames that owe a chip an EOI.                                       *)
OwingMaster(fs) ==
  {i \in 1 .. Len(fs) : /\ ~IsNmi(fs[i])
                        /\ fs[i].stage \in {"service", "eoiSlave", "eoiMaster"}
                        /\ OwesMaster(fs[i].vector)}

OwingSlave(fs) ==
  {i \in 1 .. Len(fs) : /\ ~IsNmi(fs[i])
                        /\ fs[i].stage \in {"service", "eoiSlave"}
                        /\ OwesSlave(fs[i].vector)}

One(owes) == IF owes THEN 1 ELSE 0

(* The account of the in-service bits of the pair d: the frames fs, the     *)
(* vector v in the slot and the overwritten ones owe them.                  *)
Accounted(d, fs, v, gone) ==
  /\ Cardinality(d.master.isr)
       = Cardinality(OwingMaster(fs)) + One(OwesMaster(v)) + gone["master"]
  /\ Cardinality(d.slave.isr)
       = Cardinality(OwingSlave(fs)) + One(OwesSlave(v)) + gone["slave"]

CpuInv ==
  /\ cpu \in Cpu
  /\ pair \in Pairs
  /\ pair = "fresh" => cpu.shadow # 0

FramesInv ==
  /\ frames \in Seq(Frames)
  /\ \A i \in 1 .. Len(frames) : Staged(frames[i])

IInv ==
  /\ WiredPair(pic)
  /\ out \in [Devices -> BOOLEAN]
  /\ CpuInv
  /\ FramesInv
  /\ SsPairUnsplit
  /\ lost \in [{"master", "slave"} -> Nat]
  /\ Accounted(pic, frames, cpu.pendingIrq, lost)
----------------------------------------------------------------------------
(* The chips.                                                               *)

SameRole(c, e) ==
  /\ e.isMaster = c.isMaster
  /\ e.slaveMask = c.slaveMask /\ e.slaveId = c.slaveId

LEMMA WiredIsEdge ==
  ASSUME NEW c, Wired(c)
  PROVE  \A ir : ~IsLevel(c, ir)
BY DEF Wired, IsLevel

(* A line moves no in-service bit.                                          *)
LEMMA LineWired ==
  ASSUME NEW c, Wired(c), NEW ir \in IR, ir # DefaultIR, NEW high \in BOOLEAN
  PROVE  /\ Wired(SetLine(c, ir, high))
         /\ SetLine(c, ir, high).isr = c.isr
         /\ SameRole(c, SetLine(c, ir, high))
<1> DEFINE e == SetLine(c, ir, high)
<1>1. Sound(c)
  BY DEF Wired
<1>2. /\ Sound(e) /\ Relatched(c, e)
      /\ e.pins \subseteq c.pins \cup {ir}
      /\ e.irr \subseteq c.irr \cup {ir}
  <2>1. CASE high
    <3>1. e = SetLine(c, ir, TRUE)
      BY <2>1 DEF SetLine
    <3>2. Raised(c, ir, e)
      BY <1>1, <3>1, RaiseSound
    <3> QED BY <3>2 DEF Raised
  <2>2. CASE ~high
    <3>1. e = SetLine(c, ir, FALSE)
      BY <2>2 DEF SetLine
    <3>2. Lowered(c, ir, e)
      BY <1>1, <3>1, LowerSound
    <3> QED BY <3>2 DEF Lowered
  <2> QED BY <2>1, <2>2
<1> HIDE DEF e
<1>3. /\ e.initialized = c.initialized /\ e.single = c.single
      /\ e.levelTriggered = c.levelTriggered /\ e.elcr = c.elcr
      /\ e.autoEoi = c.autoEoi /\ e.specialMask = c.specialMask
      /\ e.specialFullyNested = c.specialFullyNested
      /\ e.isr = c.isr /\ SameRole(c, e)
  BY <1>1, <1>2 DEF Relatched, Sound, Chip, SameRole
<1>4. Wired(e) /\ e.isr = c.isr /\ SameRole(c, e)
  BY <1>2, <1>3 DEF Wired
<1> QED BY <1>4 DEF e

LEMMA FiniteInputs ==
  ASSUME NEW S, S \subseteq IR
  PROVE  IsFiniteSet(S) /\ Cardinality(S) \in 0 .. NIR
<1>1. IsFiniteSet(IR) /\ Cardinality(IR) = NIR
  BY FS_Interval
<1>2. IsFiniteSet(S) /\ Cardinality(S) <= NIR
  BY <1>1, FS_Subset
<1>3. Cardinality(S) \in Nat
  BY <1>2, FS_CardinalityType
<1> QED BY <1>2, <1>3

(* An acknowledge that is not spurious sets one more bit.                   *)
LEMMA AckWired ==
  ASSUME NEW c, Wired(c), NEW ir \in Requests(c)
  PROVE  /\ Wired(AckIr(c, ir))
         /\ SameRole(c, AckIr(c, ir))
         /\ Cardinality(AckIr(c, ir).isr)
              = Cardinality(c.isr) + One(~Spurious(c, ir))
<1> DEFINE e == AckIr(c, ir)
<1>1. Sound(c) /\ ~c.autoEoi
  BY DEF Wired
<1>2. ir \in IR /\ ir \in c.irr /\ ir # DefaultIR
  BY <1>1, RequestsType DEF Requests, Wired
<1>3. Acked(c, ir, e)
  BY <1>1, <1>2, AckIrSound
<1>4. ir \notin c.isr
  BY <1>1, RequestOutranks DEF Wired
<1> HIDE DEF e
<1>5. /\ e.isr = IF Spurious(c, ir) THEN c.isr ELSE c.isr \cup {ir}
      /\ e.irr \subseteq c.irr \cup {ir}
      /\ Sound(e)
      /\ e = [c EXCEPT !.irr = e.irr, !.isr = e.isr, !.lowest = e.lowest]
  BY <1>1, <1>3 DEF Acked
<1>6. /\ e.initialized = c.initialized /\ e.single = c.single
      /\ e.levelTriggered = c.levelTriggered /\ e.elcr = c.elcr
      /\ e.autoEoi = c.autoEoi /\ e.specialMask = c.specialMask
      /\ e.specialFullyNested = c.specialFullyNested
      /\ e.pins = c.pins /\ SameRole(c, e)
  BY <1>1, <1>5 DEF Sound, Chip, SameRole
<1>7. Wired(e)
  BY <1>2, <1>5, <1>6 DEF Wired
<1>8. IsFiniteSet(c.isr) /\ Cardinality(c.isr) \in Nat
  BY <1>1, FiniteInputs DEF Sound, Chip
<1>9. Cardinality(c.isr \cup {ir}) = Cardinality(c.isr) + 1
  BY <1>4, <1>8, FS_AddElement
<1>10. Cardinality(e.isr) = Cardinality(c.isr) + One(~Spurious(c, ir))
  BY <1>5, <1>8, <1>9 DEF One
<1> QED BY <1>6, <1>7, <1>10 DEF e

(* A non-specific EOI to a chip with something in service ends one input.   *)
LEMMA EoiWired ==
  ASSUME NEW c, Wired(c)
  PROVE  /\ Wired(NonSpecificEoi(c, FALSE))
         /\ SameRole(c, NonSpecificEoi(c, FALSE))
         /\ c.isr # {} =>
              Cardinality(NonSpecificEoi(c, FALSE).isr) = Cardinality(c.isr) - 1
<1> DEFINE e == NonSpecificEoi(c, FALSE)
           ir == Highest(c, c.isr)
<1>1. Sound(c) /\ ~c.specialMask
  BY DEF Wired
<1>2. CASE c.isr = {}
  <2>1. e = c
    BY <1>1, <1>2, EoiEndsHighest
  <2> QED BY <1>2, <2>1 DEF SameRole
<1>3. CASE c.isr # {}
  <2>1. ir \in c.isr /\ e = [c EXCEPT !.isr = c.isr \ {ir}]
    BY <1>1, <1>3, EoiEndsHighest
  <2> HIDE DEF e, ir
  <2>2. /\ e \in Chip /\ e.isr = c.isr \ {ir} /\ e.phase = c.phase
        /\ e.initialized = c.initialized /\ e.single = c.single
        /\ e.levelTriggered = c.levelTriggered /\ e.elcr = c.elcr
        /\ e.autoEoi = c.autoEoi /\ e.specialMask = c.specialMask
        /\ e.specialFullyNested = c.specialFullyNested
        /\ e.pins = c.pins /\ e.irr = c.irr /\ SameRole(c, e)
    BY <1>1, <2>1 DEF Sound, Chip, SameRole
  <2>3. \A i : IsLevel(e, i) <=> IsLevel(c, i)
    BY <2>2 DEF IsLevel
  <2>4. Sound(e)
    BY <1>1, <2>2, <2>3 DEF Sound
  <2>5. Wired(e)
    BY <2>2, <2>4 DEF Wired
  <2>6. IsFiniteSet(c.isr) /\ Cardinality(c.isr) \in Nat
    BY <1>1, FiniteInputs DEF Sound, Chip
  <2>7. Cardinality(e.isr) = Cardinality(c.isr) - 1
    BY <2>1, <2>2, <2>6, FS_RemoveElement
  <2> QED BY <2>2, <2>5, <2>7 DEF e
<1> QED BY <1>2, <1>3

----------------------------------------------------------------------------
(* The pair.                                                                *)

(* d is b with other pins and requests: the service is the same.            *)
Kept(b, d) ==
  /\ WiredPair(d)
  /\ d.master.isr = b.master.isr
  /\ d.slave.isr = b.slave.isr

LEMMA CascadeType == Cascade \in IR /\ Cascade # DefaultIR
BY IrqAssumption

LEMMA PairWired ==
  ASSUME NEW b, WiredPair(b), NEW m, Wired(m), SameRole(b.master, m),
         NEW s, Wired(s), SameRole(b.slave, s),
         NEW d, d = [master |-> m, slave |-> s]
  PROVE  WiredPair(d) /\ d.master = m /\ d.slave = s
BY DEF WiredPair, Wired, Sound, SameRole, Pair

LEMMA PairShape ==
  ASSUME NEW b, WiredPair(b)
  PROVE  /\ b = [master |-> b.master, slave |-> b.slave]
         /\ \A m : [b EXCEPT !.master = m] = [master |-> m, slave |-> b.slave]
         /\ \A s : [b EXCEPT !.slave = s] = [master |-> b.master, slave |-> s]
         /\ Wired(b.master) /\ SameRole(b.master, b.master)
         /\ Wired(b.slave) /\ SameRole(b.slave, b.slave)
BY DEF WiredPair, Pair, SameRole

LEMMA SyncWired ==
  ASSUME NEW b, WiredPair(b)
  PROVE  Kept(b, SyncCascade(b))
<1> DEFINE high == IntPending(b.slave)
           m == SetLine(b.master, Cascade, high)
<1>1. CASE ~CascadeActive(b)
  BY <1>1 DEF SyncCascade, Kept
<1>2. CASE CascadeActive(b)
  <2>1. SyncCascade(b) = [b EXCEPT !.master = m]
    BY <1>2 DEF SyncCascade, WiredPair
  <2>2. high \in BOOLEAN
    BY DEF IntPending
  <2>3. /\ Wired(m) /\ m.isr = b.master.isr /\ SameRole(b.master, m)
    BY <2>2, CascadeType, LineWired DEF WiredPair
  <2> HIDE DEF m
  <2>4. SyncCascade(b) = [master |-> m, slave |-> b.slave]
    BY <2>1, PairShape
  <2>5. /\ WiredPair(SyncCascade(b))
        /\ SyncCascade(b).master = m /\ SyncCascade(b).slave = b.slave
    BY <2>3, <2>4, PairShape, PairWired
  <2> QED BY <2>3, <2>5 DEF Kept
<1> QED BY <1>1, <1>2

LEMMA KeptTransitive ==
  ASSUME NEW a, NEW b, NEW d, Kept(a, b), Kept(b, d)
  PROVE  Kept(a, d)
BY DEF Kept

LEMMA DriveWired ==
  ASSUME NEW b, WiredPair(b), NEW dev \in Devices, NEW high \in BOOLEAN
  PROVE  Kept(b, Drive(b, dev, high))
<1> DEFINE ir == LineOf[dev].line
<1>1. /\ ir \in IR /\ ir # DefaultIR
      /\ LineOf[dev].chip \in {"master", "slave"}
  BY IrqAssumption
<1> HIDE DEF ir
<1>2. CASE LineOf[dev].chip = "master"
  <2> DEFINE m == SetLine(b.master, ir, high)
  <2>1. Wired(m) /\ m.isr = b.master.isr /\ SameRole(b.master, m)
    BY <1>1, LineWired DEF WiredPair
  <2>2. Drive(b, dev, high) = [b EXCEPT !.master = m]
    BY <1>2 DEF Drive, SetMasterLine, ir
  <2> HIDE DEF m
  <2>3. Drive(b, dev, high) = [master |-> m, slave |-> b.slave]
    BY <2>2, PairShape
  <2>4. /\ WiredPair(Drive(b, dev, high))
        /\ Drive(b, dev, high).master = m /\ Drive(b, dev, high).slave = b.slave
    BY <2>1, <2>3, PairShape, PairWired
  <2> QED BY <2>1, <2>4 DEF Kept
<1>3. CASE LineOf[dev].chip = "slave"
  <2> DEFINE s == SetLine(b.slave, ir, high)
             d == [b EXCEPT !.slave = s]
  <2>1. Wired(s) /\ s.isr = b.slave.isr /\ SameRole(b.slave, s)
    BY <1>1, LineWired DEF WiredPair
  <2>2. Drive(b, dev, high) = SyncCascade(d)
    BY <1>3 DEF Drive, SetSlaveLine, ir
  <2> HIDE DEF s
  <2>3. d = [master |-> b.master, slave |-> s]
    BY PairShape
  <2> HIDE DEF d
  <2>4. WiredPair(d) /\ d.master = b.master /\ d.slave = s
    BY <2>1, <2>3, PairShape, PairWired
  <2>5. Kept(b, d)
    BY <2>1, <2>4 DEF Kept
  <2>6. Kept(d, SyncCascade(d))
    BY <2>4, SyncWired
  <2> QED BY <2>2, <2>5, <2>6, KeptTransitive
<1> QED BY <1>1, <1>2, <1>3
----------------------------------------------------------------------------
(* A poll.                                                                  *)

(* Sampling one device more.                                                *)
Sampling(d, n) == {Drive(b, PollOrder[n], out[PollOrder[n]]) : b \in d}

(* The recursion that defines Sampled has a solution.                       *)
Samples(g, m) ==
  g = [n \in 0 .. m |-> IF n = 0 THEN {pic} ELSE Sampling(g[n - 1], n)]

LEMMA SampledExists ==
  ASSUME NEW N \in Nat
  PROVE  \E g : Samples(g, N)
<1> DEFINE T == {m \in 0 .. N : ~\E g : Samples(g, m)}
<1> SUFFICES ASSUME T # {}
             PROVE  FALSE
  <2>1. N \in 0 .. N
    OBVIOUS
  <2> QED BY <2>1
<1>1. T \subseteq Nat
  OBVIOUS
<1>2. PICK m \in T : \A n \in T : m <= n
  <2> HIDE DEF T
  <2> QED BY <1>1, LeastNatural
<1>3. m \in 0 .. N /\ ~\E g : Samples(g, m)
  BY <1>2
<1>4. CASE m = 0
  <2> DEFINE g == [n \in 0 .. 0 |-> {pic}]
  <2>1. g = [n \in 0 .. 0 |-> IF n = 0 THEN {pic} ELSE Sampling(g[n - 1], n)]
    OBVIOUS
  <2> HIDE DEF g
  <2> QED BY <1>3, <1>4, <2>1 DEF Samples
<1>5. CASE m # 0
  <2>1. m - 1 \in 0 .. N /\ m - 1 \notin T
    BY <1>2, <1>3, <1>5
  <2>2. PICK f : Samples(f, m - 1)
    BY <2>1
  <2> DEFINE h == [n \in 0 .. m |-> IF n = m THEN Sampling(f[m - 1], m)
                                             ELSE f[n]]
  <2>3. \A n \in 0 .. m - 1 :
          f[n] = IF n = 0 THEN {pic} ELSE Sampling(f[n - 1], n)
    BY <2>2 DEF Samples
  <2>4. ASSUME NEW n \in 0 .. m
        PROVE  h[n] = IF n = 0 THEN {pic} ELSE Sampling(h[n - 1], n)
    <3>1. CASE n = m
      <4>1. n # 0 /\ n - 1 \in 0 .. m /\ n - 1 # m
        BY <1>3, <1>5, <3>1
      <4>2. h[n - 1] = f[m - 1] /\ h[n] = Sampling(f[m - 1], m)
        BY <3>1, <4>1
      <4> QED BY <3>1, <4>1, <4>2
    <3>2. CASE n # m
      <4>1. n \in 0 .. m - 1 /\ h[n] = f[n]
        BY <1>3, <3>2
      <4>2. CASE n = 0
        BY <2>3, <4>1, <4>2
      <4>3. CASE n # 0
        <5>1. n - 1 \in 0 .. m /\ n - 1 # m
          BY <1>3, <3>2, <4>3
        <5>2. h[n - 1] = f[n - 1]
          BY <5>1
        <5> HIDE DEF h
        <5> QED BY <2>3, <4>1, <4>3, <5>2
      <4> QED BY <4>2, <4>3
    <3> QED BY <3>1, <3>2
  <2>5. h = [n \in 0 .. m |-> IF n = 0 THEN {pic} ELSE Sampling(h[n - 1], n)]
    <3>1. h = [n \in 0 .. m |-> h[n]]
      OBVIOUS
    <3> HIDE DEF h
    <3> QED BY <2>4, <3>1
  <2> HIDE DEF h
  <2> QED BY <1>3, <2>5 DEF Samples
<1> QED BY <1>4, <1>5

LEMMA SampledDef ==
  \A n \in 0 .. Len(PollOrder) :
    Sampled[n] = IF n = 0 THEN {pic} ELSE Sampling(Sampled[n - 1], n)
<1>1. Len(PollOrder) \in Nat
  BY IrqAssumption
<1>2. \E g : Samples(g, Len(PollOrder))
  BY <1>1, SampledExists
<1>3. Sampled = CHOOSE g : Samples(g, Len(PollOrder))
  BY DEF Sampled, Samples, Sampling
<1>4. Samples(Sampled, Len(PollOrder))
  BY <1>2, <1>3
<1> HIDE DEF Sampled
<1> QED BY <1>4 DEF Samples

(* Sampling every device moves no in-service bit.                           *)
LEMMA SampledWired ==
  ASSUME WiredPair(pic), out \in [Devices -> BOOLEAN]
  PROVE  \A d \in Sampled[Len(PollOrder)] : Kept(pic, d)
<1> DEFINE N == Len(PollOrder)
           T == {m \in 0 .. N : ~\A d \in Sampled[m] : Kept(pic, d)}
<1>1. N \in Nat
  BY IrqAssumption
<1> SUFFICES ASSUME T # {}
             PROVE  FALSE
  <2>1. N \in 0 .. N
    BY <1>1
  <2> HIDE DEF N
  <2>2. \A d \in Sampled[N] : Kept(pic, d)
    BY <2>1
  <2> QED BY <2>2 DEF N
<1>2. PICK m \in T : \A n \in T : m <= n
  <2>1. T \subseteq Nat
    OBVIOUS
  <2> HIDE DEF T
  <2> QED BY <2>1, LeastNatural
<1>3. PICK d \in Sampled[m] : ~Kept(pic, d)
  BY <1>2
<1>4. m \in 0 .. N
  BY <1>2
<1>5. CASE m = 0
  <2>1. d = pic
    BY <1>3, <1>4, <1>5, SampledDef
  <2> QED BY <1>3, <2>1 DEF Kept
<1>6. CASE m # 0
  <2>1. m - 1 \in 0 .. N /\ m - 1 \notin T
    BY <1>1, <1>2, <1>4, <1>6
  <2>2. \A b \in Sampled[m - 1] : Kept(pic, b)
    BY <2>1
  <2>3. PICK b \in Sampled[m - 1] :
               d = Drive(b, PollOrder[m], out[PollOrder[m]])
    <3>1. Sampled[m] = Sampling(Sampled[m - 1], m)
      BY <1>4, <1>6, SampledDef
    <3>2. d \in Sampling(Sampled[m - 1], m)
      BY <1>3, <3>1
    <3> QED BY <3>2 DEF Sampling
  <2>4. PollOrder[m] \in Devices
    <3>1. m \in 1 .. Len(PollOrder) /\ PollOrder \in Seq(Devices)
      BY <1>1, <1>4, <1>6, IrqAssumption
    <3> HIDE DEF N
    <3> QED BY <3>1
  <2>5. Kept(b, d)
    BY <2>2, <2>3, <2>4, DriveWired DEF Kept
  <2> QED BY <1>3, <2>2, <2>5, KeptTransitive
<1> QED BY <1>5, <1>6

(* What a poll does to the service: the vector it returns, if any, owes     *)
(* each chip exactly the bit the poll set there.                            *)
Served(b, d, v) ==
  /\ WiredPair(d)
  /\ v \in Vectors
  /\ Cardinality(d.master.isr)
       = Cardinality(b.master.isr) + One(OwesMaster(v))
  /\ Cardinality(d.slave.isr)
       = Cardinality(b.slave.isr) + One(OwesSlave(v))

LEMMA SlaveAckWired ==
  ASSUME NEW s, Wired(s), ~s.isMaster
  PROVE  /\ Wired(SlaveAck(s)) /\ SameRole(s, SlaveAck(s))
         /\ SlaveAckLine(s) \in IR
         /\ Cardinality(SlaveAck(s).isr)
              = Cardinality(s.isr) + One(SlaveAckLine(s) # DefaultIR)
<1> DEFINE ir == Highest(s, Requests(s))
<1>1. DefaultIR \in IR
  BY DEF DefaultIR
<1>2. Cardinality(s.isr) \in Nat
  BY FiniteInputs DEF Wired, Sound, Chip
<1>3. CASE ~IntPending(s)
  BY <1>1, <1>2, <1>3 DEF SlaveAck, SlaveAckLine, SameRole, One
<1>4. CASE IntPending(s)
  <2>1. ir \in Requests(s) /\ ir \in IR
    BY <1>4, RequestsType, HighestIsMember DEF IntPending, Wired, Sound, Chip
  <2>2. SlaveAck(s) = AckIr(s, ir) /\ SlaveAckLine(s) = AckLine(s, ir)
    BY <1>4 DEF SlaveAck, SlaveAckLine
  <2> HIDE DEF ir
  <2>3. ir # DefaultIR
    BY <2>1 DEF Wired, Requests
  <2>4. AckLine(s, ir) \in IR /\ (AckLine(s, ir) # DefaultIR <=> ~Spurious(s, ir))
    BY <1>1, <2>1, <2>3 DEF AckLine
  <2>5. One(AckLine(s, ir) # DefaultIR) = One(~Spurious(s, ir))
    BY <2>4 DEF One
  <2> QED BY <2>1, <2>2, <2>4, <2>5, AckWired
<1> QED BY <1>3, <1>4

LEMMA AckPairServes ==
  ASSUME NEW b, WiredPair(b)
  PROVE  Served(b, AckSynced(b), AckVectorSynced(b))
<1> DEFINE ir == Highest(b.master, Requests(b.master))
           m == AckIr(b.master, ir)
           s == SlaveAck(b.slave)
           v == AckVectorSynced(b)
           d == AckSynced(b)
<1>1. /\ Wired(b.master) /\ Wired(b.slave) /\ b \in Pair
      /\ b.master.isMaster /\ ~b.slave.isMaster
      /\ b.slave.initialized
  BY DEF WiredPair, Wired
<1>2. /\ Cardinality(b.master.isr) \in Nat
      /\ Cardinality(b.slave.isr) \in Nat
  BY <1>1, FiniteInputs DEF Wired, Sound, Chip
<1>3. CASE ~IntPending(b.master)
  <2>1. d = b /\ v = NoVector
    BY <1>3 DEF AckSynced, AckVectorSynced
  <2>2. ~OwesMaster(NoVector) /\ ~OwesSlave(NoVector) /\ NoVector \in Vectors
    BY DEF OwesMaster, OwesSlave, NoVector, Vectors
  <2> QED BY <1>2, <2>1, <2>2 DEF Served, One
<1>4. CASE IntPending(b.master)
  <2>1. ir \in Requests(b.master) /\ ir \in IR
    BY <1>1, <1>4, RequestsType, HighestIsMember
       DEF IntPending, Wired, Sound, Chip
  <2>2. d = IF CascadeInput(b.master, ir)
            THEN SyncCascade([master |-> m, slave |-> s])
            ELSE [b EXCEPT !.master = m]
    BY <1>4 DEF AckSynced
  <2>3. v = IF CascadeInput(b.master, ir)
            THEN [chip |-> "slave", line |-> SlaveAckLine(b.slave)]
            ELSE [chip |-> "master", line |-> AckLine(b.master, ir)]
    BY <1>1, <1>4 DEF AckVectorSynced
  <2> HIDE DEF ir, d, v
  <2>4. /\ Wired(m) /\ SameRole(b.master, m)
        /\ Cardinality(m.isr)
             = Cardinality(b.master.isr) + One(~Spurious(b.master, ir))
    BY <1>1, <2>1, AckWired
  <2>5. /\ Wired(s) /\ SameRole(b.slave, s)
        /\ SlaveAckLine(b.slave) \in IR
        /\ Cardinality(s.isr)
             = Cardinality(b.slave.isr) + One(SlaveAckLine(b.slave) # DefaultIR)
    BY <1>1, SlaveAckWired
  <2>6. ir # DefaultIR /\ DefaultIR \in IR
    BY <1>1, <2>1 DEF Wired, Requests, DefaultIR
  <2> HIDE DEF m, s
  <2>7. CASE CascadeInput(b.master, ir)
    <3> DEFINE p == [master |-> m, slave |-> s]
               line == SlaveAckLine(b.slave)
    <3>1. WiredPair(p) /\ p.master = m /\ p.slave = s
      BY <2>4, <2>5, PairWired
    <3>2. d = SyncCascade(p) /\ v = [chip |-> "slave", line |-> line]
      BY <2>2, <2>3, <2>7
    <3> HIDE DEF p, line
    <3>3. WiredPair(d) /\ d.master.isr = m.isr /\ d.slave.isr = s.isr
      BY <3>1, <3>2, SyncWired DEF Kept
    <3>4. ~Spurious(b.master, ir)
      BY <2>7 DEF Spurious
    <3>5. v \in Vectors /\ OwesMaster(v) /\ (OwesSlave(v) <=> line # DefaultIR)
      <4>1. line \in IR
        BY <2>5 DEF line
      <4>2. v.chip = "slave" /\ v.line = line /\ v # NoVector
        BY <3>2 DEF NoVector
      <4> QED BY <3>2, <4>1, <4>2 DEF Vectors, OwesMaster, OwesSlave
    <3>6. One(OwesMaster(v)) = 1 /\ One(~Spurious(b.master, ir)) = 1
      BY <3>4, <3>5 DEF One
    <3>7. One(OwesSlave(v)) = One(line # DefaultIR)
      BY <3>5 DEF One
    <3>8. Served(b, d, v)
      BY <2>4, <2>5, <3>3, <3>5, <3>6, <3>7 DEF Served, line
    <3> QED BY <3>8 DEF d, v
  <2>8. CASE ~CascadeInput(b.master, ir)
    <3> DEFINE line == AckLine(b.master, ir)
    <3>1. d = [master |-> m, slave |-> b.slave]
      BY <2>2, <2>8, PairShape
    <3>2. WiredPair(d) /\ d.master = m /\ d.slave = b.slave
      BY <2>4, <3>1, PairShape, PairWired
    <3>3. v = [chip |-> "master", line |-> line]
      BY <2>3, <2>8
    <3>4. line \in IR /\ (line # DefaultIR <=> ~Spurious(b.master, ir))
      BY <2>1, <2>6 DEF AckLine
    <3> HIDE DEF line
    <3>5. /\ v \in Vectors /\ ~OwesSlave(v)
          /\ OwesMaster(v) <=> ~Spurious(b.master, ir)
      <4>1. v.chip = "master" /\ v.line = line /\ v # NoVector
        BY <3>3 DEF NoVector
      <4> QED BY <3>3, <3>4, <4>1 DEF Vectors, OwesMaster, OwesSlave
    <3>6. /\ One(OwesMaster(v)) = One(~Spurious(b.master, ir))
          /\ One(OwesSlave(v)) = 0
      BY <3>5 DEF One
    <3>7. Served(b, d, v)
      BY <1>2, <2>4, <3>2, <3>5, <3>6 DEF Served
    <3> QED BY <3>7 DEF d, v
  <2> QED BY <2>7, <2>8
<1> QED BY <1>3, <1>4

LEMMA PollServes ==
  ASSUME WiredPair(pic), out \in [Devices -> BOOLEAN], NEW poll \in Polls
  PROVE  Served(pic, poll.pic, poll.vector)
<1>1. PICK d \in Sampled[Len(PollOrder)] :
        /\ poll.pic = AckSynced(SyncCascade(d))
        /\ poll.vector = AckVectorSynced(SyncCascade(d))
  BY DEF Polls
<1>2. Kept(pic, d)
  BY SampledWired
<1>3. Kept(d, SyncCascade(d))
  BY <1>2, SyncWired DEF Kept
<1>4. Kept(pic, SyncCascade(d))
  BY <1>2, <1>3, KeptTransitive
<1>5. Served(SyncCascade(d), poll.pic, poll.vector)
  BY <1>1, <1>4, AckPairServes DEF Kept
<1> QED BY <1>4, <1>5 DEF Served, Kept
----------------------------------------------------------------------------
(* The frames.                                                              *)

In(x, S) == IF x \in S THEN 1 ELSE 0

LEMMA CountTop ==
  ASSUME NEW P, IsFiniteSet(P), NEW Q, IsFiniteSet(Q), NEW n,
         P \ {n} = Q \ {n}
  PROVE  /\ Cardinality(P) \in Nat /\ Cardinality(Q) \in Nat
         /\ Cardinality(Q) + In(n, P) = Cardinality(P) + In(n, Q)
<1>1. Cardinality(P) \in Nat /\ Cardinality(Q) \in Nat
  BY FS_CardinalityType
<1>2. /\ Cardinality(P \ {n}) = Cardinality(P) - In(n, P)
      /\ Cardinality(Q \ {n}) = Cardinality(Q) - In(n, Q)
  <2>1. ASSUME NEW S, IsFiniteSet(S)
        PROVE  Cardinality(S \ {n}) = Cardinality(S) - In(n, S)
    <3>1. Cardinality(S) \in Nat
      BY <2>1, FS_CardinalityType
    <3>2. Cardinality(S \ {n}) = IF n \in S THEN Cardinality(S) - 1
                                           ELSE Cardinality(S)
      BY <2>1, FS_RemoveElement
    <3> QED BY <3>1, <3>2 DEF In
  <2> QED BY <2>1
<1>3. In(n, P) \in Nat /\ In(n, Q) \in Nat
  BY DEF In
<1>4. Cardinality(P) - In(n, P) = Cardinality(Q) - In(n, Q)
  BY <1>2
<1> QED BY <1>1, <1>3, <1>4

LEMMA OwingFinite ==
  ASSUME NEW fs \in Seq(Frames)
  PROVE  /\ IsFiniteSet(OwingMaster(fs)) /\ IsFiniteSet(OwingSlave(fs))
         /\ Cardinality(OwingMaster(fs)) \in Nat
         /\ Cardinality(OwingSlave(fs)) \in Nat
<1>1. Len(fs) \in Nat
  OBVIOUS
<1>2. IsFiniteSet(1 .. Len(fs))
  BY <1>1, FS_Interval
<1>3. /\ OwingMaster(fs) \in SUBSET (1 .. Len(fs))
      /\ OwingSlave(fs) \in SUBSET (1 .. Len(fs))
  BY DEF OwingMaster, OwingSlave
<1>4. IsFiniteSet(OwingMaster(fs)) /\ IsFiniteSet(OwingSlave(fs))
  BY <1>2, <1>3, FS_Subset
<1> QED BY <1>4, FS_CardinalityType

(* Stacks that differ at their top, n, only: gs against fs.                 *)
LEMMA TopCount ==
  ASSUME NEW fs \in Seq(Frames), NEW gs \in Seq(Frames), NEW n \in Nat,
         \A i \in (1 .. Len(fs)) \ {n} : i \in 1 .. Len(gs) /\ gs[i] = fs[i],
         \A i \in (1 .. Len(gs)) \ {n} : i \in 1 .. Len(fs)
  PROVE  /\ Cardinality(OwingMaster(gs)) + In(n, OwingMaster(fs))
              = Cardinality(OwingMaster(fs)) + In(n, OwingMaster(gs))
         /\ Cardinality(OwingSlave(gs)) + In(n, OwingSlave(fs))
              = Cardinality(OwingSlave(fs)) + In(n, OwingSlave(gs))
<1>1. OwingMaster(fs) \ {n} = OwingMaster(gs) \ {n}
  BY DEF OwingMaster
<1>2. OwingSlave(fs) \ {n} = OwingSlave(gs) \ {n}
  BY DEF OwingSlave
<1> QED BY <1>1, <1>2, OwingFinite, CountTop

LEMMA FramePushed ==
  ASSUME NEW fs \in Seq(Frames), NEW f \in Frames
  PROVE  /\ Append(fs, f) \in Seq(Frames)
         /\ Len(Append(fs, f)) = Len(fs) + 1
         /\ \A i \in 1 .. Len(fs) : Append(fs, f)[i] = fs[i]
         /\ Append(fs, f)[Len(fs) + 1] = f
BY AppendProperties

LEMMA FrameReplaced ==
  ASSUME NEW fs \in Seq(Frames), fs # <<>>, NEW f \in Frames,
         NEW gs, gs = [fs EXCEPT ![Len(fs)] = f]
  PROVE  /\ gs \in Seq(Frames)
         /\ Len(gs) = Len(fs) /\ Len(fs) \in 1 .. Len(fs)
         /\ \A i \in 1 .. Len(fs) : gs[i] = IF i = Len(fs) THEN f ELSE fs[i]
<1>1. Len(fs) \in 1 .. Len(fs)
  BY EmptySeq, LenProperties
<1> QED BY <1>1, ExceptSeq

LEMMA FramePopped ==
  ASSUME NEW fs \in Seq(Frames), fs # <<>>
  PROVE  /\ Front(fs) \in Seq(Frames)
         /\ Len(fs) \in 1 .. Len(fs)
         /\ Len(Front(fs)) = Len(fs) - 1
         /\ \A i \in 1 .. Len(fs) - 1 : Front(fs)[i] = fs[i]
<1> DEFINE n == Len(fs)
           k == n - 1
<1>1. n \in Nat /\ n # 0 /\ \A i \in 1 .. n : fs[i] \in Frames
  BY EmptySeq, LenProperties
<1>2. /\ k \in Nat /\ 1 .. k \subseteq 1 .. n /\ n \in 1 .. n
      /\ k - 1 + 1 = k /\ \A i \in 1 .. k : 1 + i - 1 = i
      /\ 1 <= k \/ k = 0
  <2> HIDE DEF n
  <2> QED BY <1>1
<1> HIDE DEF n, k
<1>3. \A i \in 1 .. k : fs[i] \in Frames
  BY <1>1, <1>2
<1>4. /\ SubSeq(fs, 1, k) \in Seq(Frames)
      /\ Len(SubSeq(fs, 1, k)) = IF 1 <= k THEN k - 1 + 1 ELSE 0
      /\ \A i \in 1 .. k - 1 + 1 : SubSeq(fs, 1, k)[i] = fs[1 + i - 1]
  BY <1>2, <1>3, SubSeqProperties
<1>5. /\ Len(SubSeq(fs, 1, k)) = k
      /\ \A i \in 1 .. k : SubSeq(fs, 1, k)[i] = fs[i]
  BY <1>2, <1>4
<1> QED BY <1>2, <1>4, <1>5 DEF n, k, Front

LEMMA NmiOwesNothing ==
  /\ NoVector \in Vectors
  /\ ~OwesMaster(NoVector) /\ ~OwesSlave(NoVector)
BY DEF Vectors, OwesMaster, OwesSlave, NoVector

(* Entering a handler moves what the slot owes to the frame.                *)
LEMMA PushCounts ==
  ASSUME NEW fs \in Seq(Frames), \A i \in 1 .. Len(fs) : Staged(fs[i]),
         NEW f \in Frames, f.stage = EntryStage(f.vector)
  PROVE  LET gs == Append(fs, f)
         IN  /\ gs \in Seq(Frames)
             /\ Len(gs) = Len(fs) + 1
             /\ \A i \in 1 .. Len(fs) : gs[i] = fs[i]
             /\ gs[Len(fs) + 1] = f
             /\ \A i \in 1 .. Len(gs) : Staged(gs[i])
             /\ Cardinality(OwingMaster(gs))
                  = Cardinality(OwingMaster(fs)) + One(OwesMaster(f.vector))
             /\ Cardinality(OwingSlave(gs))
                  = Cardinality(OwingSlave(fs)) + One(OwesSlave(f.vector))
<1> DEFINE v == f.vector
           n == Len(fs)
           gs == Append(fs, f)
<1>1. v \in Vectors
  BY DEF Frames
<1>2. f.stage = EntryStage(v)
  OBVIOUS
<1> HIDE DEF v
<1>3. v = NoVector \/ v.chip \in {"master", "slave"}
  BY <1>1 DEF Vectors
<1>4. /\ v = NoVector => f.stage = "iret"
      /\ v # NoVector /\ v.line # DefaultIR => f.stage = "service"
      /\ v # NoVector /\ v.line = DefaultIR /\ v.chip = "slave"
           => f.stage = "eoiMaster"
      /\ v # NoVector /\ v.line = DefaultIR /\ v.chip # "slave"
           => f.stage = "iret"
  BY <1>2, <1>3 DEF EntryStage
<1>5. v.chip = "slave" => v # NoVector
  BY DEF NoVector
<1>6. Staged(f)
  BY <1>4, <1>5 DEF Staged, OwesMaster, OwesSlave, IsNmi, v
<1>7. /\ gs \in Seq(Frames) /\ n \in Nat
      /\ Len(gs) = n + 1 /\ gs[n + 1] = f
      /\ \A i \in 1 .. n : gs[i] = fs[i]
  BY FramePushed, LenProperties
<1> HIDE DEF n, gs
<1>8. \A i \in 1 .. Len(gs) : Staged(gs[i])
  <2>1. \A i \in 1 .. Len(gs) : i \in 1 .. n \/ i = n + 1
    BY <1>7
  <2> QED BY <1>6, <1>7, <2>1 DEF n
<1>9. /\ n + 1 \notin 1 .. n /\ n + 1 \in 1 .. n + 1
      /\ \A i \in (1 .. n) \ {n + 1} : i \in 1 .. n + 1
      /\ \A i \in (1 .. n + 1) \ {n + 1} : i \in 1 .. n
  BY <1>7
<1>10. /\ n + 1 \notin OwingMaster(fs) /\ n + 1 \notin OwingSlave(fs)
       /\ n + 1 \in OwingMaster(gs) <=> OwesMaster(v)
       /\ n + 1 \in OwingSlave(gs) <=> OwesSlave(v)
  <2>1. n + 1 \notin OwingMaster(fs) /\ n + 1 \notin OwingSlave(fs)
    BY <1>9 DEF OwingMaster, OwingSlave, n
  <2>2. n + 1 \in OwingMaster(gs) <=> OwesMaster(v)
    BY <1>2, <1>4, <1>5, <1>7, <1>9 DEF OwingMaster, OwesMaster, IsNmi, v
  <2>3. n + 1 \in OwingSlave(gs) <=> OwesSlave(v)
    BY <1>2, <1>4, <1>5, <1>7, <1>9 DEF OwingSlave, OwesSlave, IsNmi, v
  <2> QED BY <2>1, <2>2, <2>3
<1>11. /\ Cardinality(OwingMaster(gs)) + In(n + 1, OwingMaster(fs))
            = Cardinality(OwingMaster(fs)) + In(n + 1, OwingMaster(gs))
       /\ Cardinality(OwingSlave(gs)) + In(n + 1, OwingSlave(fs))
            = Cardinality(OwingSlave(fs)) + In(n + 1, OwingSlave(gs))
  <2>1. n + 1 \in Nat /\ Len(fs) = n
    BY <1>7 DEF n
  <2>2. /\ \A i \in (1 .. Len(fs)) \ {n + 1} :
              i \in 1 .. Len(gs) /\ gs[i] = fs[i]
        /\ \A i \in (1 .. Len(gs)) \ {n + 1} : i \in 1 .. Len(fs)
    BY <1>7, <1>9, <2>1
  <2> QED BY <1>7, <2>1, <2>2, TopCount, Zenon
<1>12. /\ In(n + 1, OwingMaster(fs)) = 0 /\ In(n + 1, OwingSlave(fs)) = 0
       /\ In(n + 1, OwingMaster(gs)) = One(OwesMaster(v))
       /\ In(n + 1, OwingSlave(gs)) = One(OwesSlave(v))
  BY <1>10 DEF In, One
<1>13. /\ Cardinality(OwingMaster(gs)) \in Nat /\ Cardinality(OwingSlave(gs)) \in Nat
  BY <1>7, OwingFinite
<1> QED BY <1>7, <1>8, <1>11, <1>12, <1>13 DEF n, v, gs

(* The next stage of the top handler.                                       *)
LEMMA StageCounts ==
  ASSUME NEW fs \in Seq(Frames), fs # <<>>,
         \A i \in 1 .. Len(fs) : Staged(fs[i]),
         NEW g \in Frames, Staged(g),
         g.vector = fs[Len(fs)].vector, g.pair = fs[Len(fs)].pair
  PROVE  LET gs == [fs EXCEPT ![Len(fs)] = g]
         IN  /\ gs \in Seq(Frames)
             /\ Len(gs) = Len(fs)
             /\ gs[Len(fs)] = g
             /\ \A i \in 1 .. Len(fs) :
                  gs[i].vector = fs[i].vector /\ gs[i].pair = fs[i].pair
             /\ \A i \in 1 .. Len(gs) : Staged(gs[i])
             /\ Cardinality(OwingMaster(gs)) + In(Len(fs), OwingMaster(fs))
                  = Cardinality(OwingMaster(fs)) + In(Len(fs), OwingMaster(gs))
             /\ Cardinality(OwingSlave(gs)) + In(Len(fs), OwingSlave(fs))
                  = Cardinality(OwingSlave(fs)) + In(Len(fs), OwingSlave(gs))
<1> DEFINE n == Len(fs)
           gs == [fs EXCEPT ![Len(fs)] = g]
<1>1. n \in 1 .. n /\ n \in Nat
  BY EmptySeq, LenProperties
<1>2. g.vector = fs[n].vector /\ g.pair = fs[n].pair
  OBVIOUS
<1>3. /\ gs \in Seq(Frames) /\ Len(gs) = n
      /\ \A i \in 1 .. n : gs[i] = IF i = n THEN g ELSE fs[i]
  BY FrameReplaced
<1> HIDE DEF n, gs
<1>4. \A i \in 1 .. n : gs[i].vector = fs[i].vector /\ gs[i].pair = fs[i].pair
  BY <1>2, <1>3
<1>5. \A i \in 1 .. Len(gs) : Staged(gs[i])
  BY <1>3 DEF n
<1>6. /\ \A i \in (1 .. Len(fs)) \ {n} : i \in 1 .. Len(gs) /\ gs[i] = fs[i]
      /\ \A i \in (1 .. Len(gs)) \ {n} : i \in 1 .. Len(fs)
  BY <1>3 DEF n
<1>7. /\ Cardinality(OwingMaster(gs)) + In(n, OwingMaster(fs))
           = Cardinality(OwingMaster(fs)) + In(n, OwingMaster(gs))
      /\ Cardinality(OwingSlave(gs)) + In(n, OwingSlave(fs))
           = Cardinality(OwingSlave(fs)) + In(n, OwingSlave(gs))
  <2>1. n \in Nat /\ gs \in Seq(Frames)
    BY <1>1, <1>3 DEF n
  <2> QED BY <1>6, <2>1, TopCount, Zenon
<1> QED BY <1>1, <1>3, <1>4, <1>5, <1>7 DEF n, gs

(* The return of a handler that has nothing left to end.                    *)
LEMMA PopCounts ==
  ASSUME NEW fs \in Seq(Frames), fs # <<>>,
         \A i \in 1 .. Len(fs) : Staged(fs[i]), fs[Len(fs)].stage = "iret"
  PROVE  /\ Front(fs) \in Seq(Frames)
         /\ Len(Front(fs)) = Len(fs) - 1
         /\ \A i \in 1 .. Len(fs) - 1 : Front(fs)[i] = fs[i]
         /\ \A i \in 1 .. Len(Front(fs)) : Staged(Front(fs)[i])
         /\ Cardinality(OwingMaster(Front(fs))) = Cardinality(OwingMaster(fs))
         /\ Cardinality(OwingSlave(Front(fs))) = Cardinality(OwingSlave(fs))
<1> DEFINE n == Len(fs)
           gs == Front(fs)
<1>1. /\ n \in 1 .. n /\ n \in Nat
      /\ gs \in Seq(Frames) /\ Len(gs) = n - 1
      /\ \A i \in 1 .. n - 1 : gs[i] = fs[i]
  BY FramePopped, LenProperties
<1> HIDE DEF gs, n
<1>2. /\ n \notin 1 .. n - 1 /\ 1 .. n - 1 \subseteq 1 .. n
      /\ \A i \in (1 .. n) \ {n} : i \in 1 .. n - 1
  BY <1>1
<1>3. \A i \in 1 .. Len(gs) : Staged(gs[i])
  BY <1>1, <1>2 DEF n
<1>4. /\ \A i \in (1 .. Len(fs)) \ {n} : i \in 1 .. Len(gs) /\ gs[i] = fs[i]
      /\ \A i \in (1 .. Len(gs)) \ {n} : i \in 1 .. Len(fs)
  BY <1>1, <1>2 DEF n
<1>5. /\ Cardinality(OwingMaster(gs)) + In(n, OwingMaster(fs))
           = Cardinality(OwingMaster(fs)) + In(n, OwingMaster(gs))
      /\ Cardinality(OwingSlave(gs)) + In(n, OwingSlave(fs))
           = Cardinality(OwingSlave(fs)) + In(n, OwingSlave(gs))
  BY <1>1, <1>4, TopCount
<1>6. /\ n \notin OwingMaster(fs) /\ n \notin OwingSlave(fs)
      /\ n \notin OwingMaster(gs) /\ n \notin OwingSlave(gs)
  <2>1. fs[n].stage = "iret"
    BY DEF n
  <2> QED BY <1>1, <1>2, <2>1 DEF OwingMaster, OwingSlave
<1>7. /\ In(n, OwingMaster(fs)) = 0 /\ In(n, OwingSlave(fs)) = 0
      /\ In(n, OwingMaster(gs)) = 0 /\ In(n, OwingSlave(gs)) = 0
  BY <1>6 DEF In
<1>8. /\ Cardinality(OwingMaster(gs)) = Cardinality(OwingMaster(fs))
      /\ Cardinality(OwingSlave(gs)) = Cardinality(OwingSlave(fs))
  BY <1>1, <1>5, <1>7, OwingFinite
<1> QED BY <1>1, <1>3, <1>8 DEF gs, n
----------------------------------------------------------------------------
(* The parts of a step.                                                     *)

(* Whatever the poll does to the slot, the account stays balanced.          *)
LEMMA PollAccount ==
  ASSUME IInv, NEW poll \in Polls, RecordLost(poll)
  PROVE  /\ WiredPair(poll.pic)
         /\ Slot(poll) \in Vectors
         /\ lost' \in [{"master", "slave"} -> Nat]
         /\ Accounted(poll.pic, frames, Slot(poll), lost')
<1> DEFINE v == poll.vector
           old == cpu.pendingIrq
           M == Cardinality(pic.master.isr)
           S == Cardinality(pic.slave.isr)
           M2 == Cardinality(poll.pic.master.isr)
           S2 == Cardinality(poll.pic.slave.isr)
           OM == Cardinality(OwingMaster(frames))
           OS == Cardinality(OwingSlave(frames))
<1>1. Served(pic, poll.pic, v)
  BY PollServes DEF IInv
<1>2. /\ M2 = M + One(OwesMaster(v)) /\ S2 = S + One(OwesSlave(v))
      /\ WiredPair(poll.pic) /\ v \in Vectors
  BY <1>1 DEF Served
<1>3. /\ M = OM + One(OwesMaster(old)) + lost["master"]
      /\ S = OS + One(OwesSlave(old)) + lost["slave"]
      /\ OM \in Nat /\ OS \in Nat
  BY OwingFinite DEF IInv, Accounted, FramesInv
<1>4. lost["master"] \in Nat /\ lost["slave"] \in Nat /\ old \in Vectors
  BY DEF IInv, CpuInv, Cpu
<1>5. /\ One(OwesMaster(old)) \in Nat /\ One(OwesSlave(old)) \in Nat
      /\ One(OwesMaster(v)) \in Nat /\ One(OwesSlave(v)) \in Nat
  BY DEF One
<1>6. /\ lost'["master"] = lost["master"]
           + (IF Overwritten(poll) /\ OwesMaster(old) THEN 1 ELSE 0)
      /\ lost'["slave"] = lost["slave"]
           + (IF Overwritten(poll) /\ OwesSlave(old) THEN 1 ELSE 0)
  BY DEF RecordLost
<1>7. lost' \in [{"master", "slave"} -> Nat]
  BY <1>4 DEF RecordLost
<1>8. Slot(poll) \in Vectors
  BY <1>2, <1>4 DEF Slot
<1>9. /\ One(OwesMaster(NoVector)) = 0 /\ One(OwesSlave(NoVector)) = 0
  BY NmiOwesNothing DEF One
<1>10. CASE v = NoVector
  <2>1. /\ Slot(poll) = old /\ ~Overwritten(poll)
    BY <1>10 DEF Slot, Overwritten
  <2>2. lost'["master"] = lost["master"] /\ lost'["slave"] = lost["slave"]
    BY <1>4, <1>6, <2>1
  <2>3. /\ M2 = OM + One(OwesMaster(old)) + lost'["master"]
        /\ S2 = OS + One(OwesSlave(old)) + lost'["slave"]
    <3> HIDE DEF M, S, M2, S2, OM, OS, v, old
    <3> QED BY <1>2, <1>3, <1>4, <1>5, <1>9, <1>10, <2>2
  <2> QED BY <1>2, <1>7, <1>8, <2>1, <2>3 DEF Accounted
<1>11. CASE v # NoVector
  <2>1. Slot(poll) = v
    BY <1>11 DEF Slot
  <2>2. /\ lost'["master"] = lost["master"] + One(OwesMaster(old))
        /\ lost'["slave"] = lost["slave"] + One(OwesSlave(old))
    <3>1. CASE old = NoVector
      <4>1. ~Overwritten(poll)
        BY <3>1 DEF Overwritten
      <4>2. One(OwesMaster(old)) = 0 /\ One(OwesSlave(old)) = 0
        BY <1>9, <3>1
      <4> QED BY <1>4, <1>6, <4>1, <4>2
    <3>2. CASE old # NoVector
      <4>1. Overwritten(poll)
        BY <1>11, <3>2 DEF Overwritten
      <4> QED BY <1>6, <4>1 DEF One
    <3> QED BY <3>1, <3>2
  <2>3. /\ M2 = OM + One(OwesMaster(v)) + lost'["master"]
        /\ S2 = OS + One(OwesSlave(v)) + lost'["slave"]
    <3> HIDE DEF M, S, M2, S2, OM, OS, v, old
    <3> QED BY <1>2, <1>3, <1>4, <1>5, <2>2
  <2> QED BY <1>2, <1>7, <1>8, <2>1, <2>3 DEF Accounted
<1> QED BY <1>10, <1>11

LEMMA RetiredType ==
  ASSUME NEW n \in 0 .. 2
  PROVE  Retired(n) \in 0 .. 2
BY DEF Retired

(* What every instruction leaves, whatever its own effect.                  *)
LEMMA Executed ==
  ASSUME IInv, NEW poll \in Polls, RecordLost(poll),
         NEW ifl \in BOOLEAN, NEW p \in Pairs, p # "fresh"
  PROVE  /\ WiredPair(poll.pic)
         /\ lost' \in [{"master", "slave"} -> Nat]
         /\ After(poll, ifl) \in Cpu
         /\ After(poll, ifl).pendingIrq = Slot(poll)
         /\ Accounted(poll.pic, frames, Slot(poll), lost')
         /\ cpu' = After(poll, ifl) /\ pair' = p => CpuInv'
<1>1. /\ WiredPair(poll.pic)
      /\ Slot(poll) \in Vectors
      /\ lost' \in [{"master", "slave"} -> Nat]
      /\ Accounted(poll.pic, frames, Slot(poll), lost')
  BY PollAccount
<1>2. cpu \in Cpu /\ cpu.shadow \in 0 .. 2
  BY DEF IInv, CpuInv, Cpu
<1>3. /\ After(poll, ifl) \in Cpu
      /\ After(poll, ifl).pendingIrq = Slot(poll)
  BY <1>1, <1>2, RetiredType DEF After, Cpu
<1>4. cpu' = After(poll, ifl) /\ pair' = p => CpuInv'
  BY <1>3 DEF CpuInv
<1> QED BY <1>1, <1>3, <1>4

(* A step that leaves the frames alone.                                     *)
LEMMA SameFrames ==
  ASSUME IInv, frames' = frames, WiredPair(pic'), CpuInv',
         out' \in [Devices -> BOOLEAN],
         lost' \in [{"master", "slave"} -> Nat],
         Accounted(pic', frames, cpu'.pendingIrq, lost')
  PROVE  IInv'
BY DEF IInv, FramesInv, SsPairUnsplit, IsNmi

(* The same service on both chips is the same account.                      *)
LEMMA AccountKept ==
  ASSUME NEW b, NEW d, NEW fs, NEW v, NEW gone, Accounted(b, fs, v, gone),
         d.master.isr = b.master.isr, d.slave.isr = b.slave.isr
  PROVE  Accounted(d, fs, v, gone)
BY DEF Accounted

----------------------------------------------------------------------------
(* The invariant is inductive.                                              *)

LEMMA ProgrammedWired ==
  ASSUME NEW b \in BOOLEAN
  PROVE  LET c == Programmed(ResetRole(b), Cascade)
         IN  /\ Wired(c) /\ c.isr = {} /\ c.isMaster = b
             /\ b => c.slaveMask = {Cascade}
             /\ ~b => c.slaveId = Cascade
<1> DEFINE c == Programmed(ResetRole(b), Cascade)
<1>1. /\ Sound(c) /\ c.initialized /\ ~c.single /\ c.isMaster = b
      /\ ~c.levelTriggered /\ c.elcr = {} /\ c.irr = {}
      /\ c.isr = {} /\ c.pins = {}
      /\ ~c.specialMask /\ ~c.autoEoi /\ ~c.specialFullyNested
      /\ b => c.slaveMask = {Cascade}
      /\ ~b => c.slaveId = Cascade
  BY CascadeType, ProgrammedFresh
<1> HIDE DEF c
<1> QED BY <1>1 DEF Wired, c

LEMMA InitInv == Init => IInv
<1> SUFFICES ASSUME Init
             PROVE  IInv
  OBVIOUS
<1>1. WiredPair(pic) /\ pic.master.isr = {} /\ pic.slave.isr = {}
  <2> DEFINE m == Programmed(ResetRole(TRUE), Cascade)
             s == Programmed(ResetRole(FALSE), Cascade)
  <2>1. Wired(m) /\ m.isr = {} /\ m.isMaster /\ m.slaveMask = {Cascade}
    BY ProgrammedWired
  <2>2. Wired(s) /\ s.isr = {} /\ ~s.isMaster /\ s.slaveId = Cascade
    BY ProgrammedWired
  <2>3. pic = [master |-> m, slave |-> s]
    BY DEF Init
  <2> HIDE DEF m, s
  <2> QED BY <2>1, <2>2, <2>3 DEF WiredPair, Pair, Wired, Sound
<1>2. CpuInv
  BY NmiOwesNothing DEF Init, CpuInv, Cpu, Pairs
<1>3. FramesInv /\ SsPairUnsplit
  BY DEF Init, FramesInv, SsPairUnsplit
<1>4. OwingMaster(frames) = {} /\ OwingSlave(frames) = {}
  BY DEF Init, OwingMaster, OwingSlave
<1>5. Accounted(pic, frames, cpu.pendingIrq, lost)
  <2>1. Cardinality({}) = 0
    BY FS_EmptySet
  <2>2. One(OwesMaster(NoVector)) = 0 /\ One(OwesSlave(NoVector)) = 0
    BY NmiOwesNothing DEF One
  <2>3. cpu.pendingIrq = NoVector
    BY DEF Init
  <2>4. lost["master"] = 0 /\ lost["slave"] = 0
    BY DEF Init
  <2> QED BY <1>1, <1>4, <2>1, <2>2, <2>3, <2>4 DEF Accounted
<1>6. out \in [Devices -> BOOLEAN] /\ lost \in [{"master", "slave"} -> Nat]
  BY DEF Init
<1> QED BY <1>1, <1>2, <1>3, <1>5, <1>6 DEF IInv

(* Entering a handler: the interrupt frame carries no fresh MOV SS pair     *)
(* unless an NMI is what it is for.                                         *)
LEMMA Entered ==
  ASSUME IInv, NEW v \in Vectors, Push(v), v # NoVector => cpu.shadow = 0
  PROVE  /\ FramesInv' /\ SsPairUnsplit' /\ pair' = "none"
         /\ Cardinality(OwingMaster(frames'))
              = Cardinality(OwingMaster(frames)) + One(OwesMaster(v))
         /\ Cardinality(OwingSlave(frames'))
              = Cardinality(OwingSlave(frames)) + One(OwesSlave(v))
<1> DEFINE n == Len(frames)
<1>1. /\ frames \in Seq(Frames) /\ \A i \in 1 .. n : Staged(frames[i])
      /\ cpu.ifl \in BOOLEAN /\ pair \in Pairs
  BY DEF IInv, FramesInv, CpuInv, Cpu
<1> DEFINE f == [vector |-> v, savedIf |-> cpu.ifl, pair |-> pair,
                 stage |-> EntryStage(v)]
<1>2. frames' = Append(frames, f) /\ pair' = "none"
  BY DEF Push
<1>3. /\ frames' \in Seq(Frames)
      /\ Len(frames') = n + 1
      /\ \A i \in 1 .. n : frames'[i] = frames[i]
      /\ frames'[n + 1].vector = v /\ frames'[n + 1].pair = pair
      /\ \A i \in 1 .. Len(frames') : Staged(frames'[i])
      /\ Cardinality(OwingMaster(frames'))
           = Cardinality(OwingMaster(frames)) + One(OwesMaster(v))
      /\ Cardinality(OwingSlave(frames'))
           = Cardinality(OwingSlave(frames)) + One(OwesSlave(v))
  <2>1. EntryStage(v) \in Stages
    BY DEF EntryStage, Stages
  <2>2. f \in Frames /\ f.vector = v /\ f.pair = pair
    BY <1>1, <2>1 DEF Frames
  <2>3. f.stage = EntryStage(f.vector)
    OBVIOUS
  <2> HIDE DEF f
  <2> QED BY <1>1, <1>2, <2>2, <2>3, PushCounts
<1>4. v # NoVector => pair # "fresh"
  BY DEF IInv, CpuInv
<1>5. ASSUME NEW i \in 1 .. Len(frames'), ~IsNmi(frames'[i])
      PROVE  frames'[i].pair # "fresh"
  <2>1. n \in Nat
    BY <1>1, LenProperties
  <2>2. CASE i = n + 1
    BY <1>3, <1>4, <1>5, <2>2 DEF IsNmi
  <2>3. CASE i # n + 1
    <3>1. i \in 1 .. n
      BY <1>3, <2>1, <2>3
    <3>2. frames'[i] = frames[i]
      BY <1>3, <3>1
    <3> QED BY <1>5, <3>1, <3>2 DEF IInv, SsPairUnsplit
  <2> QED BY <2>2, <2>3
<1>6. SsPairUnsplit'
  BY <1>5 DEF SsPairUnsplit, IsNmi
<1>7. FramesInv'
  BY <1>3 DEF FramesInv, Staged, IsNmi
<1> QED BY <1>2, <1>3, <1>6, <1>7

LEMMA NmiEnters == IInv /\ StepNmi => IInv'
<1> SUFFICES ASSUME IInv, StepNmi
             PROVE  IInv'
  OBVIOUS
<1>1. NoVector \in Vectors /\ Push(NoVector)
  BY NmiOwesNothing DEF StepNmi
<1>2. /\ FramesInv' /\ SsPairUnsplit' /\ pair' = "none"
      /\ Cardinality(OwingMaster(frames'))
           = Cardinality(OwingMaster(frames)) + One(OwesMaster(NoVector))
      /\ Cardinality(OwingSlave(frames'))
           = Cardinality(OwingSlave(frames)) + One(OwesSlave(NoVector))
  BY <1>1, Entered
<1>3. cpu' \in Cpu /\ cpu'.pendingIrq = cpu.pendingIrq
  BY DEF StepNmi, IInv, CpuInv, Cpu
<1>4. /\ Cardinality(OwingMaster(frames')) = Cardinality(OwingMaster(frames))
      /\ Cardinality(OwingSlave(frames')) = Cardinality(OwingSlave(frames))
  <2>1. One(OwesMaster(NoVector)) = 0 /\ One(OwesSlave(NoVector)) = 0
    BY NmiOwesNothing DEF One
  <2> QED BY <1>2, <2>1, OwingFinite DEF IInv, FramesInv
<1>5. /\ WiredPair(pic') /\ out' \in [Devices -> BOOLEAN]
      /\ lost' \in [{"master", "slave"} -> Nat]
  BY DEF StepNmi, IInv
<1>6. Accounted(pic', frames', cpu'.pendingIrq, lost')
  <2>1. pic' = pic /\ lost' = lost
    BY DEF StepNmi
  <2>2. Accounted(pic, frames, cpu.pendingIrq, lost)
    BY DEF IInv
  <2>3. Accounted(pic, frames', cpu.pendingIrq, lost)
    BY <1>4, <2>2 DEF Accounted
  <2> QED BY <1>3, <2>1, <2>3
<1>7. CpuInv'
  BY <1>2, <1>3 DEF CpuInv, Pairs
<1> QED BY <1>2, <1>5, <1>6, <1>7 DEF IInv

LEMMA IrqEnters == \A poll \in Polls : IInv /\ StepIrq(poll) => IInv'
<1> SUFFICES ASSUME IInv, NEW poll \in Polls, StepIrq(poll)
             PROVE  IInv'
  OBVIOUS
<1> DEFINE v == Slot(poll)
<1>1. RecordLost(poll) /\ Push(v) /\ pic' = poll.pic
  BY DEF StepIrq
<1>2. /\ WiredPair(poll.pic) /\ v \in Vectors
      /\ lost' \in [{"master", "slave"} -> Nat]
      /\ Accounted(poll.pic, frames, v, lost')
  BY <1>1, PollAccount
<1>3. cpu.shadow = 0
  BY DEF StepIrq, MayDeliver
<1> HIDE DEF v
<1>4. /\ FramesInv' /\ SsPairUnsplit' /\ pair' = "none"
      /\ Cardinality(OwingMaster(frames'))
           = Cardinality(OwingMaster(frames)) + One(OwesMaster(v))
      /\ Cardinality(OwingSlave(frames'))
           = Cardinality(OwingSlave(frames)) + One(OwesSlave(v))
  BY <1>1, <1>2, <1>3, Entered
<1>5. cpu' \in Cpu /\ cpu'.pendingIrq = NoVector
  BY NmiOwesNothing DEF StepIrq, IInv, CpuInv, Cpu
<1>6. /\ Cardinality(OwingMaster(frames)) \in Nat
      /\ Cardinality(OwingSlave(frames)) \in Nat
      /\ lost'["master"] \in Nat /\ lost'["slave"] \in Nat
      /\ One(OwesMaster(v)) \in Nat /\ One(OwesSlave(v)) \in Nat
  BY <1>2, OwingFinite DEF IInv, FramesInv, One
<1>7. One(OwesMaster(NoVector)) = 0 /\ One(OwesSlave(NoVector)) = 0
  BY NmiOwesNothing DEF One
<1>8. Accounted(poll.pic, frames', NoVector, lost')
  BY <1>2, <1>4, <1>6, <1>7 DEF Accounted
<1>9. Accounted(pic', frames', cpu'.pendingIrq, lost')
  BY <1>1, <1>5, <1>8
<1>10. CpuInv'
  BY <1>4, <1>5 DEF CpuInv, Pairs
<1>11. out' \in [Devices -> BOOLEAN]
  BY DEF StepIrq, IInv
<1> QED BY <1>1, <1>2, <1>4, <1>9, <1>10, <1>11 DEF IInv

(* An instruction that touches neither the chips nor the stack.             *)
LEMMA PlainSteps ==
  \A poll \in Polls :
    IInv /\ (StepHalted(poll) \/ Nop(poll) \/ Cli(poll) \/ Sti(poll)
             \/ Hlt(poll) \/ MovSs(poll)) => IInv'
<1> SUFFICES ASSUME IInv, NEW poll \in Polls,
                    \/ StepHalted(poll) \/ Nop(poll) \/ Cli(poll)
                    \/ Sti(poll) \/ Hlt(poll) \/ MovSs(poll)
             PROVE  IInv'
  OBVIOUS
<1>1. /\ RecordLost(poll) /\ pic' = poll.pic
      /\ out' = out /\ frames' = frames
  BY DEF StepHalted, Nop, Cli, Sti, Hlt, MovSs, Executes
<1>2. /\ WiredPair(poll.pic) /\ Slot(poll) \in Vectors
      /\ lost' \in [{"master", "slave"} -> Nat]
      /\ Accounted(poll.pic, frames, Slot(poll), lost')
  BY <1>1, PollAccount
<1>3. /\ cpu \in Cpu /\ pair \in Pairs
      /\ pair = "fresh" => cpu.shadow # 0
      /\ cpu.ifl \in BOOLEAN
  BY DEF IInv, CpuInv, Cpu
<1>4. "none" \in Pairs
  BY DEF Pairs
<1>5. CpuInv' /\ cpu'.pendingIrq = Slot(poll)
  <2>1. CASE StepHalted(poll)
    <3>1. cpu' = [cpu EXCEPT !.pendingIrq = Slot(poll)] /\ pair' = pair
      BY <2>1 DEF StepHalted
    <3>2. /\ cpu' \in Cpu /\ cpu'.pendingIrq = Slot(poll)
          /\ cpu'.shadow = cpu.shadow
      BY <1>2, <1>3, <3>1 DEF Cpu
    <3> QED BY <1>3, <3>1, <3>2 DEF CpuInv
  <2>2. ASSUME NEW ifl \in BOOLEAN, cpu' = After(poll, ifl), pair' = "none"
        PROVE  CpuInv' /\ cpu'.pendingIrq = Slot(poll)
    BY <1>1, <1>4, <2>2, Executed
  <2>3. CASE Nop(poll) \/ Cli(poll) \/ Sti(poll)
    BY <1>3, <2>2, <2>3 DEF Nop, Cli, Sti
  <2>4. After(poll, cpu.ifl) \in Cpu /\ After(poll, cpu.ifl).pendingIrq = Slot(poll)
    BY <1>1, <1>3, <1>4, Executed
  <2>5. CASE Hlt(poll)
    <3>1. /\ cpu' = [After(poll, cpu.ifl) EXCEPT !.halted = TRUE]
          /\ pair' = "none"
      BY <2>5 DEF Hlt
    <3>2. cpu' \in Cpu /\ cpu'.pendingIrq = Slot(poll)
      BY <2>4, <3>1 DEF Cpu
    <3> QED BY <1>4, <3>1, <3>2 DEF CpuInv
  <2>6. CASE MovSs(poll)
    <3>1. /\ cpu' = [After(poll, cpu.ifl) EXCEPT !.shadow = 1]
          /\ pair' = "fresh"
      BY <2>6 DEF MovSs, Retired, Armed
    <3>2. cpu' \in Cpu /\ cpu'.pendingIrq = Slot(poll) /\ cpu'.shadow = 1
      BY <2>4, <3>1 DEF Cpu
    <3>3. pair' \in Pairs /\ cpu'.shadow # 0
      BY <3>1, <3>2 DEF Pairs
    <3> QED BY <3>2, <3>3 DEF CpuInv
  <2> QED BY <2>1, <2>3, <2>5, <2>6
<1>6. out' \in [Devices -> BOOLEAN]
  BY <1>1 DEF IInv
<1> QED BY <1>1, <1>2, <1>5, <1>6, SameFrames

LEMMA ImrWired ==
  ASSUME NEW c, Wired(c), NEW mask \in SUBSET IR
  PROVE  /\ Wired(WriteImr(c, mask)) /\ SameRole(c, WriteImr(c, mask))
         /\ WriteImr(c, mask).isr = c.isr
<1> DEFINE e == WriteImr(c, mask)
<1>1. /\ e \in Chip /\ e.phase = c.phase /\ e.initialized = c.initialized
      /\ e.single = c.single /\ e.levelTriggered = c.levelTriggered
      /\ e.elcr = c.elcr /\ e.autoEoi = c.autoEoi
      /\ e.specialMask = c.specialMask
      /\ e.specialFullyNested = c.specialFullyNested
      /\ e.pins = c.pins /\ e.irr = c.irr /\ e.isr = c.isr
      /\ SameRole(c, e)
  BY DEF WriteImr, Wired, Sound, Chip, SameRole
<1> HIDE DEF e
<1>2. \A i : IsLevel(e, i) <=> IsLevel(c, i)
  BY <1>1 DEF IsLevel
<1>3. Sound(e)
  BY <1>1, <1>2 DEF Sound, Wired
<1>4. Wired(e)
  BY <1>1, <1>3 DEF Wired
<1> QED BY <1>1, <1>4 DEF e

(* A write to one chip of a pair, and the cascade that settles after it.    *)
LEMMA WriteWired ==
  ASSUME NEW b, WiredPair(b), NEW c, Wired(c)
  PROVE  /\ SameRole(b.master, c) =>
              LET d == SyncCascade([b EXCEPT !.master = c])
              IN  /\ WiredPair(d) /\ d.master.isr = c.isr
                  /\ d.slave.isr = b.slave.isr
         /\ SameRole(b.slave, c) =>
              LET d == SyncCascade([b EXCEPT !.slave = c])
              IN  /\ WiredPair(d) /\ d.slave.isr = c.isr
                  /\ d.master.isr = b.master.isr
<1>1. ASSUME SameRole(b.master, c)
      PROVE  LET d == SyncCascade([b EXCEPT !.master = c])
             IN  /\ WiredPair(d) /\ d.master.isr = c.isr
                 /\ d.slave.isr = b.slave.isr
  <2> DEFINE e == [b EXCEPT !.master = c]
  <2>1. e = [master |-> c, slave |-> b.slave]
    BY PairShape
  <2> HIDE DEF e
  <2>2. WiredPair(e) /\ e.master = c /\ e.slave = b.slave
    BY <1>1, <2>1, PairShape, PairWired
  <2>3. Kept(e, SyncCascade(e))
    BY <2>2, SyncWired
  <2> QED BY <2>2, <2>3 DEF Kept, e
<1>2. ASSUME SameRole(b.slave, c)
      PROVE  LET d == SyncCascade([b EXCEPT !.slave = c])
             IN  /\ WiredPair(d) /\ d.slave.isr = c.isr
                 /\ d.master.isr = b.master.isr
  <2> DEFINE e == [b EXCEPT !.slave = c]
  <2>1. e = [master |-> b.master, slave |-> c]
    BY PairShape
  <2> HIDE DEF e
  <2>2. WiredPair(e) /\ e.master = b.master /\ e.slave = c
    BY <1>2, <2>1, PairShape, PairWired
  <2>3. Kept(e, SyncCascade(e))
    BY <2>2, SyncWired
  <2> QED BY <2>2, <2>3 DEF Kept, e
<1> QED BY <1>1, <1>2

LEMMA ImrStep == \A poll \in Polls : IInv /\ OutImr(poll) => IInv'
<1> SUFFICES ASSUME IInv, NEW poll \in Polls, OutImr(poll)
             PROVE  IInv'
  OBVIOUS
<1>1. PICK mask \in MasterImrs :
        pic' = SyncCascade([poll.pic EXCEPT
                              !.master = WriteImr(poll.pic.master, mask)])
  BY DEF OutImr
<1>2. /\ RecordLost(poll) /\ out' = out /\ frames' = frames
      /\ cpu' = After(poll, cpu.ifl) /\ pair' = "none"
  BY DEF OutImr, Executes
<1>3. cpu.ifl \in BOOLEAN /\ "none" \in Pairs
  BY DEF IInv, CpuInv, Cpu, Pairs
<1>4. /\ WiredPair(poll.pic)
      /\ lost' \in [{"master", "slave"} -> Nat]
      /\ After(poll, cpu.ifl).pendingIrq = Slot(poll)
      /\ Accounted(poll.pic, frames, Slot(poll), lost')
      /\ CpuInv'
  BY <1>2, <1>3, Executed
<1>5. mask \in SUBSET IR
  BY IrqAssumption
<1>6. /\ Wired(WriteImr(poll.pic.master, mask))
      /\ SameRole(poll.pic.master, WriteImr(poll.pic.master, mask))
      /\ WriteImr(poll.pic.master, mask).isr = poll.pic.master.isr
  BY <1>4, <1>5, ImrWired DEF WiredPair
<1>7. /\ WiredPair(pic')
      /\ pic'.master.isr = poll.pic.master.isr
      /\ pic'.slave.isr = poll.pic.slave.isr
  BY <1>1, <1>4, <1>6, WriteWired
<1>8. Accounted(pic', frames, cpu'.pendingIrq, lost')
  BY <1>2, <1>4, <1>7, AccountKept
<1>9. out' \in [Devices -> BOOLEAN]
  BY <1>2 DEF IInv
<1> QED BY <1>2, <1>4, <1>7, <1>8, <1>9, SameFrames

LEMMA TopStaged ==
  ASSUME IInv, InHandler
  PROVE  /\ Len(frames) \in 1 .. Len(frames) /\ Len(frames) \in Nat
         /\ Top \in Frames /\ Staged(Top)
<1>1. frames \in Seq(Frames) /\ frames # <<>>
  BY DEF IInv, FramesInv, InHandler
<1>2. /\ Len(frames) \in 1 .. Len(frames) /\ Len(frames) \in Nat
      /\ frames[Len(frames)] \in Frames
  BY <1>1, EmptySeq, LenProperties
<1> QED BY <1>2 DEF IInv, FramesInv, Top

(* The top handler goes on to its next stage.                               *)
LEMMA Advanced ==
  ASSUME IInv, InHandler, NEW g \in Frames, Staged(g),
         g.vector = Top.vector, g.pair = Top.pair,
         frames' = [frames EXCEPT ![Len(frames)] = g]
  PROVE  /\ FramesInv' /\ SsPairUnsplit'
         /\ Len(frames') = Len(frames) /\ frames'[Len(frames)] = g
         /\ LET n == Len(frames)
            IN  /\ Cardinality(OwingMaster(frames')) + In(n, OwingMaster(frames))
                     = Cardinality(OwingMaster(frames))
                       + In(n, OwingMaster(frames'))
                /\ Cardinality(OwingSlave(frames')) + In(n, OwingSlave(frames))
                     = Cardinality(OwingSlave(frames))
                       + In(n, OwingSlave(frames'))
<1> DEFINE n == Len(frames)
           gs == [frames EXCEPT ![Len(frames)] = g]
<1>1. /\ frames \in Seq(Frames) /\ frames # <<>>
      /\ \A i \in 1 .. Len(frames) : Staged(frames[i])
  BY DEF IInv, FramesInv, InHandler
<1>2. /\ g.vector = frames[Len(frames)].vector
      /\ g.pair = frames[Len(frames)].pair
  BY DEF Top
<1>3. frames' = gs
  OBVIOUS
<1>4. /\ gs \in Seq(Frames) /\ Len(gs) = Len(frames) /\ gs[Len(frames)] = g
      /\ \A i \in 1 .. Len(frames) :
           gs[i].vector = frames[i].vector /\ gs[i].pair = frames[i].pair
      /\ \A i \in 1 .. Len(gs) : Staged(gs[i])
      /\ Cardinality(OwingMaster(gs)) + In(Len(frames), OwingMaster(frames))
           = Cardinality(OwingMaster(frames)) + In(Len(frames), OwingMaster(gs))
      /\ Cardinality(OwingSlave(gs)) + In(Len(frames), OwingSlave(frames))
           = Cardinality(OwingSlave(frames)) + In(Len(frames), OwingSlave(gs))
  BY <1>1, <1>2, StageCounts
<1> HIDE DEF gs
<1>5. FramesInv'
  BY <1>3, <1>4 DEF FramesInv, Staged, IsNmi
<1>6. SsPairUnsplit'
  <2>1. ASSUME NEW i \in 1 .. Len(gs), ~IsNmi(gs[i])
        PROVE  gs[i].pair # "fresh"
    BY <1>4, <2>1 DEF IInv, SsPairUnsplit, IsNmi
  <2> QED BY <1>3, <2>1 DEF SsPairUnsplit, IsNmi
<1> QED BY <1>3, <1>4, <1>5, <1>6

LEMMA ServiceStep == \A poll \in Polls : IInv /\ ServiceDevice(poll) => IInv'
<1> SUFFICES ASSUME IInv, NEW poll \in Polls, ServiceDevice(poll)
             PROVE  IInv'
  OBVIOUS
<1> DEFINE stage == IF OwesSlave(Top.vector) THEN "eoiSlave" ELSE "eoiMaster"
           n == Len(frames)
           g == [Top EXCEPT !.stage = stage]
<1>1. /\ RecordLost(poll) /\ InHandler /\ Top.stage = "service"
      /\ SetStage(stage) /\ pic' = poll.pic
      /\ cpu' = After(poll, cpu.ifl) /\ pair' = "none"
  BY DEF ServiceDevice, Executes
<1>2. out' \in [Devices -> BOOLEAN]
  BY DEF ServiceDevice
<1>3. cpu.ifl \in BOOLEAN /\ "none" \in Pairs
  BY DEF IInv, CpuInv, Cpu, Pairs
<1>4. /\ WiredPair(poll.pic)
      /\ lost' \in [{"master", "slave"} -> Nat]
      /\ After(poll, cpu.ifl).pendingIrq = Slot(poll)
      /\ Accounted(poll.pic, frames, Slot(poll), lost')
      /\ CpuInv'
  BY <1>1, <1>3, Executed
<1>5. Top \in Frames /\ Staged(Top) /\ n \in 1 .. n /\ n \in Nat
  BY <1>1, TopStaged
<1>6. Top.vector # NoVector /\ OwesMaster(Top.vector)
  <2>1. Top.vector # NoVector /\ Top.vector.line # DefaultIR
    BY <1>1, <1>5 DEF Staged, IsNmi
  <2> QED BY <2>1 DEF OwesMaster
<1>7. stage \in Stages
  BY DEF Stages
<1>8. /\ g \in Frames /\ g.vector = Top.vector /\ g.pair = Top.pair
      /\ g.stage = stage
  BY <1>5, <1>7 DEF Frames
<1>9. Staged(g)
  <2>1. CASE OwesSlave(Top.vector)
    BY <1>8, <2>1 DEF Staged
  <2>2. CASE ~OwesSlave(Top.vector)
    BY <1>6, <1>8, <2>2 DEF Staged
  <2> QED BY <2>1, <2>2
<1> HIDE DEF g
<1>10. /\ FramesInv' /\ SsPairUnsplit'
       /\ Len(frames') = n /\ frames'[n] = g
       /\ Cardinality(OwingMaster(frames')) + In(n, OwingMaster(frames))
            = Cardinality(OwingMaster(frames)) + In(n, OwingMaster(frames'))
       /\ Cardinality(OwingSlave(frames')) + In(n, OwingSlave(frames))
            = Cardinality(OwingSlave(frames)) + In(n, OwingSlave(frames'))
  <2>1. frames' = [frames EXCEPT ![Len(frames)] = g]
    BY <1>1 DEF SetStage, g, Top
  <2> QED BY <1>1, <1>8, <1>9, <2>1, Advanced
<1>11. /\ In(n, OwingMaster(frames')) = In(n, OwingMaster(frames))
       /\ In(n, OwingSlave(frames')) = In(n, OwingSlave(frames))
  <2>1. n \in OwingMaster(frames) /\ n \in OwingMaster(frames')
    BY <1>1, <1>5, <1>6, <1>8, <1>10 DEF OwingMaster, IsNmi, Top
  <2>2. n \in OwingSlave(frames) <=> OwesSlave(Top.vector)
    BY <1>1, <1>5, <1>6 DEF OwingSlave, IsNmi, Top
  <2>3. n \in OwingSlave(frames') <=> OwesSlave(Top.vector)
    BY <1>5, <1>6, <1>8, <1>10 DEF OwingSlave, IsNmi
  <2> QED BY <2>1, <2>2, <2>3 DEF In
<1>12. /\ Cardinality(OwingMaster(frames')) = Cardinality(OwingMaster(frames))
       /\ Cardinality(OwingSlave(frames')) = Cardinality(OwingSlave(frames))
  <2>1. In(n, OwingMaster(frames)) \in Nat /\ In(n, OwingSlave(frames)) \in Nat
    BY DEF In
  <2>2. frames \in Seq(Frames) /\ frames' \in Seq(Frames)
    BY <1>10 DEF IInv, FramesInv
  <2>3. /\ Cardinality(OwingMaster(frames)) \in Nat
        /\ Cardinality(OwingSlave(frames)) \in Nat
        /\ Cardinality(OwingMaster(frames')) \in Nat
        /\ Cardinality(OwingSlave(frames')) \in Nat
    BY <2>2, OwingFinite
  <2> QED BY <1>10, <1>11, <2>1, <2>3
<1>13. Accounted(pic', frames', cpu'.pendingIrq, lost')
  <2>1. Accounted(poll.pic, frames', Slot(poll), lost')
    BY <1>4, <1>12 DEF Accounted
  <2> QED BY <1>1, <1>4, <2>1
<1> QED BY <1>1, <1>2, <1>4, <1>10, <1>13 DEF IInv

(* The handler's EOI to a chip ends one bit there, and is owed one.         *)
LEMMA EoiStep ==
  \A poll \in Polls, chip \in {"master", "slave"} :
    IInv /\ OutEoi(chip, poll) => IInv'
<1> SUFFICES ASSUME IInv, NEW poll \in Polls,
                    NEW chip \in {"master", "slave"}, OutEoi(chip, poll)
             PROVE  IInv'
  OBVIOUS
<1> DEFINE stage == IF chip = "master" THEN "iret" ELSE "eoiMaster"
           n == Len(frames)
           g == [Top EXCEPT !.stage = stage]
           b == poll.pic
           OM == Cardinality(OwingMaster(frames))
           OM2 == Cardinality(OwingMaster(frames'))
           OS == Cardinality(OwingSlave(frames))
           OS2 == Cardinality(OwingSlave(frames'))
<1>1. /\ RecordLost(poll) /\ InHandler /\ SetStage(stage)
      /\ Top.stage = IF chip = "master" THEN "eoiMaster" ELSE "eoiSlave"
      /\ pic' = SyncCascade([b EXCEPT ![chip] = NonSpecificEoi(@, FALSE)])
      /\ cpu' = After(poll, cpu.ifl) /\ pair' = "none" /\ out' = out
  BY DEF OutEoi, Executes, Ocw2
<1>2. cpu.ifl \in BOOLEAN /\ "none" \in Pairs /\ out' \in [Devices -> BOOLEAN]
  BY <1>1 DEF IInv, CpuInv, Cpu, Pairs
<1>3. /\ WiredPair(b)
      /\ lost' \in [{"master", "slave"} -> Nat]
      /\ After(poll, cpu.ifl).pendingIrq = Slot(poll)
      /\ Accounted(b, frames, Slot(poll), lost')
      /\ CpuInv'
  BY <1>1, <1>2, Executed
<1>4. Top \in Frames /\ Staged(Top) /\ n \in 1 .. n /\ n \in Nat
  BY <1>1, TopStaged
<1>5. /\ Top.vector # NoVector /\ OwesMaster(Top.vector)
      /\ chip = "slave" => OwesSlave(Top.vector)
  BY <1>1, <1>4 DEF Staged, OwesMaster, OwesSlave, NoVector
<1>6. stage \in Stages
  BY DEF Stages
<1>7. /\ g \in Frames /\ g.vector = Top.vector /\ g.pair = Top.pair
      /\ g.stage = stage
  BY <1>4, <1>6 DEF Frames
<1>8. Staged(g)
  BY <1>5, <1>7 DEF Staged
<1> HIDE DEF g
<1>9. /\ FramesInv' /\ SsPairUnsplit'
      /\ Len(frames') = n /\ frames'[n] = g
      /\ OM2 + In(n, OwingMaster(frames)) = OM + In(n, OwingMaster(frames'))
      /\ OS2 + In(n, OwingSlave(frames)) = OS + In(n, OwingSlave(frames'))
  <2>1. frames' = [frames EXCEPT ![Len(frames)] = g]
    BY <1>1 DEF SetStage, g, Top
  <2> QED BY <1>1, <1>7, <1>8, <2>1, Advanced
<1>10. OM \in Nat /\ OS \in Nat /\ OM2 \in Nat /\ OS2 \in Nat
  BY <1>9, OwingFinite DEF IInv, FramesInv
<1>11. /\ Cardinality(b.master.isr)
            = OM + One(OwesMaster(Slot(poll))) + lost'["master"]
       /\ Cardinality(b.slave.isr)
            = OS + One(OwesSlave(Slot(poll))) + lost'["slave"]
       /\ lost'["master"] \in Nat /\ lost'["slave"] \in Nat
       /\ One(OwesMaster(Slot(poll))) \in Nat
       /\ One(OwesSlave(Slot(poll))) \in Nat
  BY <1>3 DEF Accounted, One
<1>12. CASE chip = "master"
  <2> DEFINE e == NonSpecificEoi(b.master, FALSE)
  <2>1. Top.stage = "eoiMaster" /\ g.stage = "iret"
    BY <1>1, <1>7, <1>12
  <2>2. n \in OwingMaster(frames) /\ n \notin OwingMaster(frames')
    BY <1>4, <1>5, <1>9, <2>1 DEF OwingMaster, IsNmi, Top
  <2>3. n \notin OwingSlave(frames) /\ n \notin OwingSlave(frames')
    BY <1>4, <1>9, <2>1 DEF OwingSlave, Top
  <2>4. OM2 = OM - 1 /\ OS2 = OS
    BY <1>9, <1>10, <2>2, <2>3 DEF In
  <2>5. b.master.isr # {}
    <3>1. Cardinality(b.master.isr) # 0
      BY <1>10, <1>11, <2>4
    <3> QED BY <3>1, FS_EmptySet
  <2>6. /\ Wired(e) /\ SameRole(b.master, e)
        /\ Cardinality(e.isr) = Cardinality(b.master.isr) - 1
    BY <1>3, <2>5, EoiWired DEF WiredPair
  <2>7. pic' = SyncCascade([b EXCEPT !.master = e])
    BY <1>1, <1>12
  <2> HIDE DEF e
  <2>8. WiredPair(pic') /\ pic'.master.isr = e.isr /\ pic'.slave.isr = b.slave.isr
    <3> DEFINE d == SyncCascade([b EXCEPT !.master = e])
    <3>1. WiredPair(b) /\ Wired(e) /\ SameRole(b.master, e)
      BY <1>3, <2>6
    <3> HIDE DEF b
    <3>2. WiredPair(d) /\ d.master.isr = e.isr /\ d.slave.isr = b.slave.isr
      BY <3>1, WriteWired
    <3> QED BY <2>7, <3>2
  <2>9. Accounted(pic', frames', Slot(poll), lost')
    BY <1>10, <1>11, <2>4, <2>6, <2>8 DEF Accounted
  <2> QED BY <1>1, <1>2, <1>3, <1>9, <2>8, <2>9 DEF IInv
<1>13. CASE chip = "slave"
  <2> DEFINE e == NonSpecificEoi(b.slave, FALSE)
  <2>1. Top.stage = "eoiSlave" /\ g.stage = "eoiMaster"
    BY <1>1, <1>7, <1>13
  <2>2. n \in OwingSlave(frames) /\ n \notin OwingSlave(frames')
    BY <1>4, <1>5, <1>9, <1>13, <2>1 DEF OwingSlave, IsNmi, Top
  <2>3. n \in OwingMaster(frames) /\ n \in OwingMaster(frames')
    BY <1>4, <1>5, <1>7, <1>9, <2>1 DEF OwingMaster, IsNmi, Top
  <2>4. OM2 = OM /\ OS2 = OS - 1
    BY <1>9, <1>10, <2>2, <2>3 DEF In
  <2>5. b.slave.isr # {}
    <3>1. Cardinality(b.slave.isr) # 0
      BY <1>10, <1>11, <2>4
    <3> QED BY <3>1, FS_EmptySet
  <2>6. /\ Wired(e) /\ SameRole(b.slave, e)
        /\ Cardinality(e.isr) = Cardinality(b.slave.isr) - 1
    BY <1>3, <2>5, EoiWired DEF WiredPair
  <2>7. pic' = SyncCascade([b EXCEPT !.slave = e])
    BY <1>1, <1>13
  <2> HIDE DEF e
  <2>8. WiredPair(pic') /\ pic'.slave.isr = e.isr /\ pic'.master.isr = b.master.isr
    <3> DEFINE d == SyncCascade([b EXCEPT !.slave = e])
    <3>1. WiredPair(b) /\ Wired(e) /\ SameRole(b.slave, e)
      BY <1>3, <2>6
    <3> HIDE DEF b
    <3>2. WiredPair(d) /\ d.slave.isr = e.isr /\ d.master.isr = b.master.isr
      BY <3>1, WriteWired
    <3> QED BY <2>7, <3>2
  <2>9. Accounted(pic', frames', Slot(poll), lost')
    BY <1>10, <1>11, <2>4, <2>6, <2>8 DEF Accounted
  <2> QED BY <1>1, <1>2, <1>3, <1>9, <2>8, <2>9 DEF IInv
<1> QED BY <1>12, <1>13

LEMMA IretStep == \A poll \in Polls : IInv /\ Iret(poll) => IInv'
<1> SUFFICES ASSUME IInv, NEW poll \in Polls, Iret(poll)
             PROVE  IInv'
  OBVIOUS
<1> DEFINE n == Len(frames)
           p == IF Top.pair = "none" THEN "none" ELSE "split"
           gs == Front(frames)
<1>1. /\ RecordLost(poll) /\ InHandler /\ Top.stage = "iret"
      /\ frames' = gs /\ pair' = p /\ pic' = poll.pic
      /\ cpu' = After(poll, Top.savedIf) /\ out' = out
  BY DEF Iret, Executes
<1>2. Top \in Frames /\ n \in Nat
  BY <1>1, TopStaged
<1>3. Top.savedIf \in BOOLEAN /\ p \in Pairs /\ p # "fresh"
  BY <1>2 DEF Frames, Pairs
<1> HIDE DEF p
<1>4. /\ WiredPair(poll.pic)
      /\ lost' \in [{"master", "slave"} -> Nat]
      /\ After(poll, Top.savedIf).pendingIrq = Slot(poll)
      /\ Accounted(poll.pic, frames, Slot(poll), lost')
      /\ CpuInv'
  BY <1>1, <1>3, Executed
<1>5. /\ frames \in Seq(Frames) /\ frames # <<>>
      /\ \A i \in 1 .. Len(frames) : Staged(frames[i])
      /\ frames[Len(frames)].stage = "iret"
  BY <1>1 DEF IInv, FramesInv, InHandler, Top
<1>6. /\ Front(frames) \in Seq(Frames)
      /\ Len(Front(frames)) = Len(frames) - 1
      /\ \A i \in 1 .. Len(frames) - 1 : Front(frames)[i] = frames[i]
      /\ \A i \in 1 .. Len(Front(frames)) : Staged(Front(frames)[i])
      /\ Cardinality(OwingMaster(Front(frames))) = Cardinality(OwingMaster(frames))
      /\ Cardinality(OwingSlave(Front(frames))) = Cardinality(OwingSlave(frames))
  BY <1>5, PopCounts
<1> HIDE DEF gs
<1>7. /\ gs \in Seq(Frames) /\ Len(gs) = n - 1
      /\ \A i \in 1 .. n - 1 : gs[i] = frames[i]
      /\ \A i \in 1 .. Len(gs) : Staged(gs[i])
      /\ Cardinality(OwingMaster(gs)) = Cardinality(OwingMaster(frames))
      /\ Cardinality(OwingSlave(gs)) = Cardinality(OwingSlave(frames))
  BY <1>6 DEF gs
<1>8. FramesInv'
  BY <1>1, <1>7 DEF FramesInv, Staged, IsNmi
<1>9. SsPairUnsplit'
  <2>1. ASSUME NEW i \in 1 .. Len(gs), ~IsNmi(gs[i])
        PROVE  gs[i].pair # "fresh"
    <3>1. i \in 1 .. Len(frames) /\ gs[i] = frames[i]
      BY <1>2, <1>7
    <3> QED BY <2>1, <3>1 DEF IInv, SsPairUnsplit
  <2> QED BY <1>1, <2>1 DEF SsPairUnsplit, IsNmi
<1>10. Accounted(pic', frames', cpu'.pendingIrq, lost')
  <2>1. Accounted(poll.pic, gs, Slot(poll), lost')
    BY <1>4, <1>7 DEF Accounted
  <2> QED BY <1>1, <1>4, <2>1
<1>11. out' \in [Devices -> BOOLEAN]
  BY <1>1 DEF IInv
<1> QED BY <1>1, <1>4, <1>8, <1>9, <1>10, <1>11 DEF IInv

(* The host's moves: no device changes what is in service.                  *)
LEMMA DeviceSteps ==
  IInv /\ (\/ \E dev \in Devices : DeviceRaise(dev)
           \/ \E dev \in Timers : TickRising(dev) \/ TickFalling(dev)
           \/ InjectNmi) => IInv'
<1> SUFFICES ASSUME IInv,
                    \/ \E dev \in Devices : DeviceRaise(dev)
                    \/ \E dev \in Timers : TickRising(dev) \/ TickFalling(dev)
                    \/ InjectNmi
             PROVE  IInv'
  OBVIOUS
<1>1. /\ frames' = frames /\ pair' = pair /\ lost' = lost
      /\ cpu'.pendingIrq = cpu.pendingIrq /\ cpu'.shadow = cpu.shadow
      /\ cpu' \in Cpu
  <2>1. cpu' = cpu \/ cpu' = [cpu EXCEPT !.pendingNmi = TRUE]
    BY DEF DeviceRaise, TickRising, TickFalling, InjectNmi
  <2>2. frames' = frames /\ pair' = pair /\ lost' = lost
    BY DEF DeviceRaise, TickRising, TickFalling, InjectNmi
  <2>3. cpu \in Cpu
    BY DEF IInv, CpuInv
  <2>4. /\ cpu'.pendingIrq = cpu.pendingIrq /\ cpu'.shadow = cpu.shadow
        /\ cpu' \in Cpu
    BY <2>1, <2>3 DEF Cpu
  <2> QED BY <2>2, <2>4
<1>2. out' \in [Devices -> BOOLEAN]
  BY DEF IInv, DeviceRaise, TickRising, TickFalling, InjectNmi
<1>3. Kept(pic, pic')
  <2>1. WiredPair(pic) /\ Timers \subseteq Devices /\ Kept(pic, pic)
    BY IrqAssumption DEF IInv, Kept
  <2>2. ASSUME NEW dev \in Timers, TickRising(dev)
        PROVE  Kept(pic, pic')
    <3> DEFINE d == Drive(pic, dev, FALSE)
    <3>1. Kept(pic, d)
      BY <2>1, DriveWired
    <3> HIDE DEF d
    <3>2. Kept(d, Drive(d, dev, TRUE))
      BY <2>1, <3>1, DriveWired DEF Kept
    <3>3. pic' = Drive(d, dev, TRUE)
      BY <2>2 DEF TickRising, d
    <3> QED BY <3>1, <3>2, <3>3, KeptTransitive
  <2>3. ASSUME NEW dev \in Timers, TickFalling(dev)
        PROVE  Kept(pic, pic')
    BY <2>1, <2>3, DriveWired DEF TickFalling
  <2>4. CASE pic' = pic
    BY <2>1, <2>4
  <2> QED BY <2>2, <2>3, <2>4 DEF DeviceRaise, InjectNmi
<1>4. Accounted(pic', frames, cpu.pendingIrq, lost)
  BY <1>3, AccountKept DEF IInv, Kept
<1>5. CpuInv'
  BY <1>1 DEF IInv, CpuInv
<1>6. Accounted(pic', frames, cpu'.pendingIrq, lost')
  BY <1>1, <1>4
<1>7. WiredPair(pic') /\ lost' \in [{"master", "slave"} -> Nat]
  BY <1>1, <1>3 DEF IInv, Kept
<1> QED BY <1>1, <1>2, <1>5, <1>6, <1>7, SameFrames

LEMMA NextInv == IInv /\ [Next]_vars => IInv'
<1> SUFFICES ASSUME IInv, [Next]_vars
             PROVE  IInv'
  OBVIOUS
<1>1. CASE StepNmi
  BY <1>1, NmiEnters
<1>2. ASSUME NEW poll \in Polls, StepPolled(poll)
      PROVE  IInv'
  BY <1>2, IrqEnters, PlainSteps, ImrStep, ServiceStep, EoiStep, IretStep
     DEF StepPolled
<1>3. CASE \/ \E dev \in Devices : DeviceRaise(dev)
           \/ \E dev \in Timers : TickRising(dev) \/ TickFalling(dev)
           \/ InjectNmi
  BY <1>3, DeviceSteps
<1>4. CASE UNCHANGED vars
  <2>1. /\ pic' = pic /\ out' = out /\ cpu' = cpu /\ frames' = frames
        /\ pair' = pair /\ lost' = lost
    BY <1>4 DEF vars
  <2>2. WiredPair(pic') /\ CpuInv'
    BY <2>1 DEF IInv, CpuInv
  <2>3. /\ out' \in [Devices -> BOOLEAN]
        /\ lost' \in [{"master", "slave"} -> Nat]
        /\ Accounted(pic', frames, cpu'.pendingIrq, lost')
    BY <2>1 DEF IInv
  <2> QED BY <2>1, <2>2, <2>3, SameFrames
<1> QED BY <1>1, <1>2, <1>3, <1>4 DEF Next, Step

LEMMA Inductive == Spec => []IInv
BY InitInv, NextInv, PTL DEF Spec

----------------------------------------------------------------------------
(* TypeOK: the state is well typed, and never are more vectors lost than    *)
(* there are inputs: the account leaves each one a bit still in service.    *)
THEOREM TypeCorrect == Spec => []TypeOK
<1>1. IInv => TypeOK
  <2> SUFFICES ASSUME IInv
               PROVE  TypeOK
    OBVIOUS
  <2>1. /\ Cardinality(pic.master.isr) \in 0 .. NIR
        /\ Cardinality(pic.slave.isr) \in 0 .. NIR
    BY FiniteInputs DEF IInv, WiredPair, Wired, Sound, Chip
  <2>2. /\ Cardinality(OwingMaster(frames)) \in Nat
        /\ Cardinality(OwingSlave(frames)) \in Nat
        /\ One(OwesMaster(cpu.pendingIrq)) \in Nat
        /\ One(OwesSlave(cpu.pendingIrq)) \in Nat
        /\ lost["master"] \in Nat /\ lost["slave"] \in Nat
    BY OwingFinite DEF IInv, FramesInv, One
  <2>3. lost["master"] \in 0 .. NIR /\ lost["slave"] \in 0 .. NIR
    BY <2>1, <2>2 DEF IInv, Accounted
  <2>4. lost \in [{"master", "slave"} -> 0 .. NIR]
    BY <2>3 DEF IInv
  <2> QED BY <2>4 DEF IInv, TypeOK, WiredPair, CpuInv, FramesInv
<1> QED BY <1>1, Inductive, PTL

(* ServiceAccounted: every in-service bit is owed exactly one EOI, however  *)
(* handlers nest and whatever the eager acknowledges overwrite.             *)
THEOREM EoisBalance == Spec => []ServiceAccounted
<1>1. IInv => ServiceAccounted
  <2> SUFFICES ASSUME IInv
               PROVE  ServiceAccounted
    OBVIOUS
  <2>1. /\ {i \in Handlers({"service", "eoiSlave", "eoiMaster"}) :
              OwesMaster(frames[i].vector)} = OwingMaster(frames)
        /\ {i \in Handlers({"service", "eoiSlave"}) :
              OwesSlave(frames[i].vector)} = OwingSlave(frames)
    BY DEF Handlers, OwingMaster, OwingSlave
  <2> QED BY <2>1 DEF IInv, Accounted, ServiceAccounted, One
<1> QED BY <1>1, Inductive, PTL

(* SsPairUnsplit: a maskable interrupt comes between MOV SS and the         *)
(* instruction after it only where an NMI came first.                       *)
THEOREM PairsStayWhole == Spec => []SsPairUnsplit
<1>1. IInv => SsPairUnsplit
  BY DEF IInv
<1> QED BY <1>1, Inductive, PTL
=============================================================================
