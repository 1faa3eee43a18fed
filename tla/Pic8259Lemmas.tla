--------------------------- MODULE Pic8259Lemmas ---------------------------
(***************************************************************************)
(* What the operators of Pic8259 do to one chip and to the cascaded pair,  *)
(* for every number of inputs: the lemmas the proofs about the pair and    *)
(* about interrupt delivery share.                                         *)
(***************************************************************************)
EXTENDS Pic8259, WellFoundedInduction, TLAPS

USE PicAssumption DEF IR

----------------------------------------------------------------------------
(* Least elements.                                                          *)

NatLess == {ss \in Nat \X Nat : ss[1] < ss[2]}

(* The order on the naturals is well founded.                               *)
LEMMA NatLessIsWellFounded == IsWellFoundedOn(NatLess, Nat)
BY NatLessThanWellFounded DEF OpToRel, NatLess

(* A nonempty set of naturals has a least member.                           *)
LEMMA LeastNatural ==
  ASSUME NEW T, T \subseteq Nat, T # {}
  PROVE  \E m \in T : \A n \in T : m <= n
<1>1. \A n, m \in Nat : n < m => <<n, m>> \in NatLess
  BY DEF NatLess
<1>2. PICK m \in T : \A n \in T : <<n, m>> \notin NatLess
  BY NatLessIsWellFounded, WFMin
<1>3. ASSUME NEW n \in T
      PROVE  m <= n
  <2>1. m \in Nat /\ n \in Nat
    OBVIOUS
  <2>2. ~(n < m)
    BY <1>1, <1>2, <2>1
  <2> QED BY <2>1, <2>2
<1> QED BY <1>3

----------------------------------------------------------------------------
(* The priority resolver.                                                   *)

(* A rank is a position in the priority order.                              *)
LEMMA RankType ==
  ASSUME NEW c, c.lowest \in IR, NEW ir \in IR
  PROVE  Rank(c, ir) \in 0 .. NIR - 1
BY DEF Rank

(* Highest picks a member: the priority order has a first element on every  *)
(* nonempty set of inputs (highest_priority_request, highest_priority_isr_  *)
(* bit).                                                                    *)
LEMMA HighestIsMember ==
  ASSUME NEW c, c.lowest \in IR, NEW S, S \subseteq IR, S # {}
  PROVE  /\ Highest(c, S) \in S
         /\ \A j \in S : Rank(c, Highest(c, S)) <= Rank(c, j)
<1> DEFINE T == {n \in 0 .. NIR - 1 : \E i \in S : n = Rank(c, i)}
<1>1. \A i \in S : Rank(c, i) \in T
  BY RankType
<1>2. T \subseteq Nat
  OBVIOUS
<1>3. T # {}
  BY <1>1
<1>4. \E m \in T : \A n \in T : m <= n
  BY <1>2, <1>3, LeastNatural
<1>5. PICK m \in T : \A n \in T : m <= n
  BY <1>4
<1>6. PICK i \in S : Rank(c, i) = m
  OBVIOUS
<1>7. \A j \in S : Rank(c, i) <= Rank(c, j)
  BY <1>1, <1>5, <1>6
<1> QED BY <1>7 DEF Highest

----------------------------------------------------------------------------
(* The chip's operations.                                                   *)

(* What holds of each chip whatever is done to it.                          *)
Sound(c) ==
  /\ c \in Chip
  /\ c.initialized => c.phase = "idle"
  /\ \A ir \in IR : IsLevel(c, ir) => (ir \in c.irr <=> ir \in c.pins)

LEMMA ResetSound ==
  ASSUME NEW b \in BOOLEAN
  PROVE  /\ ResetRole(b) \in Chip
         /\ Sound(ResetRole(b))
BY DEF ResetRole, Chip, Phases, Sound, IsLevel

(* d is c with other pins and latches.                                      *)
Relatched(c, d) == d = [c EXCEPT !.pins = d.pins, !.irr = d.irr]

(* What driving a line, and what an acknowledge, make of a chip.            *)
Raised(c, ir, d) ==
  /\ Sound(d)
  /\ Relatched(c, d)
  /\ d.pins = c.pins \cup {ir}
  /\ d.irr \ {ir} = c.irr \ {ir}
  /\ ir \in c.irr \/ ir \notin c.pins => ir \in d.irr

Lowered(c, ir, d) ==
  /\ Sound(d)
  /\ Relatched(c, d)
  /\ d.pins = c.pins \ {ir}
  /\ d.irr \ {ir} = c.irr \ {ir}
  /\ ir \in d.irr => ir \in c.irr /\ ~IsLevel(c, ir)

Acked(c, ir, d) ==
  /\ Sound(d)
  /\ d = [c EXCEPT !.irr = d.irr, !.isr = d.isr, !.lowest = d.lowest]
  /\ d.irr \subseteq c.irr \cup c.pins
  /\ d.irr \subseteq c.irr \cup {ir}
  /\ c.irr \ {ir} \subseteq d.irr
  /\ ~c.autoEoi => /\ d.isr = IF Spurious(c, ir) THEN c.isr
                                                 ELSE c.isr \cup {ir}
                   /\ d.lowest = c.lowest

LEMMA RaiseSound ==
  ASSUME NEW c, Sound(c), NEW ir \in IR
  PROVE  Raised(c, ir, SetLine(c, ir, TRUE))
<1> DEFINE d == SetLine(c, ir, TRUE)
<1>1. /\ d \in Chip
      /\ Relatched(c, d)
      /\ d.pins = c.pins \cup {ir}
      /\ d.irr = IF IsLevel(c, ir) \/ ir \notin c.pins
                 THEN c.irr \cup {ir} ELSE c.irr
  BY DEF SetLine, Chip, Sound, Relatched
<1>2. \A i \in IR : IsLevel(d, i) <=> IsLevel(c, i)
  BY <1>1 DEF IsLevel, Sound, Chip, Relatched
<1>3. d.initialized = c.initialized /\ d.phase = c.phase
  BY <1>1 DEF Sound, Chip, Relatched
<1>4. c.pins \subseteq IR /\ c.irr \subseteq IR
  BY DEF Sound, Chip
<1> HIDE DEF d
<1>5. Sound(d)
  BY <1>1, <1>2, <1>3, <1>4 DEF Sound
<1>6. Raised(c, ir, d)
  BY <1>1, <1>4, <1>5 DEF Raised
<1> QED BY <1>6 DEF d

LEMMA LowerSound ==
  ASSUME NEW c, Sound(c), NEW ir \in IR
  PROVE  Lowered(c, ir, SetLine(c, ir, FALSE))
<1> DEFINE d == SetLine(c, ir, FALSE)
<1>1. /\ d \in Chip
      /\ Relatched(c, d)
      /\ d.pins = c.pins \ {ir}
      /\ d.irr = IF IsLevel(c, ir) THEN c.irr \ {ir} ELSE c.irr
  BY DEF SetLine, Chip, Sound, Relatched
<1>2. \A i \in IR : IsLevel(d, i) <=> IsLevel(c, i)
  BY <1>1 DEF IsLevel, Sound, Chip, Relatched
<1>3. d.initialized = c.initialized /\ d.phase = c.phase
  BY <1>1 DEF Sound, Chip, Relatched
<1>4. c.pins \subseteq IR /\ c.irr \subseteq IR
  BY DEF Sound, Chip
<1> HIDE DEF d
<1>5. Sound(d)
  BY <1>1, <1>2, <1>3, <1>4 DEF Sound
<1>6. Lowered(c, ir, d)
  BY <1>1, <1>4, <1>5 DEF Lowered
<1> QED BY <1>6 DEF d

(* An acknowledge keeps the pins and retires at most the acknowledged       *)
(* request.                                                                 *)
LEMMA AckIrSound ==
  ASSUME NEW c, Sound(c), NEW ir \in IR
  PROVE  Acked(c, ir, AckIr(c, ir))
<1> DEFINE d == AckIr(c, ir)
<1>1. d \in Chip
  BY ZenonT(60) DEF AckIr, Chip, Sound
<1>2. /\ d = [c EXCEPT !.irr = d.irr, !.isr = d.isr, !.lowest = d.lowest]
      /\ d.irr = IF ~Spurious(c, ir) /\ IsLevel(c, ir) /\ ir \in c.pins
                 THEN c.irr \cup {ir} ELSE c.irr \ {ir}
  BY DEF AckIr, Chip, Sound
<1>3. \A i \in IR : IsLevel(d, i) <=> IsLevel(c, i)
  BY <1>1, <1>2 DEF IsLevel, Sound, Chip
<1>4. d.initialized = c.initialized /\ d.phase = c.phase /\ d.pins = c.pins
  BY <1>2 DEF Sound, Chip
<1>5. Spurious(c, ir) => ir \notin c.pins
  BY DEF Spurious
<1> HIDE DEF d
<1>6. Sound(d)
  BY <1>1, <1>2, <1>3, <1>4, <1>5 DEF Sound
<1>7. c.pins \subseteq IR /\ c.irr \subseteq IR
  BY DEF Sound, Chip
<1>8. ~c.autoEoi => /\ d.isr = IF Spurious(c, ir) THEN c.isr
                                                 ELSE c.isr \cup {ir}
                    /\ d.lowest = c.lowest
  BY DEF d, AckIr, Chip, Sound
<1>9. Acked(c, ir, d)
  BY <1>2, <1>6, <1>7, <1>8 DEF Acked
<1> QED BY <1>9 DEF d

(* sync_cascade drives the cascade pin of a programmed pair to the slave's  *)
(* INT output, latching it if it rises, and touches nothing else.           *)
Synced(b, d) ==
  /\ d \in Pair
  /\ d.slave = b.slave
  /\ Sound(d.master)
  /\ Relatched(b.master, d.master)
  /\ CascadeActive(d) <=> CascadeActive(b)
  /\ ~CascadeActive(b) => d = b
  /\ CascadeActive(b) =>
       /\ b.slave.slaveId \in d.master.pins <=> IntPending(b.slave)
       /\ /\ IntPending(b.slave)
          /\ \/ b.slave.slaveId \in b.master.irr
             \/ b.slave.slaveId \notin b.master.pins
          => b.slave.slaveId \in d.master.irr

LEMMA SyncCascadeSound ==
  ASSUME NEW b \in Pair, Sound(b.master), Sound(b.slave)
  PROVE  Synced(b, SyncCascade(b))
<1> DEFINE d == SyncCascade(b)
<1>1. CASE ~CascadeActive(b)
  <2>1. d = b
    BY <1>1 DEF SyncCascade
  <2>2. Relatched(b.master, b.master)
    BY DEF Pair, Chip, Relatched
  <2> QED BY <1>1, <2>1, <2>2 DEF Synced
<1>2. CASE CascadeActive(b)
  <2> DEFINE ir == b.slave.slaveId
             high == IntPending(b.slave)
             m == d.master
  <2>1. /\ d = [b EXCEPT !.master = m]
        /\ high => m = SetLine(b.master, ir, TRUE)
        /\ ~high => m = SetLine(b.master, ir, FALSE)
    BY <1>2 DEF SyncCascade, Pair, SetLine
  <2>2. ir \in IR
    BY DEF Pair, Chip
  <2> HIDE DEF ir, high, m, d
  <2>3. /\ Sound(m)
        /\ Relatched(b.master, m)
        /\ high <=> ir \in m.pins
        /\ high /\ (ir \in b.master.irr \/ ir \notin b.master.pins)
             => ir \in m.irr
    <3>1. CASE high
      <4>1. Raised(b.master, ir, m)
        BY <2>1, <2>2, <3>1, RaiseSound
      <4> QED BY <3>1, <4>1 DEF Raised
    <3>2. CASE ~high
      <4>1. Lowered(b.master, ir, m)
        BY <2>1, <2>2, <3>2, LowerSound
      <4> QED BY <3>2, <4>1 DEF Lowered
    <3> QED BY <3>1, <3>2
  <2>4. m \in Chip
    BY <2>3 DEF Sound
  <2>5. d.master = m /\ d.slave = b.slave /\ d \in Pair
    BY <2>1, <2>4 DEF Pair, m
  <2>6. /\ m.initialized = b.master.initialized
        /\ m.single = b.master.single
        /\ m.slaveMask = b.master.slaveMask
    BY <2>3 DEF Pair, Chip, Relatched
  <2>7. CascadeActive(d) <=> CascadeActive(b)
    BY <2>5, <2>6 DEF CascadeActive
  <2>8. Synced(b, d)
    BY <1>2, <2>3, <2>5, <2>7 DEF ir, high, Synced
  <2> QED BY <2>8 DEF d
<1> QED BY <1>1, <1>2
LEMMA RequestsType ==
  ASSUME NEW c, Sound(c)
  PROVE  Requests(c) \subseteq IR
BY DEF Requests, Sound, Chip

(* Once a slave's highest request is acknowledged into service, nothing it  *)
(* still requests is of higher priority: its INT output falls.              *)
LEMMA AckSilences ==
  ASSUME NEW s, Sound(s), ~s.isMaster, ~s.autoEoi, s.irr \subseteq s.pins,
         IntPending(s)
  PROVE  ~IntPending(AckIr(s, Highest(s, Requests(s))))
<1> DEFINE ir == Highest(s, Requests(s))
           e == AckIr(s, ir)
<1>1. /\ ir \in Requests(s)
      /\ \A i \in Requests(s) : Rank(s, ir) <= Rank(s, i)
  BY RequestsType, HighestIsMember DEF IntPending, Sound, Chip
<1> HIDE DEF ir
<1>2. ir \in IR /\ ir \in s.irr /\ ir \in s.pins /\ ir \notin s.imr
  BY <1>1, RequestsType DEF Requests
<1>3. ~Spurious(s, ir)
  BY <1>2 DEF Spurious
<1>4. e = [s EXCEPT !.irr = IF IsLevel(s, ir) /\ ir \in s.pins
                            THEN s.irr \cup {ir} ELSE s.irr \ {ir},
                    !.isr = s.isr \cup {ir}]
  BY <1>3 DEF AckIr, Sound, Chip
<1> HIDE DEF e
<1>5. /\ e.irr \subseteq s.irr /\ e.isr = s.isr \cup {ir}
      /\ e.imr = s.imr /\ e.lowest = s.lowest
      /\ e.initialized = s.initialized
      /\ e.specialMask = s.specialMask
      /\ e.isMaster = s.isMaster
  BY <1>2, <1>4 DEF Sound, Chip
<1>6. \A i \in IR : Rank(e, i) = Rank(s, i)
  BY <1>5 DEF Rank
<1>7. ASSUME NEW i \in Requests(e)
      PROVE  FALSE
  <2>1. i \in IR /\ i \in s.irr /\ i \notin s.imr
    BY <1>5 DEF Requests, Sound, Chip
  <2>2. \A hp \in s.isr : ~InServiceBlocks(s, hp, i)
    <3> SUFFICES ASSUME NEW hp \in s.isr
                 PROVE  ~InServiceBlocks(s, hp, i)
      OBVIOUS
    <3>1. ~InServiceBlocks(e, hp, i)
      BY <1>5 DEF Requests
    <3>2. hp \in IR
      BY DEF Sound, Chip
    <3> QED BY <1>5, <1>6, <2>1, <3>1, <3>2 DEF InServiceBlocks
  <2>3. i \in Requests(s)
    BY <1>1, <2>1, <2>2 DEF Requests
  <2>4. Rank(s, ir) <= Rank(s, i)
    BY <1>1, <2>3
  <2>5. InServiceBlocks(e, ir, i)
    BY <1>2, <1>5, <1>6, <2>1, <2>4 DEF InServiceBlocks
  <2> QED BY <1>5, <2>5 DEF Requests
<1>8. ~IntPending(e)
  BY <1>7 DEF IntPending
<1> QED BY <1>8 DEF e, ir
(* What is recognised outranks everything in service, unless a special mode *)
(* says otherwise.                                                          *)
LEMMA RequestOutranks ==
  ASSUME NEW c, Sound(c), ~c.specialMask, ~c.specialFullyNested,
         NEW ir \in Requests(c)
  PROVE  /\ ir \notin c.isr
         /\ \A hp \in c.isr : Rank(c, ir) < Rank(c, hp)
<1>1. ir \in IR /\ c.isr \subseteq IR /\ c.lowest \in IR
  BY RequestsType DEF Sound, Chip
<1>2. ASSUME NEW hp \in c.isr
      PROVE  Rank(c, ir) < Rank(c, hp)
  <2>1. ~InServiceBlocks(c, hp, ir)
    BY DEF Requests
  <2>2. ~(Rank(c, hp) <= Rank(c, ir))
    BY <2>1 DEF InServiceBlocks
  <2>3. Rank(c, hp) \in 0 .. NIR - 1 /\ Rank(c, ir) \in 0 .. NIR - 1
    BY <1>1, RankType
  <2> QED BY <2>2, <2>3
<1>3. Rank(c, ir) \in 0 .. NIR - 1
  BY <1>1, RankType
<1>4. ir \notin c.isr
  BY <1>2, <1>3
<1> QED BY <1>2, <1>4

(* Outside Special Mask Mode a non-specific EOI ends the in-service input   *)
(* of the highest priority, if there is one, and moves nothing else.        *)
LEMMA EoiEndsHighest ==
  ASSUME NEW c, Sound(c), ~c.specialMask
  PROVE  /\ c.isr = {} => NonSpecificEoi(c, FALSE) = c
         /\ c.isr # {} =>
              /\ Highest(c, c.isr) \in c.isr
              /\ \A j \in c.isr : Rank(c, Highest(c, c.isr)) <= Rank(c, j)
              /\ NonSpecificEoi(c, FALSE)
                   = [c EXCEPT !.isr = @ \ {Highest(c, c.isr)}]
<1>1. EoiCandidates(c) = c.isr /\ c.isr \subseteq IR /\ c.lowest \in IR
  BY DEF EoiCandidates, Sound, Chip
<1>2. c.isr # {} =>
        /\ Highest(c, c.isr) \in c.isr
        /\ \A j \in c.isr : Rank(c, Highest(c, c.isr)) <= Rank(c, j)
  BY <1>1, HighestIsMember
<1>3. c.isr # {} => NonSpecificEoi(c, FALSE)
                     = [c EXCEPT !.isr = @ \ {Highest(c, c.isr)}]
  BY <1>1 DEF NonSpecificEoi, Sound, Chip
<1>4. c.isr = {} => NonSpecificEoi(c, FALSE) = c
  BY <1>1 DEF NonSpecificEoi
<1> QED BY <1>2, <1>3, <1>4

(* What sync_cascade may make of either chip: other pins, and no edge       *)
(* request fewer.                                                           *)
Settles(e, f) ==
  /\ Relatched(e, f)
  /\ \A ir \in IR : ir \in e.irr /\ ~IsLevel(e, ir) => ir \in f.irr

LEMMA LineSettles ==
  ASSUME NEW c, Sound(c), NEW ir \in IR, NEW high \in BOOLEAN
  PROVE  Settles(c, SetLine(c, ir, high))
<1>1. Relatched(c, SetLine(c, ir, high))
  BY DEF SetLine, Relatched, Sound, Chip
<1>2. SetLine(c, ir, high).irr = IF high
        THEN IF IsLevel(c, ir) \/ ir \notin c.pins
             THEN c.irr \cup {ir} ELSE c.irr
        ELSE IF IsLevel(c, ir) THEN c.irr \ {ir} ELSE c.irr
  BY DEF SetLine, Sound, Chip
<1> QED BY <1>1, <1>2 DEF Settles

LEMMA SyncSettles ==
  ASSUME NEW b \in Pair, Sound(b.master)
  PROVE  /\ Settles(b.master, SyncCascade(b).master)
         /\ Settles(b.slave, SyncCascade(b).slave)
<1>1. Settles(b.master, b.master) /\ Settles(b.slave, b.slave)
  BY DEF Settles, Relatched, Pair, Chip
<1>2. b.slave.slaveId \in IR /\ IntPending(b.slave) \in BOOLEAN
  BY DEF Pair, Chip, IntPending
<1>3. Settles(b.master,
              SetLine(b.master, b.slave.slaveId, IntPending(b.slave)))
  BY <1>2, LineSettles
<1>4. /\ SyncCascade(b).slave = b.slave
      /\ SyncCascade(b).master \in
           {b.master,
            SetLine(b.master, b.slave.slaveId, IntPending(b.slave))}
  BY DEF SyncCascade, Pair
<1> QED BY <1>1, <1>3, <1>4

(* A pair whose cascade pin already is the slave's INT output is left as it *)
(* is.                                                                      *)
LEMMA SyncIdle ==
  ASSUME NEW d \in Pair, Sound(d.master),
         CascadeActive(d) =>
           (d.slave.slaveId \in d.master.pins <=> IntPending(d.slave))
  PROVE  SyncCascade(d) = d
<1> DEFINE ir == d.slave.slaveId
           m == SetLine(d.master, ir, IntPending(d.slave))
<1>1. CASE ~CascadeActive(d)
  BY <1>1 DEF SyncCascade
<1>2. CASE CascadeActive(d)
  <2>1. /\ ir \in IR /\ d.master \in Chip
        /\ d = [master |-> d.master, slave |-> d.slave]
        /\ IsLevel(d.master, ir) => (ir \in d.master.irr <=> ir \in d.master.pins)
    BY DEF Pair, Chip, Sound
  <2>2. SyncCascade(d) = [d EXCEPT !.master = m]
    BY <1>2 DEF SyncCascade
  <2>3. m = d.master
    <3> DEFINE c == d.master
    <3>1. CASE IntPending(d.slave)
      <4>1. c.pins \cup {ir} = c.pins
        BY <1>2, <3>1
      <4>2. (IF IsLevel(c, ir) \/ ir \notin c.pins THEN c.irr \cup {ir}
                                                   ELSE c.irr) = c.irr
        BY <1>2, <2>1, <3>1
      <4>3. m = [c EXCEPT !.pins = c.pins, !.irr = c.irr]
        BY <3>1, <4>1, <4>2 DEF SetLine
      <4> QED BY <2>1, <4>3 DEF Chip
    <3>2. CASE ~IntPending(d.slave)
      <4>1. c.pins \ {ir} = c.pins
        BY <1>2, <3>2
      <4>2. (IF IsLevel(c, ir) THEN c.irr \ {ir} ELSE c.irr) = c.irr
        BY <1>2, <2>1, <3>2
      <4>3. m = [c EXCEPT !.pins = c.pins, !.irr = c.irr]
        BY <3>2, <4>1, <4>2 DEF SetLine
      <4> QED BY <2>1, <4>3 DEF Chip
    <3> QED BY <3>1, <3>2
  <2> QED BY <2>1, <2>2, <2>3
<1> QED BY <1>1, <1>2

(* A chip fresh from reset and a driver's ICWs: edge inputs, fully nested,  *)
(* nothing latched or in service.                                           *)
LEMMA ProgrammedFresh ==
  ASSUME NEW b \in BOOLEAN, NEW cascade \in IR
  PROVE  LET c == Programmed(ResetRole(b), cascade)
         IN  /\ Sound(c) /\ c.initialized /\ ~c.single /\ c.isMaster = b
             /\ ~c.levelTriggered /\ c.elcr = {} /\ c.irr = {}
             /\ c.isr = {} /\ c.pins = {} /\ c.imr = {} /\ c.lowest = NIR - 1
             /\ ~c.specialMask /\ ~c.autoEoi /\ ~c.specialFullyNested
             /\ b => c.slaveMask = {cascade}
             /\ ~b => c.slaveId = cascade
<1> DEFINE begun == BeginIcw1(ResetRole(b), [ic4 |-> TRUE, single |-> FALSE,
                                             ltim |-> FALSE])
           based == WriteIcw2(begun)
           linked == WriteIcw3(based, {cascade}, cascade)
           started == WriteIcw4(linked, FALSE, FALSE)
           c == WriteImr(started, {})
           Fresh(e) == /\ e \in Chip /\ e.isMaster = b /\ ~e.single
                       /\ ~e.levelTriggered /\ e.elcr = {} /\ e.irr = {}
                       /\ e.isr = {} /\ e.pins = {} /\ e.lowest = NIR - 1
                       /\ ~e.specialMask /\ ~e.autoEoi /\ ~e.specialFullyNested
<1>1. Fresh(begun) /\ begun.expectIcw4
  <2>1. ResetRole(b) \in Chip /\ ResetRole(b).isMaster = b
    BY ResetSound DEF ResetRole
  <2> DEFINE r == ResetRole(b)
  <2>2. /\ r.irr = {} /\ r.isr = {} /\ r.pins = {} /\ r.elcr = {}
        /\ r.lowest = NIR - 1
        /\ ~r.specialMask /\ ~r.autoEoi /\ ~r.specialFullyNested
    BY DEF ResetRole
  <2>3. begun = [r EXCEPT !.phase = "icw2", !.expectIcw4 = TRUE,
                          !.single = FALSE, !.levelTriggered = FALSE,
                          !.elcr = r.elcr, !.imr = r.imr]
    BY <2>1 DEF BeginIcw1
  <2> HIDE DEF begun, r
  <2> QED BY <2>1, <2>2, <2>3 DEF Chip, Phases, r
<1> HIDE DEF begun
<1>2. Fresh(based) /\ based.expectIcw4
  BY <1>1 DEF WriteIcw2, Icw4OrFinish, FinishInit, Chip, Phases
<1> HIDE DEF based
<1>3. /\ Fresh(linked)
      /\ b => linked.slaveMask = {cascade}
      /\ ~b => linked.slaveId = cascade
  BY <1>2 DEF WriteIcw3, Icw4OrFinish, FinishInit, Chip, Phases
<1> HIDE DEF linked
<1>4. /\ Fresh(started) /\ started.initialized /\ started.phase = "idle"
      /\ b => started.slaveMask = {cascade}
      /\ ~b => started.slaveId = cascade
  BY <1>3 DEF WriteIcw4, FinishInit, Chip, Phases
<1> HIDE DEF started
<1>5. /\ Fresh(c) /\ c.initialized /\ c.phase = "idle" /\ c.imr = {}
      /\ b => c.slaveMask = {cascade}
      /\ ~b => c.slaveId = cascade
  BY <1>4 DEF WriteImr, Chip
<1>6. c = Programmed(ResetRole(b), cascade)
  BY DEF Programmed, started, linked, based, begun
<1> HIDE DEF c
<1>7. Sound(c)
  BY <1>5 DEF Sound, IsLevel
<1> QED BY <1>5, <1>6, <1>7
=============================================================================
