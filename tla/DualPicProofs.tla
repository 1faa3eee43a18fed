--------------------------- MODULE DualPicProofs ---------------------------
(***************************************************************************)
(* Proofs about DualPic for every number of inputs, guest and device set.  *)
(***************************************************************************)
EXTENDS DualPic, Pic8259Lemmas, SequenceTheorems, TLAPS

USE PicAssumption DEF IR

----------------------------------------------------------------------------
(* The inductive invariant.                                                 *)

(* What the guest's features leave out of a chip's state.                   *)
Used(c) ==
  /\ c.slaveMask \in MasterIcw3 \cup {{}}
  /\ "aeoi" \notin guest => ~c.autoEoi
  /\ "poll" \notin guest => ~c.pollArmed

(* While the cascade is not programmed the cascade pin has never been       *)
(* driven, so programming it with a slave request pending makes an edge;    *)
(* and an edge request at the slave is not spurious unless devices drop it. *)
CascadeReady(d) ==
  /\ "reinit" \notin guest /\ ~CascadeActive(d)
       => d.master.pins \subseteq MasterLines
  /\ "drop" \notin guest => d.slave.irr \subseteq d.slave.pins

PinFollows(d) ==
  CascadeActive(d) =>
    (d.slave.slaveId \in d.master.pins <=> IntPending(d.slave))

ReachesMaster(d) ==
  KeepsCascadeEdges /\ CascadeActive(d) /\ IntPending(d.slave)
    => d.slave.slaveId \in d.master.irr

PairSound(d) ==
  /\ d \in Pair
  /\ d.master.isMaster /\ ~d.slave.isMaster
  /\ Sound(d.master) /\ Used(d.master)
  /\ Sound(d.slave) /\ Used(d.slave)
  /\ CascadeReady(d)

PairInv(d) == PairSound(d) /\ PinFollows(d) /\ ReachesMaster(d)

IInv ==
  /\ PairInv(pic)
  /\ guest \in Guests
  /\ served \in [Chips -> Seq(IR)]

----------------------------------------------------------------------------
(* Register accesses: what any of them may make of a chip.                  *)

SameWiring(c, e) ==
  /\ e.initialized /\ e.single = c.single
  /\ e.slaveMask = c.slaveMask /\ e.slaveId = c.slaveId

(* Every access but an ICW1 keeps the pins and, unless it polls, the        *)
(* requests whose pins are high; and it creates no request without a pin.   *)
Keeps(c, e) ==
  /\ e.pins = c.pins
  /\ KeepsCascadeEdges => c.irr \cap c.pins \subseteq e.irr
  /\ c.irr \subseteq c.pins => e.irr \subseteq c.pins
  /\ c.initialized => SameWiring(c, e)

Restarts(c, e) ==
  /\ e.irr = {} /\ e.pins = {} /\ ~e.initialized
  /\ "reinit" \in guest \/ ~c.initialized

Access(c, e) ==
  /\ Sound(e) /\ Used(e)
  /\ e.isMaster = c.isMaster
  /\ Keeps(c, e) \/ Restarts(c, e)

(* All the pair's invariant asks of a change to the slave.                  *)
SlaveStep(c, e) ==
  /\ Sound(e) /\ Used(e)
  /\ e.isMaster = c.isMaster
  /\ "reinit" \notin guest /\ c.initialized => SameWiring(c, e)
  /\ "drop" \notin guest /\ c.irr \subseteq c.pins => e.irr \subseteq e.pins

LEMMA AccessIsSlaveStep ==
  ASSUME NEW c, NEW e, Access(c, e)
  PROVE  SlaveStep(c, e)
BY DEF Access, SlaveStep, Keeps, Restarts

LEMMA NoAccess ==
  ASSUME NEW c, Sound(c), Used(c)
  PROVE  Access(c, c)
BY DEF Access, Keeps, SameWiring, Sound, Chip

(* A register access on the master and any such change to the slave,        *)
(* followed by sync_cascade as every port write, poll and slave line change *)
(* is, keep the pair's invariant.                                           *)
LEMMA AccessInv ==
  ASSUME NEW a, PairInv(a), NEW b \in Pair,
         Access(a.master, b.master), SlaveStep(a.slave, b.slave)
  PROVE  PairInv(SyncCascade(b))
<1> DEFINE d == SyncCascade(b)
           sid == b.slave.slaveId
<1>1. Synced(b, d)
  BY SyncCascadeSound DEF Access, SlaveStep
<1> HIDE DEF d
<1>2. /\ d \in Pair /\ d.slave = b.slave
      /\ Sound(d.master) /\ Relatched(b.master, d.master)
      /\ CascadeActive(d) <=> CascadeActive(b)
      /\ ~CascadeActive(b) => d = b
  BY <1>1 DEF Synced
<1>3. /\ Sound(d.slave) /\ Used(d.slave)
      /\ ~d.slave.isMaster
  BY <1>2 DEF SlaveStep, PairInv, PairSound
<1>4. /\ d.master.isMaster = b.master.isMaster
      /\ d.master.slaveMask = b.master.slaveMask
      /\ d.master.autoEoi = b.master.autoEoi
      /\ d.master.pollArmed = b.master.pollArmed
  BY <1>2 DEF Relatched, Pair, Chip
<1>5. d.master.isMaster /\ Used(d.master)
  BY <1>4 DEF Used, Access, PairInv, PairSound
<1>6. PinFollows(d)
  BY <1>1, <1>2 DEF Synced, PinFollows
<1>7. ASSUME CascadeActive(b), "reinit" \notin guest
      PROVE  Keeps(a.master, b.master)
  BY <1>7 DEF CascadeActive, Access, Restarts
<1>8. ASSUME CascadeActive(a), "reinit" \notin guest
      PROVE  CascadeActive(b) /\ sid = a.slave.slaveId
  <2>1. a.master.initialized /\ a.slave.initialized
    BY <1>8 DEF CascadeActive
  <2>2. SameWiring(a.master, b.master) /\ SameWiring(a.slave, b.slave)
    BY <1>8, <2>1 DEF Access, SlaveStep, Keeps, Restarts
  <2> QED BY <1>8, <2>2 DEF CascadeActive, SameWiring
<1>9. ReachesMaster(d)
  <2> SUFFICES ASSUME KeepsCascadeEdges, CascadeActive(b), IntPending(b.slave)
               PROVE  sid \in d.master.irr
    BY <1>2 DEF ReachesMaster
  <2>1. "reinit" \notin guest
    BY DEF KeepsCascadeEdges
  <2>2. Keeps(a.master, b.master)
    BY <1>7, <2>1
  <2>3. CASE CascadeActive(a)
    <3>1. a.slave.slaveId \in a.master.pins => a.slave.slaveId \in a.master.irr
      BY <2>3 DEF PairInv, PinFollows, ReachesMaster
    <3>2. sid \in b.master.pins => sid \in b.master.irr
      BY <1>8, <2>1, <2>2, <2>3, <3>1 DEF Keeps
    <3> QED BY <1>1, <3>2 DEF Synced
  <2>4. CASE ~CascadeActive(a)
    <3>1. b.master.pins \subseteq MasterLines
      BY <2>1, <2>2, <2>4 DEF PairInv, PairSound, CascadeReady, Keeps
    <3>2. sid \in b.master.slaveMask /\ b.master.slaveMask \in MasterIcw3
      BY DEF CascadeActive, Access, Used
    <3>3. sid \notin b.master.pins
      <4> DEFINE wired == b.master.slaveMask
      <4>1. wired \cap MasterLines = {}
        <5> HIDE DEF wired
        <5> QED BY <3>2, DualPicAssumption DEF wired
      <4> QED BY <3>1, <3>2, <4>1
    <3> QED BY <1>1, <3>3 DEF Synced
  <2> QED BY <2>3, <2>4
<1>10. CascadeReady(d)
  <2>1. ASSUME "reinit" \notin guest, ~CascadeActive(d)
        PROVE  d.master.pins \subseteq MasterLines
    <3>1. d = b /\ ~CascadeActive(a)
      BY <1>2, <1>8, <2>1
    <3>2. a.master.pins \subseteq MasterLines
      BY <2>1, <3>1 DEF PairInv, PairSound, CascadeReady
    <3> QED BY <3>1, <3>2 DEF Access, Keeps, Restarts
  <2>2. ASSUME "drop" \notin guest
        PROVE  d.slave.irr \subseteq d.slave.pins
    BY <1>2, <2>2 DEF PairInv, PairSound, CascadeReady, SlaveStep
  <2> QED BY <2>1, <2>2 DEF CascadeReady
<1>11. PairInv(d)
  BY <1>2, <1>3, <1>5, <1>6, <1>9, <1>10 DEF PairInv, PairSound
<1> QED BY <1>11 DEF d
----------------------------------------------------------------------------
(* Each register access is one.                                             *)

LEMMA Icw1Access ==
  ASSUME NEW c, Sound(c), Used(c), NEW word \in Icw1Words,
         "reinit" \in guest \/ ~c.initialized
  PROVE  Access(c, BeginIcw1(c, word))
<1> DEFINE e == BeginIcw1(c, word)
<1>1. c.isMaster \in BOOLEAN /\ c.elcr \subseteq IR /\ c.imr \subseteq IR
  BY DEF Sound, Chip
<1>2. ResetRole(c.isMaster) \in Chip
  BY <1>1, ResetSound
<1>3. e \in Chip
  BY <1>1, <1>2 DEF BeginIcw1, Chip, Icw1Words, Phases
<1>4. /\ e.isMaster = c.isMaster /\ e.slaveMask = {}
      /\ ~e.initialized /\ ~e.autoEoi /\ ~e.pollArmed
      /\ e.irr = {} /\ e.pins = {}
  BY DEF BeginIcw1, ResetRole
<1> HIDE DEF e
<1>5. Sound(e) /\ Used(e)
  BY <1>3, <1>4 DEF Sound, Used
<1>6. Access(c, e)
  BY <1>4, <1>5 DEF Access, Restarts
<1> QED BY <1>6 DEF e

(* The other writes leave requests and pins alone.                          *)
Quiet(c, e) ==
  /\ e \in Chip
  /\ e.isMaster = c.isMaster
  /\ e.irr = c.irr /\ e.pins = c.pins
  /\ e.elcr = c.elcr /\ e.levelTriggered = c.levelTriggered
  /\ e.slaveMask \in {c.slaveMask} \cup MasterIcw3
  /\ e.autoEoi => c.autoEoi \/ "aeoi" \in guest
  /\ e.pollArmed => c.pollArmed \/ "poll" \in guest
  /\ e.initialized => e.phase = "idle"
  /\ c.initialized => SameWiring(c, e)

LEMMA QuietAccess ==
  ASSUME NEW c, Sound(c), Used(c), NEW e, Quiet(c, e)
  PROVE  Access(c, e)
<1>1. \A i \in IR : IsLevel(e, i) <=> IsLevel(c, i)
  BY DEF IsLevel, Quiet
<1>2. Sound(e)
  BY <1>1 DEF Sound, Quiet
<1>3. Used(e)
  BY DEF Used, Quiet
<1>4. Keeps(c, e)
  BY DEF Keeps, Quiet
<1> QED BY <1>2, <1>3, <1>4 DEF Access, Quiet

LEMMA Icw2Quiet ==
  ASSUME NEW c, Sound(c), c.phase = "icw2"
  PROVE  Quiet(c, WriteIcw2(c))
BY DEF WriteIcw2, Icw4OrFinish, FinishInit, Quiet, SameWiring, Sound, Chip,
       Phases

LEMMA Icw3Quiet ==
  ASSUME NEW c, Sound(c), c.phase = "icw3",
         NEW mask \in MasterIcw3, NEW id \in SlaveIcw3
  PROVE  Quiet(c, WriteIcw3(c, mask, id))
<1>1. mask \subseteq IR /\ id \in IR
  BY DualPicAssumption
<1> QED BY <1>1, ZenonT(60) DEF WriteIcw3, Icw4OrFinish, FinishInit, Quiet,
                                SameWiring, Sound, Chip, Phases

LEMMA Icw4Quiet ==
  ASSUME NEW c, Sound(c), c.phase = "icw4",
         NEW aeoi \in BOOLEAN, NEW sfnm \in BOOLEAN, aeoi => "aeoi" \in guest
  PROVE  Quiet(c, WriteIcw4(c, aeoi, sfnm))
BY ZenonT(60) DEF WriteIcw4, FinishInit, Quiet, SameWiring, Sound, Chip, Phases

LEMMA ImrQuiet ==
  ASSUME NEW c, Sound(c), NEW mask \in SUBSET IR
  PROVE  Quiet(c, WriteImr(c, mask))
BY DEF WriteImr, Quiet, SameWiring, Sound, Chip

LEMMA EoiQuiet ==
  ASSUME NEW c, Sound(c), NEW rotate \in BOOLEAN
  PROVE  Quiet(c, NonSpecificEoi(c, rotate))
<1> DEFINE ir == Highest(c, EoiCandidates(c))
<1>1. CASE EoiCandidates(c) = {}
  BY <1>1 DEF NonSpecificEoi, Quiet, SameWiring, Sound, Chip
<1>2. CASE EoiCandidates(c) # {}
  <2>1. EoiCandidates(c) \subseteq IR /\ c.lowest \in IR
    BY DEF EoiCandidates, Sound, Chip
  <2>2. ir \in IR
    BY <1>2, <2>1, HighestIsMember
  <2>3. NonSpecificEoi(c, rotate)
          = [c EXCEPT !.isr = @ \ {ir}, !.lowest = IF rotate THEN ir ELSE @]
    BY <1>2 DEF NonSpecificEoi
  <2> HIDE DEF ir
  <2> QED BY ZenonT(60), <2>2, <2>3 DEF Quiet, SameWiring, Sound, Chip
<1> QED BY <1>1, <1>2

LEMMA Ocw2Quiet ==
  ASSUME NEW c, Sound(c), NEW command \in Ocw2Commands, NEW level \in IR
  PROVE  Quiet(c, Ocw2(c, command, level))
<1>1. CASE command \in {"eoi", "rotateEoi"}
  BY <1>1, EoiQuiet DEF Ocw2
<1>2. CASE command \notin {"eoi", "rotateEoi"}
  BY <1>2, ZenonT(60) DEF Ocw2, Ocw2Commands, Quiet, SameWiring, Sound, Chip
<1> QED BY <1>1, <1>2

LEMMA Ocw3Quiet ==
  ASSUME NEW c, Sound(c), NEW mask \in {"keep", "set", "clear"},
         NEW poll \in BOOLEAN, poll => "poll" \in guest
  PROVE  Quiet(c, Ocw3(c, mask, poll))
<1> DEFINE e == Ocw3(c, mask, poll)
<1>1. PICK special \in BOOLEAN, armed \in BOOLEAN :
         /\ e = [c EXCEPT !.specialMask = special, !.pollArmed = armed]
         /\ armed => c.pollArmed \/ poll
  <2>1. (IF mask = "keep" THEN c.specialMask ELSE mask = "set") \in BOOLEAN
    BY DEF Sound, Chip
  <2>2. (c.pollArmed \/ poll) \in BOOLEAN
    OBVIOUS
  <2> QED BY <2>1, <2>2, Zenon DEF Ocw3
<1> HIDE DEF e
<1>2. Quiet(c, e)
  BY <1>1 DEF Quiet, SameWiring, Sound, Chip
<1> QED BY <1>2 DEF e
LEMMA ElcrAccess ==
  ASSUME NEW c, Sound(c), Used(c), NEW mask \in SUBSET IR
  PROVE  Access(c, SetElcr(c, mask))
<1> DEFINE b == [c EXCEPT !.elcr = mask]
           irr == {ir \in IR : IF IsLevel(b, ir) THEN ir \in b.pins
                                                ELSE ir \in b.irr}
           e == SetElcr(c, mask)
<1>1. b \in Chip /\ b.pins = c.pins /\ b.irr = c.irr
  BY DEF Sound, Chip
<1>2. irr \subseteq IR
  OBVIOUS
<1>3. e = [b EXCEPT !.irr = irr]
  BY DEF SetElcr, RefreshLevelIrr
<1>4. \A ir \in IR : ir \in irr <=> IF IsLevel(b, ir) THEN ir \in c.pins
                                                     ELSE ir \in c.irr
  BY <1>1
<1> HIDE DEF irr, e
<1>5. /\ e \in Chip
      /\ e.isMaster = c.isMaster
      /\ e.irr = irr /\ e.pins = c.pins
      /\ e.slaveMask = c.slaveMask /\ e.slaveId = c.slaveId
      /\ e.autoEoi = c.autoEoi /\ e.pollArmed = c.pollArmed
      /\ e.initialized = c.initialized /\ e.phase = c.phase
      /\ e.single = c.single
      /\ e.elcr = b.elcr /\ e.levelTriggered = b.levelTriggered
  BY <1>2, <1>3 DEF Sound, Chip
<1> HIDE DEF b
<1>6. \A ir \in IR : IsLevel(e, ir) <=> IsLevel(b, ir)
  BY <1>5 DEF IsLevel
<1>7. Sound(e)
  BY <1>4, <1>5, <1>6 DEF Sound
<1>8. Used(e)
  BY <1>5 DEF Used
<1>9. c.irr \subseteq IR /\ c.pins \subseteq IR
  BY DEF Sound, Chip
<1>10. Keeps(c, e)
  BY <1>2, <1>4, <1>5, <1>9 DEF Keeps, SameWiring
<1>11. Access(c, e)
  BY <1>5, <1>7, <1>8, <1>10 DEF Access
<1> QED BY <1>11 DEF e

LEMMA PollAccess ==
  ASSUME NEW c, Sound(c), Used(c), "poll" \in guest
  PROVE  Access(c, TakePoll(c))
<1> DEFINE b == [c EXCEPT !.pollArmed = FALSE]
           ir == Highest(c, Requests(c))
           e == AckIr(b, ir)
<1>1. /\ b \in Chip
      /\ b.isMaster = c.isMaster
      /\ b.irr = c.irr /\ b.pins = c.pins
      /\ b.slaveMask = c.slaveMask /\ b.slaveId = c.slaveId
      /\ b.autoEoi = c.autoEoi /\ b.pollArmed = FALSE
      /\ b.initialized = c.initialized /\ b.phase = c.phase
      /\ b.single = c.single
      /\ b.elcr = c.elcr /\ b.levelTriggered = c.levelTriggered
  BY DEF Sound, Chip
<1> HIDE DEF b
<1>2. Quiet(c, b)
  BY <1>1 DEF Quiet, SameWiring, Sound
<1>3. Access(c, b)
  BY <1>2, QuietAccess
<1>4. CASE ~IntPending(c)
  BY <1>3, <1>4 DEF TakePoll, b
<1>5. CASE IntPending(c)
  <2>1. ir \in IR
    BY <1>5, RequestsType, HighestIsMember DEF IntPending, Sound, Chip
  <2> HIDE DEF ir
  <2>2. Acked(b, ir, e)
    BY <1>3, <2>1, AckIrSound DEF Access
  <2> HIDE DEF e
  <2>3. /\ Sound(e)
        /\ e.irr \subseteq c.irr \cup c.pins
        /\ e.pins = c.pins
        /\ e.isMaster = c.isMaster
        /\ e.slaveMask = c.slaveMask /\ e.slaveId = c.slaveId
        /\ e.autoEoi = c.autoEoi /\ e.pollArmed = FALSE
        /\ e.initialized = c.initialized /\ e.single = c.single
    BY <1>1, <2>2 DEF Acked, Chip
  <2>4. Used(e)
    BY <2>3 DEF Used
  <2>5. Keeps(c, e)
    BY <2>3 DEF Keeps, KeepsCascadeEdges, SameWiring
  <2>6. Access(c, e)
    BY <2>3, <2>4, <2>5 DEF Access
  <2> QED BY <1>5, <2>6 DEF TakePoll, b, e, ir
<1> QED BY <1>4, <1>5

----------------------------------------------------------------------------
(* The pair's operations.                                                   *)

(* A port write to either chip.                                             *)
LEMMA WriteInv ==
  ASSUME NEW d, PairInv(d), NEW chip \in Chips, NEW e, Access(d[chip], e)
  PROVE  PairInv(SyncCascade([d EXCEPT ![chip] = e]))
<1> DEFINE b == [d EXCEPT ![chip] = e]
<1>1. e \in Chip /\ d \in Pair
  BY DEF Access, Sound, PairInv, PairSound
<1>2. Access(d.master, d.master) /\ Access(d.slave, d.slave)
  BY NoAccess DEF PairInv, PairSound
<1>3. CASE chip = "master"
  <2>1. b \in Pair /\ b.master = e /\ b.slave = d.slave
    BY <1>1, <1>3 DEF Pair
  <2> QED BY <1>2, <1>3, <2>1, AccessIsSlaveStep, AccessInv
<1>4. CASE chip = "slave"
  <2>1. b \in Pair /\ b.master = d.master /\ b.slave = e
    BY <1>1, <1>4 DEF Pair
  <2> QED BY <1>2, <1>4, <2>1, AccessIsSlaveStep, AccessInv
<1> QED BY <1>3, <1>4 DEF Chips

LEMMA SyncInv ==
  ASSUME NEW d, PairInv(d)
  PROVE  PairInv(SyncCascade(d))
<1>1. Access(d.master, d.master) /\ SlaveStep(d.slave, d.slave)
  BY NoAccess, AccessIsSlaveStep DEF PairInv, PairSound
<1> QED BY <1>1, AccessInv DEF PairInv, PairSound

LEMMA ElcrInv ==
  ASSUME NEW d, PairInv(d), NEW master \in SUBSET IR, NEW slave \in SUBSET IR
  PROVE  PairInv(SetElcrLevelMask(d, master, slave))
<1> DEFINE b == [master |-> SetElcr(d.master, master \ MasterEdgeOnly),
                 slave  |-> SetElcr(d.slave, slave \ SlaveEdgeOnly)]
<1>1. /\ Access(d.master, b.master)
      /\ Access(d.slave, b.slave)
  BY ElcrAccess DEF PairInv, PairSound
<1>2. b \in Pair
  BY <1>1 DEF Access, Sound, Pair
<1> HIDE DEF b
<1>3. PairInv(SyncCascade(b))
  BY <1>1, <1>2, AccessIsSlaveStep, AccessInv
<1> QED BY <1>3 DEF SetElcrLevelMask, b

LEMMA PollInv ==
  ASSUME NEW d, PairInv(d), NEW chip \in Chips, "poll" \in guest
  PROVE  PairInv(PollCommandRead(d, chip))
<1> DEFINE e == SyncCascade(d)
<1>1. PairInv(e)
  BY SyncInv
<1> HIDE DEF e
<1>2. Sound(e[chip]) /\ Used(e[chip])
  BY <1>1 DEF PairInv, PairSound, Chips
<1>3. Access(e[chip], TakePoll(e[chip]))
  BY <1>2, PollAccess
<1>4. PairInv(SyncCascade([e EXCEPT ![chip] = TakePoll(e[chip])]))
  BY <1>1, <1>3, WriteInv
<1> QED BY <1>4 DEF PollCommandRead, e

LEMMA SlaveLineInv ==
  ASSUME NEW d, PairInv(d), NEW ir \in IR, NEW high \in BOOLEAN,
         ~high => MayDrop(d.slave, ir)
  PROVE  PairInv(SetSlaveLine(d, ir, high))
<1> DEFINE e == SetLine(d.slave, ir, high)
           b == [d EXCEPT !.slave = e]
<1>1. Sound(d.slave) /\ Used(d.slave) /\ d \in Pair
  BY DEF PairInv, PairSound
<1>2. \/ Raised(d.slave, ir, e)
      \/ Lowered(d.slave, ir, e) /\ ~high
  <2>1. CASE high
    <3>1. e = SetLine(d.slave, ir, TRUE)
      BY <2>1 DEF SetLine
    <3> QED BY <1>1, <3>1, RaiseSound
  <2>2. CASE ~high
    <3>1. e = SetLine(d.slave, ir, FALSE)
      BY <2>2 DEF SetLine
    <3> QED BY <1>1, <2>2, <3>1, LowerSound
  <2> QED BY <2>1, <2>2
<1> HIDE DEF e
<1>3. Sound(e) /\ Relatched(d.slave, e)
  BY <1>2 DEF Raised, Lowered
<1>4. Used(e) /\ e.isMaster = d.slave.isMaster
      /\ (d.slave.initialized => SameWiring(d.slave, e))
  BY <1>1, <1>3 DEF Used, Relatched, Sound, Chip, SameWiring
<1>5. ASSUME "drop" \notin guest, d.slave.irr \subseteq d.slave.pins
      PROVE  e.irr \subseteq e.pins
  <2>1. CASE Raised(d.slave, ir, e)
    BY <1>5, <2>1 DEF Raised
  <2>2. CASE Lowered(d.slave, ir, e) /\ ~high
    BY <1>5, <2>2 DEF Lowered, MayDrop
  <2> QED BY <1>2, <2>1, <2>2
<1>6. SlaveStep(d.slave, e)
  BY <1>3, <1>4, <1>5 DEF SlaveStep
<1>7. b \in Pair /\ b.master = d.master /\ b.slave = e
  BY <1>1, <1>3 DEF Pair, Sound
<1> HIDE DEF b
<1>8. Access(d.master, d.master)
  BY NoAccess DEF PairInv, PairSound
<1>9. PairInv(SyncCascade(b))
  BY <1>6, <1>7, <1>8, AccessInv
<1> QED BY <1>9 DEF SetSlaveLine, b, e
(* A device line never shares an input with a cascade.                      *)
LEMMA CascadeIsNoDevice ==
  ASSUME NEW d, PairSound(d), CascadeActive(d), NEW ir \in MasterLines
  PROVE  ir # d.slave.slaveId
<1> DEFINE wired == d.master.slaveMask
<1>1. d.slave.slaveId \in wired /\ wired \in MasterIcw3
  BY DEF CascadeActive, PairSound, Used
<1>2. wired \cap MasterLines = {}
  <2> HIDE DEF wired
  <2> QED BY <1>1, DualPicAssumption
<1> QED BY <1>1, <1>2

LEMMA MasterLineInv ==
  ASSUME NEW d, PairInv(d), NEW ir \in MasterLines, NEW high \in BOOLEAN
  PROVE  PairInv(SetMasterLine(d, ir, high))
<1> DEFINE m == SetLine(d.master, ir, high)
           b == [d EXCEPT !.master = m]
<1>1. /\ Sound(d.master) /\ Used(d.master) /\ d.master.isMaster
      /\ d \in Pair /\ ir \in IR
  BY DualPicAssumption DEF PairInv, PairSound
<1>2. Raised(d.master, ir, m) \/ Lowered(d.master, ir, m)
  <2>1. CASE high
    <3>1. m = SetLine(d.master, ir, TRUE)
      BY <2>1 DEF SetLine
    <3> QED BY <1>1, <3>1, RaiseSound
  <2>2. CASE ~high
    <3>1. m = SetLine(d.master, ir, FALSE)
      BY <2>2 DEF SetLine
    <3> QED BY <1>1, <3>1, LowerSound
  <2> QED BY <2>1, <2>2
<1> HIDE DEF m
<1>3. /\ Sound(m) /\ Relatched(d.master, m)
      /\ m.pins \subseteq d.master.pins \cup {ir}
      /\ m.pins \ {ir} = d.master.pins \ {ir}
      /\ m.irr \ {ir} = d.master.irr \ {ir}
  BY <1>2 DEF Raised, Lowered
<1>4. /\ Used(m) /\ m.isMaster
      /\ m.initialized = d.master.initialized /\ m.single = d.master.single
      /\ m.slaveMask = d.master.slaveMask
  BY <1>1, <1>3 DEF Used, Relatched, Sound, Chip
<1>5. b \in Pair /\ b.master = m /\ b.slave = d.slave
  BY <1>1, <1>3 DEF Pair, Sound
<1> HIDE DEF b
<1>6. CascadeActive(b) <=> CascadeActive(d)
  BY <1>4, <1>5 DEF CascadeActive
<1>7. CascadeReady(b)
  BY <1>3, <1>5, <1>6 DEF CascadeReady, PairInv, PairSound
<1>8. PairSound(b)
  BY <1>3, <1>4, <1>5, <1>7 DEF PairInv, PairSound
<1>9. CascadeActive(b) => ir # d.slave.slaveId
  BY <1>5, <1>8, CascadeIsNoDevice
<1>10. PinFollows(b)
  BY <1>3, <1>5, <1>6, <1>9 DEF PinFollows, PairInv
<1>11. ReachesMaster(b)
  BY <1>3, <1>5, <1>6, <1>9 DEF ReachesMaster, PairInv
<1>12. PairInv(b)
  BY <1>8, <1>10, <1>11 DEF PairInv
<1> QED BY <1>12 DEF SetMasterLine, b, m

(* The slave's half of an acknowledge: afterwards a slave whose requests    *)
(* are all on high pins and that does not end interrupts by itself has none *)
(* to signal.                                                               *)
LEMMA SlaveAckSound ==
  ASSUME NEW s, Sound(s), Used(s), ~s.isMaster
  PROVE  /\ SlaveStep(s, SlaveAck(s))
         /\ ~s.autoEoi /\ s.irr \subseteq s.pins => ~IntPending(SlaveAck(s))
<1> DEFINE ir == Highest(s, Requests(s))
           e == AckIr(s, ir)
<1>1. CASE ~IntPending(s)
  BY <1>1, NoAccess, AccessIsSlaveStep DEF SlaveAck
<1>2. CASE IntPending(s)
  <2>1. ir \in IR
    BY <1>2, RequestsType, HighestIsMember DEF IntPending, Sound, Chip
  <2>2. ~s.autoEoi /\ s.irr \subseteq s.pins => ~IntPending(e)
    BY <1>2, AckSilences
  <2> HIDE DEF ir
  <2>3. Acked(s, ir, e)
    BY <2>1, AckIrSound
  <2> HIDE DEF e
  <2>4. /\ Sound(e)
        /\ e.pins = s.pins /\ e.irr \subseteq s.irr \cup s.pins
        /\ e.isMaster = s.isMaster
        /\ e.slaveMask = s.slaveMask /\ e.slaveId = s.slaveId
        /\ e.autoEoi = s.autoEoi /\ e.pollArmed = s.pollArmed
        /\ e.initialized = s.initialized /\ e.single = s.single
    BY <2>3 DEF Acked, Sound, Chip
  <2>5. SlaveStep(s, e)
    BY <2>4 DEF SlaveStep, SameWiring, Used
  <2> QED BY <1>2, <2>2, <2>5 DEF SlaveAck, e, ir
<1> QED BY <1>1, <1>2
LEMMA AckSyncedInv ==
  ASSUME NEW d, PairInv(d)
  PROVE  PairInv(AckSynced(d))
<1> DEFINE ir == Highest(d.master, Requests(d.master))
           m == AckIr(d.master, ir)
           s == SlaveAck(d.slave)
<1>1. /\ Sound(d.master) /\ Used(d.master) /\ d.master.isMaster
      /\ Sound(d.slave) /\ Used(d.slave) /\ ~d.slave.isMaster
      /\ d \in Pair /\ PairSound(d)
  BY DEF PairInv, PairSound
<1>2. CASE ~IntPending(d.master)
  BY <1>2 DEF AckSynced
<1>3. CASE IntPending(d.master)
  <2>1. ir \in IR
    BY <1>1, <1>3, RequestsType, HighestIsMember DEF IntPending, Sound, Chip
  <2>2. AckSynced(d) = IF CascadeInput(d.master, ir)
                       THEN SyncCascade([master |-> m, slave |-> s])
                       ELSE [d EXCEPT !.master = m]
    BY <1>3 DEF AckSynced
  <2> HIDE DEF ir
  <2>3. Acked(d.master, ir, m)
    BY <1>1, <2>1, AckIrSound
  <2>4. /\ SlaveStep(d.slave, s)
        /\ ~d.slave.autoEoi /\ d.slave.irr \subseteq d.slave.pins
             => ~IntPending(s)
    BY <1>1, SlaveAckSound
  <2> HIDE DEF m, s
  <2>5. /\ Sound(m) /\ m.isMaster /\ m.pins = d.master.pins
        /\ d.master.irr \ {ir} \subseteq m.irr
        /\ m.slaveMask = d.master.slaveMask
        /\ m.autoEoi = d.master.autoEoi /\ m.pollArmed = d.master.pollArmed
        /\ m.initialized = d.master.initialized /\ m.single = d.master.single
    BY <1>1, <2>3 DEF Acked, Sound, Chip
  <2>6. Used(m)
    BY <1>1, <2>5 DEF Used
  <2>7. CASE ~CascadeInput(d.master, ir)
    <3> DEFINE b == [d EXCEPT !.master = m]
    <3>1. b \in Pair /\ b.master = m /\ b.slave = d.slave
      BY <1>1, <2>5 DEF Pair, Sound
    <3> HIDE DEF b
    <3>2. CascadeActive(b) <=> CascadeActive(d)
      BY <2>5, <3>1 DEF CascadeActive
    <3>3. PairSound(b)
      BY <1>1, <2>5, <2>6, <3>1, <3>2 DEF PairSound, CascadeReady
    <3>4. CascadeActive(d) => ir # d.slave.slaveId
      BY <1>1, <2>7 DEF CascadeInput, CascadeActive
    <3>5. PinFollows(b)
      BY <2>5, <3>1, <3>2 DEF PinFollows, PairInv
    <3>6. ReachesMaster(b)
      BY <2>5, <3>1, <3>2, <3>4 DEF ReachesMaster, PairInv
    <3>7. PairInv(b)
      BY <3>3, <3>5, <3>6 DEF PairInv
    <3> QED BY <2>2, <2>7, <3>7 DEF b
  <2>8. CASE CascadeInput(d.master, ir)
    <3> DEFINE b == [master |-> m, slave |-> s]
               e == SyncCascade(b)
    <3>1. b \in Pair /\ b.master = m /\ b.slave = s
      BY <2>4, <2>5 DEF Pair, SlaveStep, Sound
    <3> HIDE DEF b
    <3>2. Synced(b, e)
      BY <2>4, <2>5, <3>1, SyncCascadeSound DEF SlaveStep
    <3> HIDE DEF e
    <3>3. /\ e \in Pair /\ e.slave = s
          /\ Sound(e.master) /\ Relatched(m, e.master)
          /\ CascadeActive(e) <=> CascadeActive(b)
          /\ ~CascadeActive(b) => e = b
      BY <3>1, <3>2 DEF Synced
    <3>4. e.master.isMaster /\ Used(e.master)
      BY <2>5, <2>6, <3>3 DEF Relatched, Used, Sound, Chip
    <3>5. Sound(e.slave) /\ Used(e.slave) /\ ~e.slave.isMaster
      BY <1>1, <2>4, <3>3 DEF SlaveStep
    <3>6. CascadeReady(e)
      <4>1. ASSUME "reinit" \notin guest, ~CascadeActive(e)
            PROVE  e.master.pins \subseteq MasterLines
        <5>1. e.master.pins = d.master.pins
          BY <2>5, <3>1, <3>3, <4>1
        <5>2. CascadeActive(d) => SameWiring(d.slave, s)
          BY <2>4, <4>1 DEF SlaveStep, CascadeActive
        <5>3. ~CascadeActive(d)
          BY <2>5, <3>1, <3>3, <4>1, <5>2 DEF CascadeActive, SameWiring
        <5> QED BY <1>1, <4>1, <5>1, <5>3 DEF PairSound, CascadeReady
      <4>2. ASSUME "drop" \notin guest
            PROVE  e.slave.irr \subseteq e.slave.pins
        BY <1>1, <2>4, <3>3, <4>2 DEF PairSound, CascadeReady, SlaveStep
      <4> QED BY <4>1, <4>2 DEF CascadeReady
    <3>7. PairSound(e)
      BY <3>3, <3>4, <3>5, <3>6 DEF PairSound
    <3>8. PinFollows(e)
      BY <3>1, <3>2, <3>3 DEF PinFollows, Synced
    <3>9. ReachesMaster(e)
      <4>1. KeepsCascadeEdges => ~IntPending(s)
        BY <1>1, <2>4 DEF KeepsCascadeEdges, Used, PairSound, CascadeReady
      <4> QED BY <3>3, <4>1 DEF ReachesMaster
    <3>10. PairInv(e)
      BY <3>7, <3>8, <3>9 DEF PairInv
    <3> QED BY <2>2, <2>8, <3>10 DEF b, e
  <2> QED BY <2>7, <2>8
<1> QED BY <1>2, <1>3

LEMMA AcknowledgeInv ==
  ASSUME NEW d, PairInv(d)
  PROVE  PairInv(Acknowledge(d))
BY SyncInv, AckSyncedInv DEF Acknowledge

----------------------------------------------------------------------------
(* The invariant is inductive.                                              *)

(* What an acknowledge or an EOI makes of the service history.              *)
LEMMA RecordAckType ==
  ASSUME served \in [Chips -> Seq(IR)], pic' \in Pair, RecordAck
  PROVE  served' \in [Chips -> Seq(IR)]
<1>1. ASSUME NEW chip \in Chips
      PROVE  PushNew(served[chip], pic[chip].isr, pic'[chip].isr) \in Seq(IR)
  <2>1. served[chip] \in Seq(IR) /\ pic'[chip].isr \subseteq IR
    BY DEF Pair, Chip, Chips
  <2> DEFINE new == pic'[chip].isr \ pic[chip].isr
             ir == CHOOSE i \in new : TRUE
  <2>2. CASE pic'[chip].isr \subseteq pic[chip].isr
    BY <2>1, <2>2 DEF PushNew
  <2>3. CASE ~(pic'[chip].isr \subseteq pic[chip].isr)
    <3>1. ir \in IR
      BY <2>1, <2>3
    <3>2. Append(served[chip], ir) \in Seq(IR)
      <4> HIDE DEF ir
      <4> QED BY <2>1, <3>1
    <3> QED BY <2>3, <3>2 DEF PushNew
  <2> QED BY <2>2, <2>3
<1> QED BY <1>1 DEF RecordAck

LEMMA PopType ==
  ASSUME NEW stack \in Seq(IR)
  PROVE  Pop(stack) \in Seq(IR)
<1>1. /\ Len(stack) \in Nat
      /\ \A i \in 1 .. Len(stack) - 1 : stack[i] \in IR
  OBVIOUS
<1>2. SubSeq(stack, 1, Len(stack) - 1) \in Seq(IR)
  BY <1>1, SubSeqProperties
<1> QED BY <1>2 DEF Pop

LEMMA ResetInv == PairInv(ResetPair)
<1> DEFINE p == ResetPair
<1>1. p \in Pair /\ Sound(p.master) /\ Sound(p.slave)
  BY ResetSound DEF ResetPair, Pair
<1>2. /\ p.master.isMaster /\ ~p.slave.isMaster
      /\ ~p.master.initialized /\ p.master.pins = {}
      /\ p.slave.irr = {}
      /\ \A c \in {p.master, p.slave} :
            c.slaveMask = {} /\ ~c.autoEoi /\ ~c.pollArmed
  BY DEF ResetPair, ResetRole
<1> HIDE DEF p
<1>3. ~CascadeActive(p)
  BY <1>2 DEF CascadeActive
<1>4. Used(p.master) /\ Used(p.slave) /\ CascadeReady(p)
  BY <1>2 DEF Used, CascadeReady
<1>5. PairInv(p)
  BY <1>1, <1>2, <1>3, <1>4 DEF PairInv, PairSound, PinFollows, ReachesMaster
<1> QED BY <1>5 DEF p

LEMMA InitInv == Init => IInv
BY ResetInv DEF Init, IInv

(* A port write keeps the invariant when what it makes of its chip is an    *)
(* access.                                                                  *)
LEMMA WriteStep ==
  ASSUME IInv, NEW chip \in Chips, NEW e, Access(pic[chip], e),
         WriteChip(chip, e), guest' = guest, served' \in [Chips -> Seq(IR)]
  PROVE  IInv'
<1>1. PairInv(SyncCascade([pic EXCEPT ![chip] = e]))
  BY WriteInv DEF IInv
<1>2. PairInv(pic')
  BY <1>1 DEF WriteChip
<1>3. PairInv(pic)'
  BY <1>2 DEF PairInv, PairSound, PinFollows, ReachesMaster, CascadeReady,
              Used, KeepsCascadeEdges
<1> QED BY <1>3 DEF IInv

(* The same for the other operations on the pair.                           *)
LEMMA PairStep ==
  ASSUME IInv, PairInv(pic'), guest' = guest, served' \in [Chips -> Seq(IR)]
  PROVE  IInv'
<1>1. PairInv(pic)'
  BY DEF PairInv, PairSound, PinFollows, ReachesMaster, CascadeReady,
         Used, KeepsCascadeEdges
<1> QED BY <1>1 DEF IInv

LEMMA NextInv == IInv /\ [Next]_vars => IInv'
<1> SUFFICES ASSUME IInv, [Next]_vars
             PROVE  IInv'
  OBVIOUS
<1>1. /\ PairInv(pic) /\ pic \in Pair
      /\ served \in [Chips -> Seq(IR)]
  BY DEF IInv, PairInv, PairSound
<1>2. ASSUME NEW chip \in Chips, GuestWrite(chip)
      PROVE  IInv'
  <2> DEFINE c == pic[chip]
  <2>1. Sound(c) /\ Used(c)
    BY <1>1 DEF Chips, PairInv, PairSound
  <2> HIDE DEF c
  <2>2. CASE WriteIcw1(chip)
    <3>1. PICK word \in Icw1Words : WriteChip(chip, BeginIcw1(c, word))
      BY <2>2 DEF WriteIcw1, c
    <3>2. Access(c, BeginIcw1(c, word))
      BY <2>1, <2>2, Icw1Access DEF WriteIcw1, c
    <3>3. served' \in [Chips -> Seq(IR)] /\ guest' = guest
      BY <1>1, <2>2 DEF WriteIcw1
    <3> QED BY <3>1, <3>2, <3>3, WriteStep DEF c
  <2>3. CASE WriteData2(chip)
    <3>1. Access(c, WriteIcw2(c))
      BY <2>1, <2>3, Icw2Quiet, QuietAccess DEF WriteData2, c
    <3> QED BY <1>1, <2>3, <3>1, WriteStep DEF WriteData2, c
  <2>4. CASE WriteData3(chip)
    <3>1. PICK mask \in MasterIcw3, id \in SlaveIcw3 :
            WriteChip(chip, WriteIcw3(c, mask, id))
      BY <2>4 DEF WriteData3, c
    <3>2. Access(c, WriteIcw3(c, mask, id))
      BY <2>1, <2>4, Icw3Quiet, QuietAccess DEF WriteData3, c
    <3> QED BY <1>1, <2>4, <3>1, <3>2, WriteStep DEF WriteData3, c
  <2>5. CASE WriteData4(chip)
    <3>1. PICK aeoi \in BOOLEAN, sfnm \in BOOLEAN :
            /\ aeoi => "aeoi" \in guest
            /\ WriteChip(chip, WriteIcw4(c, aeoi, sfnm))
      BY <2>5 DEF WriteData4, c
    <3>2. Quiet(c, WriteIcw4(c, aeoi, sfnm))
      BY <2>1, <2>5, <3>1, Icw4Quiet DEF WriteData4, c
    <3>3. Access(c, WriteIcw4(c, aeoi, sfnm))
      BY <2>1, <3>2, QuietAccess
    <3> QED BY <1>1, <2>5, <3>1, <3>3, WriteStep DEF WriteData4, c
  <2>6. CASE WriteOcw1(chip)
    <3>1. PICK mask \in SUBSET IR : WriteChip(chip, WriteImr(c, mask))
      BY <2>6, DualPicAssumption DEF WriteOcw1, c
    <3>2. Access(c, WriteImr(c, mask))
      BY <2>1, ImrQuiet, QuietAccess
    <3> QED BY <1>1, <2>6, <3>1, <3>2, WriteStep DEF WriteOcw1, c
  <2>7. CASE EndOfInterrupt(chip)
    <3>1. Access(c, Ocw2(c, "eoi", 0))
      <4>1. "eoi" \in Ocw2Commands /\ 0 \in IR
        BY DEF Ocw2Commands
      <4> QED BY <2>1, <4>1, Ocw2Quiet, QuietAccess
    <3>2. served' \in [Chips -> Seq(IR)] /\ guest' = guest
      BY <1>1, <2>7, PopType DEF EndOfInterrupt
    <3> QED BY <2>7, <3>1, <3>2, WriteStep DEF EndOfInterrupt, c
  <2>8. CASE SpecificEoi(chip)
    <3>1. PICK level \in IR : WriteChip(chip, Ocw2(c, "specificEoi", level))
      BY <2>8 DEF SpecificEoi, c
    <3>2. Access(c, Ocw2(c, "specificEoi", level))
      BY <2>1, Ocw2Quiet, QuietAccess DEF Ocw2Commands
    <3> QED BY <1>1, <2>8, <3>1, <3>2, WriteStep DEF SpecificEoi, c
  <2>9. CASE Rotate(chip)
    <3>1. PICK command \in Ocw2Commands, level \in IR :
            WriteChip(chip, Ocw2(c, command, level))
      BY <2>9 DEF Rotate, Ocw2Commands, c
    <3>2. Access(c, Ocw2(c, command, level))
      BY <2>1, Ocw2Quiet, QuietAccess
    <3> QED BY <1>1, <2>9, <3>1, <3>2, WriteStep DEF Rotate, c
  <2>10. CASE WriteOcw3(chip)
    <3>1. PICK mask \in {"keep", "set", "clear"}, poll \in BOOLEAN :
            /\ poll => "poll" \in guest
            /\ WriteChip(chip, Ocw3(c, mask, poll))
      BY <2>10 DEF WriteOcw3, c
    <3>2. Quiet(c, Ocw3(c, mask, poll))
      BY <2>1, <3>1, Ocw3Quiet
    <3>3. Access(c, Ocw3(c, mask, poll))
      BY <2>1, <3>2, QuietAccess
    <3> QED BY <1>1, <2>10, <3>1, <3>3, WriteStep DEF WriteOcw3, c
  <2>11. CASE PollRead(chip)
    <3>1. "poll" \in guest
      BY <2>1, <2>11 DEF PollRead, Used, c
    <3>2. PairInv(pic')
      BY <1>1, <2>11, <3>1, PollInv DEF PollRead
    <3>3. served' \in [Chips -> Seq(IR)]
      BY <1>1, <2>11, <3>2, RecordAckType DEF PollRead, PairInv, PairSound
    <3> QED BY <2>11, <3>2, <3>3, PairStep DEF PollRead
  <2> QED BY <1>2, <2>2, <2>3, <2>4, <2>5, <2>6, <2>7, <2>8, <2>9, <2>10,
             <2>11 DEF GuestWrite
<1>3. CASE WriteElcr
  <2>1. PICK masks \in ElcrMasks :
          pic' = SetElcrLevelMask(pic, masks.master, masks.slave)
    BY <1>3 DEF WriteElcr
  <2>2. masks.master \in SUBSET IR /\ masks.slave \in SUBSET IR
    BY DualPicAssumption
  <2>3. PairInv(pic')
    BY <1>1, <2>1, <2>2, ElcrInv
  <2> QED BY <1>1, <1>3, <2>3, PairStep DEF WriteElcr
<1>4. ASSUME NEW ir \in MasterLines, MasterLine(ir)
      PROVE  IInv'
  <2>1. PairInv(pic')
    BY <1>1, <1>4, MasterLineInv DEF MasterLine
  <2> QED BY <1>1, <1>4, <2>1, PairStep DEF MasterLine
<1>5. ASSUME NEW ir \in SlaveLines, SlaveLine(ir)
      PROVE  IInv'
  <2>1. ir \in IR
    BY DualPicAssumption
  <2>2. PICK high \in BOOLEAN : /\ ~high => MayDrop(pic.slave, ir)
                                /\ pic' = SetSlaveLine(pic, ir, high)
    BY <1>5 DEF SlaveLine
  <2>3. PairInv(pic')
    BY <1>1, <2>1, <2>2, SlaveLineInv
  <2> QED BY <1>1, <1>5, <2>3, PairStep DEF SlaveLine
<1>6. CASE CpuAcknowledge
  <2>1. PairInv(pic')
    BY <1>1, <1>6, AcknowledgeInv DEF CpuAcknowledge
  <2>2. served' \in [Chips -> Seq(IR)]
    BY <1>1, <1>6, <2>1, RecordAckType DEF CpuAcknowledge, PairInv, PairSound
  <2> QED BY <1>6, <2>1, <2>2, PairStep DEF CpuAcknowledge
<1>7. CASE MachineReset
  BY <1>7, ResetInv, PairStep DEF MachineReset
<1>8. CASE UNCHANGED vars
  BY <1>1, <1>8, PairStep DEF vars, IInv
<1> QED BY <1>2, <1>3, <1>4, <1>5, <1>6, <1>7, <1>8 DEF Next

LEMMA IInvHolds == Spec => []IInv
BY InitInv, NextInv, PTL DEF Spec

----------------------------------------------------------------------------
(* Service nests.  For a guest that only nests, neither chip leaves the     *)
(* plain priority order, so an acknowledge pushes an input of strictly      *)
(* higher priority than all in service and an EOI pops the last one.        *)

Plain(c) ==
  /\ ~c.specialMask /\ ~c.specialFullyNested /\ ~c.autoEoi
  /\ c.lowest = NIR - 1

Nested(c, st) ==
  /\ Plain(c)
  /\ c.isr = {st[i] : i \in 1 .. Len(st)}
  /\ \A i, j \in 1 .. Len(st) : i < j => Rank(c, st[j]) < Rank(c, st[i])

NestInv == NestsOnly => \A chip \in Chips : Nested(pic[chip], served[chip])

(* What leaves the service of a chip alone.                                 *)
Unserved(c, e) == e.isr = c.isr /\ (Plain(c) => Plain(e))

LEMMA UnservedNests ==
  ASSUME NEW c, NEW e, NEW st, Nested(c, st), Unserved(c, e)
  PROVE  Nested(e, st)
<1>1. e.lowest = c.lowest
  BY DEF Nested, Unserved, Plain
<1>2. \A ir : Rank(e, ir) = Rank(c, ir)
  BY <1>1 DEF Rank
<1> QED BY <1>2 DEF Nested, Unserved

LEMMA RelatchedUnserved ==
  ASSUME NEW c \in Chip, NEW e, Relatched(c, e)
  PROVE  Unserved(c, e)
BY DEF Relatched, Unserved, Plain, Chip

(* An empty stack and a chip out of reset.                                  *)
LEMMA FreshNests ==
  ASSUME NEW c, c.isr = {}, Plain(c)
  PROVE  Nested(c, <<>>)
<1>1. Len(<<>>) = 0 /\ 1 .. 0 = {}
  OBVIOUS
<1> QED BY <1>1 DEF Nested

(* An acknowledge pushes what it puts in service.                           *)
LEMMA AckNests ==
  ASSUME NEW c, Sound(c), NEW st \in Seq(IR), Nested(c, st),
         NEW ir \in Requests(c)
  PROVE  Nested(AckIr(c, ir), PushNew(st, c.isr, AckIr(c, ir).isr))
<1> DEFINE e == AckIr(c, ir)
<1>1. /\ ir \in IR /\ ir \notin c.isr
      /\ \A hp \in c.isr : Rank(c, ir) < Rank(c, hp)
  BY RequestOutranks, RequestsType DEF Nested, Plain
<1>2. Acked(c, ir, e)
  BY <1>1, AckIrSound
<1> HIDE DEF e
<1>3. /\ e.isr = IF Spurious(c, ir) THEN c.isr ELSE c.isr \cup {ir}
      /\ e.lowest = c.lowest
  BY <1>2 DEF Acked, Nested, Plain
<1>4. Plain(e)
  BY <1>2, <1>3 DEF Acked, Nested, Plain, Sound, Chip
<1>5. CASE Spurious(c, ir)
  <2>1. Unserved(c, e) /\ PushNew(st, c.isr, e.isr) = st
    BY <1>3, <1>4, <1>5 DEF Unserved, PushNew
  <2>2. Nested(e, PushNew(st, c.isr, e.isr))
    BY <2>1, UnservedNests
  <2> QED BY <2>2 DEF e
<1>6. CASE ~Spurious(c, ir)
  <2>1. e.isr = c.isr \cup {ir} /\ e.isr \ c.isr = {ir}
    BY <1>1, <1>3, <1>6
  <2>2. (CHOOSE i \in e.isr \ c.isr : TRUE) = ir
    BY <2>1
  <2>3. PushNew(st, c.isr, e.isr) = Append(st, ir)
    BY <2>1, <2>2 DEF PushNew
  <2> DEFINE n == Len(st)
             tt == Append(st, ir)
  <2>4. /\ n \in Nat /\ Len(tt) = n + 1 /\ tt[n + 1] = ir
        /\ \A i \in 1 .. n : tt[i] = st[i]
    BY <1>1
  <2> HIDE DEF tt, n
  <2>5. c.isr = {st[i] : i \in 1 .. n}
    BY DEF Nested, n
  <2>6. e.isr = {tt[i] : i \in 1 .. Len(tt)}
    <3>1. ASSUME NEW x \in e.isr
          PROVE  \E i \in 1 .. Len(tt) : x = tt[i]
      <4>1. CASE x = ir
        BY <2>4, <4>1
      <4>2. CASE x \in c.isr
        <5>1. PICK i \in 1 .. n : x = st[i]
          BY <2>5, <4>2
        <5> QED BY <2>4, <5>1
      <4> QED BY <2>1, <3>1, <4>1, <4>2
    <3>2. ASSUME NEW i \in 1 .. Len(tt)
          PROVE  tt[i] \in e.isr
      <4>1. CASE i = n + 1
        BY <2>1, <2>4, <4>1
      <4>2. CASE i \in 1 .. n
        BY <2>1, <2>4, <2>5, <4>2
      <4> QED BY <2>4, <4>1, <4>2
    <3> QED BY <3>1, <3>2
  <2>7. \A i : Rank(e, i) = Rank(c, i)
    BY <1>3 DEF Rank
  <2>8. ASSUME NEW i \in 1 .. Len(tt), NEW j \in 1 .. Len(tt), i < j
        PROVE  Rank(e, tt[j]) < Rank(e, tt[i])
    <3>1. i \in 1 .. n /\ tt[i] = st[i] /\ st[i] \in c.isr
      BY <2>4, <2>5, <2>8
    <3>2. CASE j = n + 1
      BY <1>1, <2>4, <2>7, <3>1, <3>2
    <3>3. CASE j \in 1 .. n
      <4>1. tt[j] = st[j] /\ Rank(c, st[j]) < Rank(c, st[i])
        BY <2>4, <2>8, <3>1, <3>3 DEF Nested, n
      <4> QED BY <2>7, <3>1, <4>1
    <3> QED BY <2>4, <3>2, <3>3
  <2>9. Nested(e, tt)
    BY <1>4, <2>6, <2>8 DEF Nested
  <2> QED BY <2>3, <2>9 DEF e, tt
<1> QED BY <1>5, <1>6

(* A non-specific EOI pops the innermost input.                             *)
LEMMA EoiNests ==
  ASSUME NEW c, Sound(c), NEW st \in Seq(IR), Nested(c, st)
  PROVE  Nested(NonSpecificEoi(c, FALSE), Pop(st))
<1> DEFINE e == NonSpecificEoi(c, FALSE)
           n == Len(st)
           ir == Highest(c, c.isr)
<1>1. /\ n \in Nat /\ \A i \in 1 .. n : st[i] \in IR
      /\ c.isr = {st[i] : i \in 1 .. n}
      /\ c.lowest \in IR /\ ~c.specialMask
  BY DEF Nested, Plain, Sound, Chip
<1>2. \A i \in 1 .. n : Rank(c, st[i]) \in 0 .. NIR - 1
  BY <1>1, RankType
<1>3. CASE c.isr = {}
  <2>1. n = 0
    <3>1. n \notin 1 .. n
      BY <1>1, <1>3
    <3> QED BY <1>1, <3>1
  <2>2. st = <<>>
    BY <2>1
  <2>3. e = c
    BY <1>1, <1>3, EoiEndsHighest
  <2> QED BY <2>2, <2>3 DEF Pop
<1>4. CASE c.isr # {}
  <2>1. /\ ir \in c.isr
        /\ \A j \in c.isr : Rank(c, ir) <= Rank(c, j)
        /\ e = [c EXCEPT !.isr = c.isr \ {ir}]
    BY <1>1, <1>4, EoiEndsHighest
  <2> HIDE DEF ir, e
  <2>2. n # 0
    <3>1. PICK i \in 1 .. n : ir = st[i]
      BY <1>1, <2>1
    <3> QED BY <1>1, <3>1
  <2>3. n \in 1 .. n
    BY <1>1, <2>2
  <2>4. \A i \in 1 .. n - 1 : Rank(c, st[n]) < Rank(c, st[i])
    <3>1. \A i \in 1 .. n - 1 : i \in 1 .. n /\ i < n
      BY <1>1
    <3> QED BY <2>3, <3>1 DEF Nested
  <2>5. ir = st[n]
    <3>1. PICK i \in 1 .. n : ir = st[i]
      BY <1>1, <2>1
    <3>2. Rank(c, st[i]) <= Rank(c, st[n])
      BY <1>1, <2>1, <2>3, <3>1
    <3>3. ~(i \in 1 .. n - 1)
      BY SMTT(30), <1>2, <2>3, <2>4, <3>2
    <3> QED BY <1>1, <3>1, <3>3
  <2> DEFINE tt == SubSeq(st, 1, n - 1)
  <2>6. Len(tt) = n - 1 /\ \A i \in 1 .. n - 1 : tt[i] = st[i]
    <3> DEFINE k == n - 1
    <3>2. k \in Nat /\ 1 .. k \subseteq 1 .. n /\ 1 \in 1 .. n + 1
          /\ k \in 0 .. n /\ k - 1 + 1 = k /\ \A i \in 1 .. k : 1 + i - 1 = i
      BY <1>1, <2>2
    <3> HIDE DEF k
    <3>3. \A i \in 1 .. k : st[i] \in IR
      BY <1>1, <3>2
    <3>4. /\ Len(SubSeq(st, 1, k)) = IF 1 <= k THEN k - 1 + 1 ELSE 0
          /\ \A i \in 1 .. k - 1 + 1 : SubSeq(st, 1, k)[i] = st[1 + i - 1]
      BY <3>2, <3>3, SubSeqProperties
    <3>5. /\ Len(SubSeq(st, 1, k)) = k
          /\ \A i \in 1 .. k : SubSeq(st, 1, k)[i] = st[i]
      BY <3>2, <3>4
    <3> QED BY <3>5 DEF k
  <2> HIDE DEF tt
  <2>7. st # <<>> /\ Pop(st) = tt
    BY <2>2 DEF Pop, tt
  <2>8. e.isr = c.isr \ {ir} /\ Plain(e) /\ e.lowest = c.lowest
    BY <2>1 DEF Nested, Plain, Sound, Chip
  <2>9. \A i : Rank(e, i) = Rank(c, i)
    BY <2>8 DEF Rank
  <2> HIDE DEF n
  <2>10. e.isr = {tt[i] : i \in 1 .. Len(tt)}
    <3>1. ASSUME NEW x \in e.isr
          PROVE  \E i \in 1 .. Len(tt) : x = tt[i]
      <4>1. PICK i \in 1 .. n : x = st[i]
        BY <1>1, <2>8
      <4>2. i # n
        BY <2>5, <2>8, <3>1, <4>1
      <4>3. i \in 1 .. n - 1
        BY <1>1, <4>2
      <4> QED BY <2>6, <4>1, <4>3
    <3>2. ASSUME NEW i \in 1 .. Len(tt)
          PROVE  tt[i] \in e.isr
      <4>1. i \in 1 .. n - 1 /\ i \in 1 .. n
        BY <1>1, <2>6
      <4>2. tt[i] = st[i] /\ st[i] \in c.isr
        BY <1>1, <2>6, <4>1
      <4>3. Rank(c, st[n]) < Rank(c, st[i])
        BY <2>4, <4>1
      <4>4. st[i] # st[n]
        BY <1>2, <2>3, <4>1, <4>3
      <4> QED BY <2>5, <2>8, <4>2, <4>4
    <3> QED BY <3>1, <3>2
  <2>11. ASSUME NEW i \in 1 .. Len(tt), NEW j \in 1 .. Len(tt), i < j
         PROVE  Rank(e, tt[j]) < Rank(e, tt[i])
    <3>1. /\ i \in 1 .. n /\ tt[i] = st[i]
          /\ j \in 1 .. n /\ tt[j] = st[j]
      BY <1>1, <2>6
    <3>2. Rank(c, st[j]) < Rank(c, st[i])
      BY <2>11, <3>1 DEF Nested, n
    <3> QED BY <2>9, <3>1, <3>2
  <2>12. Nested(e, tt)
    BY <2>8, <2>10, <2>11 DEF Nested
  <2> QED BY <2>7, <2>12 DEF e
<1> QED BY <1>3, <1>4

(* The register accesses that serve nothing, for a guest that only nests.   *)
LEMMA WritesServeNothing ==
  ASSUME NestsOnly, NEW c, Sound(c)
  PROVE  /\ Unserved(c, WriteIcw2(c))
         /\ \A mask \in SUBSET IR, id \in IR : Unserved(c, WriteIcw3(c, mask, id))
         /\ \A aeoi, sfnm \in BOOLEAN :
              (aeoi => "aeoi" \in guest) /\ (sfnm => "sfnm" \in guest)
                => Unserved(c, WriteIcw4(c, aeoi, sfnm))
         /\ \A mask \in SUBSET IR : Unserved(c, WriteImr(c, mask))
         /\ \A mask \in {"keep", "set", "clear"}, poll \in BOOLEAN :
              (mask # "keep" => "specialMask" \in guest)
                => Unserved(c, Ocw3(c, mask, poll))
         /\ \A mask \in SUBSET IR : Unserved(c, SetElcr(c, mask))
<1>1. "aeoi" \notin guest /\ "sfnm" \notin guest /\ "specialMask" \notin guest
  BY DEF NestsOnly
<1>2. Unserved(c, WriteIcw2(c))
  BY DEF Unserved, Plain, WriteIcw2, Icw4OrFinish, FinishInit, Sound, Chip
<1>3. ASSUME NEW mask \in SUBSET IR, NEW id \in IR
      PROVE  Unserved(c, WriteIcw3(c, mask, id))
  BY DEF Unserved, Plain, WriteIcw3, Icw4OrFinish, FinishInit, Sound, Chip
<1>4. ASSUME NEW aeoi \in BOOLEAN, NEW sfnm \in BOOLEAN,
             aeoi => "aeoi" \in guest, sfnm => "sfnm" \in guest
      PROVE  Unserved(c, WriteIcw4(c, aeoi, sfnm))
  <2>1. aeoi = FALSE /\ (c.isMaster /\ sfnm) = FALSE
    BY <1>1, <1>4
  <2>2. WriteIcw4(c, aeoi, sfnm)
          = FinishInit([c EXCEPT !.autoEoi = FALSE,
                                 !.specialFullyNested = FALSE])
    BY <2>1 DEF WriteIcw4
  <2> QED BY <2>2 DEF Unserved, Plain, FinishInit, Sound, Chip
<1>5. ASSUME NEW mask \in SUBSET IR
      PROVE  Unserved(c, WriteImr(c, mask))
  BY DEF Unserved, Plain, WriteImr, Sound, Chip
<1>6. ASSUME NEW mask \in {"keep", "set", "clear"}, NEW poll \in BOOLEAN,
             mask # "keep" => "specialMask" \in guest
      PROVE  Unserved(c, Ocw3(c, mask, poll))
  <2>1. mask = "keep"
    BY <1>1, <1>6
  <2>2. Ocw3(c, mask, poll)
          = [c EXCEPT !.specialMask = c.specialMask,
                      !.pollArmed = c.pollArmed \/ poll]
    BY <2>1 DEF Ocw3
  <2> QED BY <2>2 DEF Unserved, Plain, Sound, Chip
<1>7. ASSUME NEW mask \in SUBSET IR
      PROVE  Unserved(c, SetElcr(c, mask))
  BY DEF Unserved, Plain, SetElcr, RefreshLevelIrr, Sound, Chip
<1> QED BY <1>2, <1>3, <1>4, <1>5, <1>6, <1>7

LEMMA Icw1Nests ==
  ASSUME NEW c, NEW word
  PROVE  Nested(BeginIcw1(c, word), <<>>)
<1>1. BeginIcw1(c, word).isr = {} /\ Plain(BeginIcw1(c, word))
  BY DEF BeginIcw1, ResetRole, Plain
<1> QED BY <1>1, FreshNests

(* An acknowledge by either chip, and a poll, push what they serve.         *)
LEMMA PollNests ==
  ASSUME NEW c, Sound(c), NEW st \in Seq(IR), Nested(c, st)
  PROVE  Nested(TakePoll(c), PushNew(st, c.isr, TakePoll(c).isr))
<1> DEFINE b == [c EXCEPT !.pollArmed = FALSE]
           ir == Highest(c, Requests(c))
<1>1. /\ b \in Chip /\ b.isr = c.isr
      /\ Unserved(c, b)
      /\ \A i : IsLevel(b, i) <=> IsLevel(c, i)
      /\ b.initialized = c.initialized /\ b.phase = c.phase
      /\ b.irr = c.irr /\ b.pins = c.pins /\ b.imr = c.imr
      /\ b.lowest = c.lowest /\ b.specialMask = c.specialMask
      /\ b.specialFullyNested = c.specialFullyNested
      /\ b.isMaster = c.isMaster /\ b.slaveMask = c.slaveMask
  BY DEF Sound, Chip, Unserved, Plain, IsLevel
<1> HIDE DEF b
<1>2. Nested(b, st)
  BY <1>1, UnservedNests
<1>3. Sound(b)
  BY <1>1 DEF Sound
<1>4. CASE ~IntPending(c)
  <2>1. TakePoll(c) = b
    BY <1>4 DEF TakePoll, b
  <2>2. PushNew(st, c.isr, b.isr) = st
    BY <1>1 DEF PushNew
  <2> QED BY <1>2, <2>1, <2>2
<1>5. CASE IntPending(c)
  <2>1. ir \in Requests(c)
    BY <1>5, RequestsType, HighestIsMember DEF IntPending, Sound, Chip
  <2> HIDE DEF ir
  <2>2. \A hp, i : InServiceBlocks(b, hp, i) <=> InServiceBlocks(c, hp, i)
    BY <1>1 DEF InServiceBlocks, Rank
  <2>3. ir \in Requests(b)
    BY <1>1, <2>1, <2>2 DEF Requests
  <2>4. Nested(AckIr(b, ir), PushNew(st, b.isr, AckIr(b, ir).isr))
    BY <1>2, <1>3, <2>3, AckNests
  <2>5. TakePoll(c) = AckIr(b, ir)
    BY <1>5 DEF TakePoll, b, ir
  <2> QED BY <1>1, <2>4, <2>5
<1> QED BY <1>4, <1>5

LEMMA PushNothing ==
  ASSUME NEW st, NEW old
  PROVE  PushNew(st, old, old) = st
BY DEF PushNew

LEMMA SlaveAckNests ==
  ASSUME NEW s, Sound(s), NEW st \in Seq(IR), Nested(s, st)
  PROVE  Nested(SlaveAck(s), PushNew(st, s.isr, SlaveAck(s).isr))
<1>1. CASE ~IntPending(s)
  BY <1>1, PushNothing DEF SlaveAck
<1>2. CASE IntPending(s)
  <2>1. Highest(s, Requests(s)) \in Requests(s)
    BY <1>2, RequestsType, HighestIsMember DEF IntPending, Sound, Chip
  <2>2. SlaveAck(s) = AckIr(s, Highest(s, Requests(s)))
    BY <1>2 DEF SlaveAck
  <2> QED BY <2>1, <2>2, AckNests
<1> QED BY <1>1, <1>2

(* sync_cascade serves nothing on either chip.                              *)
LEMMA SyncServesNothing ==
  ASSUME NEW b \in Pair, Sound(b.master), NEW chip \in Chips
  PROVE  Unserved(b[chip], SyncCascade(b)[chip])
<1>1. b.master \in Chip /\ b.slave \in Chip
  BY DEF Pair
<1>2. /\ Relatched(b.master, SyncCascade(b).master)
      /\ Relatched(b.slave, SyncCascade(b).slave)
  BY SyncSettles DEF Settles
<1>3. /\ Unserved(b.master, SyncCascade(b).master)
      /\ Unserved(b.slave, SyncCascade(b).slave)
  BY <1>1, <1>2, RelatchedUnserved
<1> QED BY <1>3 DEF Chips

(* The pair after an operation on one chip.                                 *)
LEMMA OneChip ==
  ASSUME NEW d \in Pair, NEW chip \in Chips, NEW e \in Chip
  PROVE  /\ [d EXCEPT ![chip] = e] \in Pair
         /\ [d EXCEPT ![chip] = e][chip] = e
         /\ \A other \in Chips : other # chip =>
              [d EXCEPT ![chip] = e][other] = d[other]
BY DEF Pair, Chips

(* A port write keeps both histories when it keeps that of its chip.        *)
LEMMA WriteNests ==
  ASSUME NEW d, PairInv(d), NEW old, \A x \in Chips : Nested(d[x], old[x]),
         NEW chip \in Chips, NEW e, Access(d[chip], e),
         NEW new, Nested(e, new[chip]),
         \A x \in Chips : x # chip => new[x] = old[x]
  PROVE  \A x \in Chips :
           Nested(SyncCascade([d EXCEPT ![chip] = e])[x], new[x])
<1> DEFINE b == [d EXCEPT ![chip] = e]
<1>1. d \in Pair /\ Sound(d.master) /\ Sound(e) /\ e \in Chip
  BY DEF PairInv, PairSound, Access, Sound
<1>2. /\ b \in Pair /\ b[chip] = e
      /\ \A x \in Chips : x # chip => b[x] = d[x]
  BY <1>1, OneChip
<1> HIDE DEF b
<1>3. Sound(b.master)
  BY <1>1, <1>2 DEF Chips
<1>4. ASSUME NEW x \in Chips
      PROVE  Nested(SyncCascade(b)[x], new[x])
  <2>1. Nested(b[x], new[x])
    BY <1>2
  <2>2. Unserved(b[x], SyncCascade(b)[x])
    BY <1>2, <1>3, SyncServesNothing
  <2> QED BY <2>1, <2>2, UnservedNests
<1> QED BY <1>4 DEF b

(* The CPU's acknowledge pushes what it serves on each chip.                *)
LEMMA AckSyncedNests ==
  ASSUME NEW d, PairInv(d), NEW old \in [Chips -> Seq(IR)],
         \A x \in Chips : Nested(d[x], old[x]), NEW chip \in Chips
  PROVE  Nested(AckSynced(d)[chip],
                PushNew(old[chip], d[chip].isr, AckSynced(d)[chip].isr))
<1> DEFINE ir == Highest(d.master, Requests(d.master))
           m == AckIr(d.master, ir)
           s == SlaveAck(d.slave)
           b == [master |-> m, slave |-> s]
<1>1. /\ Sound(d.master) /\ Sound(d.slave) /\ d \in Pair
      /\ Used(d.slave) /\ ~d.slave.isMaster
      /\ Nested(d.master, old["master"]) /\ Nested(d.slave, old["slave"])
      /\ old["master"] \in Seq(IR) /\ old["slave"] \in Seq(IR)
  BY DEF PairInv, PairSound, Chips
<1>2. CASE ~IntPending(d.master)
  <2>1. AckSynced(d) = d
    BY <1>2 DEF AckSynced
  <2> QED BY <2>1, PushNothing
<1>3. CASE IntPending(d.master)
  <2>1. ir \in Requests(d.master) /\ ir \in IR
    BY <1>1, <1>3, RequestsType, HighestIsMember DEF IntPending, Sound, Chip
  <2>2. AckSynced(d) = IF CascadeInput(d.master, ir) THEN SyncCascade(b)
                       ELSE [d EXCEPT !.master = m]
    BY <1>3 DEF AckSynced
  <2> HIDE DEF ir
  <2>3. /\ Sound(m) /\ m \in Chip
        /\ Nested(m, PushNew(old["master"], d.master.isr, m.isr))
    <3>1. Acked(d.master, ir, m)
      BY <1>1, <2>1, AckIrSound
    <3>2. Nested(m, PushNew(old["master"], d.master.isr, m.isr))
      BY <1>1, <2>1, AckNests
    <3> QED BY <3>1, <3>2 DEF Acked, Sound
  <2>4. /\ s \in Chip
        /\ Nested(s, PushNew(old["slave"], d.slave.isr, s.isr))
    <3>1. SlaveStep(d.slave, s)
      BY <1>1, SlaveAckSound
    <3>2. Nested(s, PushNew(old["slave"], d.slave.isr, s.isr))
      BY <1>1, SlaveAckNests
    <3> QED BY <3>1, <3>2 DEF SlaveStep, Sound
  <2> HIDE DEF m, s
  <2>5. CASE CascadeInput(d.master, ir)
    <3>1. b \in Pair /\ b.master = m /\ b.slave = s
      BY <2>3, <2>4 DEF Pair
    <3> HIDE DEF b
    <3>2. Unserved(b[chip], SyncCascade(b)[chip])
      BY <2>3, <3>1, SyncServesNothing
    <3>3. Nested(b[chip], PushNew(old[chip], d[chip].isr, b[chip].isr))
      BY <2>3, <2>4, <3>1 DEF Chips
    <3>4. SyncCascade(b)[chip].isr = b[chip].isr
      BY <3>2 DEF Unserved
    <3> QED BY <2>2, <2>5, <3>2, <3>3, <3>4, UnservedNests
  <2>6. CASE ~CascadeInput(d.master, ir)
    <3>1. AckSynced(d) = [d EXCEPT !.master = m]
      BY <2>2, <2>6
    <3>2. AckSynced(d).master = m /\ AckSynced(d).slave = d.slave
      BY <1>1, <3>1 DEF Pair
    <3> HIDE DEF m
    <3> QED BY <1>1, <2>3, <3>2, PushNothing DEF Chips
  <2> QED BY <2>5, <2>6
<1> QED BY <1>2, <1>3

LEMMA InitNests == Init => NestInv
<1> SUFFICES ASSUME Init, NestsOnly
             PROVE  \A chip \in Chips : Nested(pic[chip], served[chip])
  BY DEF NestInv
<1>1. \A chip \in Chips : pic[chip].isr = {} /\ Plain(pic[chip])
                          /\ served[chip] = <<>>
  BY DEF Init, ResetPair, ResetRole, Plain, Chips
<1> QED BY <1>1, FreshNests

LEMMA NextNests == IInv /\ NestInv /\ [Next]_vars => NestInv'
<1> SUFFICES ASSUME IInv, NestInv, [Next]_vars, NestsOnly, guest' = guest
             PROVE  \A chip \in Chips : Nested(pic'[chip], served'[chip])
  <2>1. [Next]_vars => guest' = guest
    BY DEF Next, vars, GuestWrite, WriteIcw1, WriteData2, WriteData3,
           WriteData4, WriteOcw1, EndOfInterrupt, SpecificEoi, Rotate,
           WriteOcw3, PollRead, WriteElcr, MasterLine, SlaveLine,
           CpuAcknowledge, MachineReset
  <2> QED BY <2>1 DEF NestInv, NestsOnly, Nested, Plain
<1>1. /\ PairInv(pic) /\ pic \in Pair
      /\ served \in [Chips -> Seq(IR)]
      /\ \A chip \in Chips : Nested(pic[chip], served[chip])
      /\ \A chip \in Chips : Sound(pic[chip]) /\ Used(pic[chip])
  BY DEF IInv, PairInv, PairSound, NestInv, Chips
<1>2. ASSUME NEW chip \in Chips, NEW e, Access(pic[chip], e),
             WriteChip(chip, e), served' = served, Unserved(pic[chip], e)
      PROVE  \A x \in Chips : Nested(pic'[x], served'[x])
  <2>1. Nested(e, served'[chip])
    BY <1>1, <1>2, UnservedNests
  <2>2. \A x \in Chips : Nested(SyncCascade([pic EXCEPT ![chip] = e])[x],
                                served'[x])
    BY <1>1, <1>2, <2>1, WriteNests
  <2> QED BY <1>2, <2>2 DEF WriteChip
<1>3. ASSUME NEW chip \in Chips, GuestWrite(chip)
      PROVE  \A x \in Chips : Nested(pic'[x], served'[x])
  <2> DEFINE c == pic[chip]
  <2>1. Sound(c) /\ Used(c) /\ Nested(c, served[chip])
        /\ served[chip] \in Seq(IR)
    BY <1>1
  <2> HIDE DEF c
  <2>2. CASE WriteIcw1(chip)
    <3>1. PICK word \in Icw1Words : WriteChip(chip, BeginIcw1(c, word))
      BY <2>2 DEF WriteIcw1, c
    <3>2. Access(c, BeginIcw1(c, word))
      BY <2>1, <2>2, Icw1Access DEF WriteIcw1, c
    <3>3. served'[chip] = <<>>
          /\ \A x \in Chips : x # chip => served'[x] = served[x]
      BY <1>1, <2>2 DEF WriteIcw1
    <3>4. Nested(BeginIcw1(c, word), served'[chip])
      BY <3>3, Icw1Nests
    <3>5. \A x \in Chips :
            Nested(SyncCascade([pic EXCEPT ![chip] = BeginIcw1(c, word)])[x],
                   served'[x])
      BY <1>1, <3>2, <3>3, <3>4, WriteNests DEF c
    <3> QED BY <3>1, <3>5 DEF WriteChip
  <2>3. CASE WriteData2(chip)
    <3>1. Access(c, WriteIcw2(c))
      BY <2>1, <2>3, Icw2Quiet, QuietAccess DEF WriteData2, c
    <3>2. Unserved(c, WriteIcw2(c))
      BY <2>1, WritesServeNothing
    <3> QED BY <1>2, <2>3, <3>1, <3>2 DEF WriteData2, c
  <2>4. CASE WriteData3(chip)
    <3>1. PICK mask \in MasterIcw3, id \in SlaveIcw3 :
            WriteChip(chip, WriteIcw3(c, mask, id))
      BY <2>4 DEF WriteData3, c
    <3>2. Access(c, WriteIcw3(c, mask, id))
      BY <2>1, <2>4, Icw3Quiet, QuietAccess DEF WriteData3, c
    <3>3. mask \in SUBSET IR /\ id \in IR
      BY DualPicAssumption
    <3>4. Unserved(c, WriteIcw3(c, mask, id))
      BY <2>1, <3>3, WritesServeNothing
    <3> QED BY <1>2, <2>4, <3>1, <3>2, <3>4 DEF WriteData3, c
  <2>5. CASE WriteData4(chip)
    <3>1. PICK aeoi \in BOOLEAN, sfnm \in BOOLEAN :
            /\ aeoi => "aeoi" \in guest
            /\ sfnm => "sfnm" \in guest
            /\ WriteChip(chip, WriteIcw4(c, aeoi, sfnm))
      BY <2>5 DEF WriteData4, c
    <3>2. Access(c, WriteIcw4(c, aeoi, sfnm))
      BY <2>1, <2>5, <3>1, Icw4Quiet, QuietAccess DEF WriteData4, c
    <3>3. Unserved(c, WriteIcw4(c, aeoi, sfnm))
      BY <2>1, <3>1, WritesServeNothing
    <3> QED BY <1>2, <2>5, <3>1, <3>2, <3>3 DEF WriteData4, c
  <2>6. CASE WriteOcw1(chip)
    <3>1. PICK mask \in SUBSET IR : WriteChip(chip, WriteImr(c, mask))
      BY <2>6, DualPicAssumption DEF WriteOcw1, c
    <3>2. Access(c, WriteImr(c, mask)) /\ Unserved(c, WriteImr(c, mask))
      BY <2>1, ImrQuiet, QuietAccess, WritesServeNothing
    <3> QED BY <1>2, <2>6, <3>1, <3>2 DEF WriteOcw1, c
  <2>7. CASE EndOfInterrupt(chip)
    <3> DEFINE e == NonSpecificEoi(c, FALSE)
    <3>1. Access(c, e)
      BY <2>1, EoiQuiet, QuietAccess
    <3>2. served'[chip] = Pop(served[chip])
          /\ \A x \in Chips : x # chip => served'[x] = served[x]
      BY <1>1, <2>7 DEF EndOfInterrupt
    <3>3. Nested(e, served'[chip])
      BY <2>1, <3>2, EoiNests
    <3>4. WriteChip(chip, e)
      BY <2>7 DEF EndOfInterrupt, Ocw2, c
    <3> HIDE DEF e
    <3>5. \A x \in Chips : Nested(SyncCascade([pic EXCEPT ![chip] = e])[x],
                                  served'[x])
      BY <1>1, <3>1, <3>2, <3>3, WriteNests DEF c
    <3> QED BY <3>4, <3>5 DEF WriteChip
  <2>8. CASE SpecificEoi(chip)
    BY <2>8 DEF SpecificEoi, NestsOnly
  <2>9. CASE Rotate(chip)
    BY <2>9 DEF Rotate, NestsOnly
  <2>10. CASE WriteOcw3(chip)
    <3>1. PICK mask \in {"keep", "set", "clear"}, poll \in BOOLEAN :
            /\ mask # "keep" => "specialMask" \in guest
            /\ poll => "poll" \in guest
            /\ WriteChip(chip, Ocw3(c, mask, poll))
      BY <2>10 DEF WriteOcw3, c
    <3>2. Access(c, Ocw3(c, mask, poll))
      BY <2>1, <3>1, Ocw3Quiet, QuietAccess
    <3>3. Unserved(c, Ocw3(c, mask, poll))
      BY <2>1, <3>1, WritesServeNothing
    <3> QED BY <1>2, <2>10, <3>1, <3>2, <3>3 DEF WriteOcw3, c
  <2>11. CASE PollRead(chip)
    <3> DEFINE e == TakePoll(c)
    <3>1. "poll" \in guest
      BY <2>1, <2>11 DEF PollRead, Used, c
    <3>2. SyncCascade(pic) = pic
      BY <1>1, SyncIdle DEF PairInv, PinFollows, Chips
    <3>3. pic' = SyncCascade([pic EXCEPT ![chip] = e])
      BY <2>11, <3>2 DEF PollRead, PollCommandRead, c
    <3>4. Access(c, e)
      BY <2>1, <3>1, PollAccess
    <3>5. Nested(e, PushNew(served[chip], c.isr, e.isr))
      BY <2>1, PollNests
    <3> HIDE DEF e
    <3> DEFINE b == [pic EXCEPT ![chip] = e]
    <3>6. /\ b \in Pair /\ b[chip] = e
          /\ \A x \in Chips : x # chip => b[x] = pic[x]
      BY <1>1, <3>4, OneChip DEF Access, Sound
    <3> HIDE DEF b
    <3>7. Sound(b.master)
      BY <1>1, <3>4, <3>6 DEF Access, Chips
    <3>8. \A x \in Chips : Unserved(b[x], pic'[x])
      BY <3>3, <3>6, <3>7, SyncServesNothing DEF b
    <3>9. \A x \in Chips :
            served'[x] = PushNew(served[x], pic[x].isr, b[x].isr)
      BY <2>11, <3>8 DEF PollRead, RecordAck, Unserved
    <3>10. \A x \in Chips : Nested(b[x], served'[x])
      <4>1. ASSUME NEW x \in Chips, x # chip
            PROVE  Nested(b[x], served'[x])
        <5>1. b[x] = pic[x]
          BY <3>6, <4>1
        <5>2. served'[x] = served[x]
          BY <3>9, <5>1, PushNothing
        <5> QED BY <1>1, <5>1, <5>2
      <4>2. Nested(b[chip], served'[chip])
        BY <3>5, <3>6, <3>9 DEF c
      <4> QED BY <4>1, <4>2
    <3> QED BY <3>8, <3>10, UnservedNests
  <2> QED BY <1>3, <2>2, <2>3, <2>4, <2>5, <2>6, <2>7, <2>8, <2>9, <2>10,
             <2>11 DEF GuestWrite
<1>4. ASSUME NEW b \in Pair, Sound(b.master), served' = served,
             \A x \in Chips : Unserved(pic[x], b[x]),
             pic' = SyncCascade(b) \/ pic' = b
      PROVE  \A x \in Chips : Nested(pic'[x], served'[x])
  <2>1. \A x \in Chips : Nested(b[x], served[x])
    BY <1>1, <1>4, UnservedNests
  <2>2. \A x \in Chips : Unserved(b[x], SyncCascade(b)[x])
    BY <1>4, SyncServesNothing
  <2>3. \A x \in Chips : Nested(SyncCascade(b)[x], served[x])
    BY <2>1, <2>2, UnservedNests
  <2> QED BY <1>4, <2>1, <2>3
<1>5. CASE WriteElcr
  <2>1. PICK masks \in ElcrMasks :
          pic' = SetElcrLevelMask(pic, masks.master, masks.slave)
    BY <1>5 DEF WriteElcr
  <2> DEFINE mm == masks.master \ MasterEdgeOnly
             ss == masks.slave \ SlaveEdgeOnly
             b == [master |-> SetElcr(pic.master, mm),
                   slave  |-> SetElcr(pic.slave, ss)]
  <2>2. mm \in SUBSET IR /\ ss \in SUBSET IR
    BY DualPicAssumption
  <2>3. pic' = SyncCascade(b)
    BY <2>1 DEF SetElcrLevelMask
  <2> HIDE DEF mm, ss
  <2>4. /\ Sound(b.master) /\ b.master \in Chip /\ b.slave \in Chip
        /\ Unserved(pic.master, b.master) /\ Unserved(pic.slave, b.slave)
    BY <1>1, <2>2, ElcrAccess, WritesServeNothing DEF Access, Sound, Chips
  <2>5. b \in Pair
    BY <2>4 DEF Pair
  <2>6. \A x \in Chips : Unserved(pic[x], b[x])
    BY <2>4 DEF Chips
  <2>7. served' = served
    BY <1>5 DEF WriteElcr
  <2> HIDE DEF b
  <2> QED BY <1>4, <2>3, <2>4, <2>5, <2>6, <2>7
<1>6. ASSUME NEW chip \in Chips, NEW ir \in IR, NEW high \in BOOLEAN,
             NEW b, b = [pic EXCEPT ![chip] = SetLine(pic[chip], ir, high)]
      PROVE  /\ b \in Pair /\ Sound(b.master)
             /\ \A x \in Chips : Unserved(pic[x], b[x])
  <2> DEFINE e == SetLine(pic[chip], ir, high)
  <2>1. Sound(e) /\ Relatched(pic[chip], e)
    <3>1. CASE high
      <4>1. e = SetLine(pic[chip], ir, TRUE)
        BY <3>1 DEF SetLine
      <4> QED BY <1>1, <4>1, RaiseSound DEF Raised
    <3>2. CASE ~high
      <4>1. e = SetLine(pic[chip], ir, FALSE)
        BY <3>2 DEF SetLine
      <4> QED BY <1>1, <4>1, LowerSound DEF Lowered
    <3> QED BY <3>1, <3>2
  <2> HIDE DEF e
  <2>2. \A x \in Chips : pic[x] \in Chip /\ Unserved(pic[x], pic[x])
    BY <1>1 DEF Unserved, Sound
  <2>3. Unserved(pic[chip], e)
    BY <2>1, <2>2, RelatchedUnserved
  <2>4. /\ b \in Pair /\ b[chip] = e
        /\ \A x \in Chips : x # chip => b[x] = pic[x]
    <3>1. b = [pic EXCEPT ![chip] = e]
      BY <1>6 DEF e
    <3>2. e \in Chip /\ pic \in Pair
      BY <1>1, <2>1 DEF Sound
    <3>3. /\ [pic EXCEPT ![chip] = e] \in Pair
          /\ [pic EXCEPT ![chip] = e][chip] = e
          /\ \A x \in Chips : x # chip =>
               [pic EXCEPT ![chip] = e][x] = pic[x]
      BY <3>2, OneChip
    <3> QED BY <3>1, <3>3
  <2>5. Sound(b.master)
    BY <1>1, <2>1, <2>4 DEF Chips
  <2> QED BY <2>2, <2>3, <2>4, <2>5
<1>7. ASSUME NEW ir \in MasterLines, MasterLine(ir)
      PROVE  \A x \in Chips : Nested(pic'[x], served'[x])
  <2>1. PICK high \in BOOLEAN : pic' = SetMasterLine(pic, ir, high)
    BY <1>7 DEF MasterLine
  <2>2. pic' = [pic EXCEPT !["master"] = SetLine(pic["master"], ir, high)]
    BY <2>1 DEF SetMasterLine
  <2>3. ir \in IR /\ served' = served /\ "master" \in Chips
    BY <1>7, DualPicAssumption DEF MasterLine, Chips
  <2>4. /\ pic' \in Pair /\ Sound(pic'.master)
        /\ \A x \in Chips : Unserved(pic[x], pic'[x])
    BY <1>6, <2>2, <2>3
  <2> QED BY <1>4, <2>3, <2>4
<1>8. ASSUME NEW ir \in SlaveLines, SlaveLine(ir)
      PROVE  \A x \in Chips : Nested(pic'[x], served'[x])
  <2>1. PICK high \in BOOLEAN : pic' = SetSlaveLine(pic, ir, high)
    BY <1>8 DEF SlaveLine
  <2> DEFINE b == [pic EXCEPT !["slave"] = SetLine(pic["slave"], ir, high)]
  <2>2. pic' = SyncCascade(b)
    BY <2>1 DEF SetSlaveLine
  <2>3. ir \in IR /\ served' = served /\ "slave" \in Chips
    BY <1>8, DualPicAssumption DEF SlaveLine, Chips
  <2>4. /\ b \in Pair /\ Sound(b.master)
        /\ \A x \in Chips : Unserved(pic[x], b[x])
    BY <1>6, <2>3
  <2> HIDE DEF b
  <2> QED BY <1>4, <2>2, <2>3, <2>4
<1>9. CASE CpuAcknowledge
  <2>1. SyncCascade(pic) = pic
    BY <1>1, SyncIdle DEF PairInv, PinFollows, Chips
  <2>2. pic' = AckSynced(pic)
    BY <1>9, <2>1 DEF CpuAcknowledge, Acknowledge
  <2>3. \A x \in Chips :
          served'[x] = PushNew(served[x], pic[x].isr, pic'[x].isr)
    BY <1>9 DEF CpuAcknowledge, RecordAck
  <2> QED BY <1>1, <2>2, <2>3, AckSyncedNests
<1>10. CASE MachineReset
  <2>1. \A x \in Chips : /\ served'[x] = <<>>
                         /\ pic'[x].isr = {} /\ Plain(pic'[x])
    BY <1>10 DEF MachineReset, ResetPair, ResetRole, Plain, Chips
  <2> QED BY <2>1, FreshNests
<1>11. CASE UNCHANGED vars
  BY <1>1, <1>11 DEF vars
<1> QED BY <1>3, <1>5, <1>7, <1>8, <1>9, <1>10, <1>11 DEF Next
----------------------------------------------------------------------------
(* Edge requests stick.  What one step may make of a chip: an edge request  *)
(* goes by its acknowledge, an ICW1 or a switch to level sense.             *)

Retires(c, d) ==
  \A ir \in IR :
    (ir \in c.irr /\ ~IsLevel(c, ir) /\ ir \notin d.irr)
      => \/ d.phase = "icw2"
         \/ IsLevel(d, ir)
         \/ ir \in Requests(c) /\ (ir \in d.isr \/ d.autoEoi
                                     \/ ir \notin c.pins)

LEMMA SettlesRetires ==
  ASSUME NEW c, NEW e \in Chip, NEW f, Retires(c, e), Settles(e, f)
  PROVE  Retires(c, f)
<1>1. /\ f.phase = e.phase /\ f.isr = e.isr /\ f.autoEoi = e.autoEoi
      /\ \A ir \in IR : IsLevel(f, ir) <=> IsLevel(e, ir)
  BY DEF Settles, Relatched, IsLevel, Chip
<1> QED BY <1>1 DEF Retires, Settles

LEMMA AckRetires ==
  ASSUME NEW c, Sound(c), NEW ir \in Requests(c)
  PROVE  Retires(c, AckIr(c, ir))
<1> DEFINE d == AckIr(c, ir)
<1>1. ir \in IR
  BY RequestsType
<1>2. Acked(c, ir, d)
  BY <1>1, AckIrSound
<1> HIDE DEF d
<1>3. d.autoEoi = c.autoEoi
  BY <1>2 DEF Acked, Sound, Chip
<1>4. \/ ir \in d.isr
      \/ d.autoEoi
      \/ ir \notin c.pins
  BY <1>2, <1>3 DEF Acked, Spurious
<1>5. \A i \in c.irr : i \notin d.irr => i = ir
  BY <1>2 DEF Acked
<1>6. Retires(c, d)
  BY <1>4, <1>5 DEF Retires
<1> QED BY <1>6 DEF d

LEMMA SlaveAckRetires ==
  ASSUME NEW s, Sound(s)
  PROVE  Retires(s, SlaveAck(s))
<1>1. CASE ~IntPending(s)
  BY <1>1 DEF SlaveAck, Retires
<1>2. CASE IntPending(s)
  <2>1. Highest(s, Requests(s)) \in Requests(s)
    BY <1>2, RequestsType, HighestIsMember DEF IntPending, Sound, Chip
  <2>2. SlaveAck(s) = AckIr(s, Highest(s, Requests(s)))
    BY <1>2 DEF SlaveAck
  <2> QED BY <2>1, <2>2, AckRetires
<1> QED BY <1>1, <1>2

LEMMA PollRetires ==
  ASSUME NEW c, Sound(c)
  PROVE  Retires(c, TakePoll(c))
<1> DEFINE b == [c EXCEPT !.pollArmed = FALSE]
           ir == Highest(c, Requests(c))
<1>1. /\ b \in Chip /\ b.isr = c.isr
      /\ b.elcr = c.elcr /\ b.levelTriggered = c.levelTriggered
      /\ b.initialized = c.initialized /\ b.phase = c.phase
      /\ b.irr = c.irr /\ b.pins = c.pins /\ b.imr = c.imr
      /\ b.lowest = c.lowest /\ b.specialMask = c.specialMask
      /\ b.specialFullyNested = c.specialFullyNested
      /\ b.isMaster = c.isMaster /\ b.slaveMask = c.slaveMask
  BY DEF Sound, Chip
<1> HIDE DEF b
<1>2. /\ \A i : IsLevel(b, i) <=> IsLevel(c, i)
      /\ \A hp, i : InServiceBlocks(b, hp, i) <=> InServiceBlocks(c, hp, i)
  BY <1>1 DEF InServiceBlocks, Rank, IsLevel
<1>3. Requests(b) = Requests(c)
  BY <1>1, <1>2 DEF Requests
<1>4. Sound(b)
  BY <1>1, <1>2 DEF Sound
<1>5. CASE ~IntPending(c)
  <2>1. TakePoll(c) = b
    BY <1>5 DEF TakePoll, b
  <2> QED BY <1>1, <2>1 DEF Retires
<1>6. CASE IntPending(c)
  <2>1. ir \in Requests(b)
    BY <1>3, <1>6, RequestsType, HighestIsMember DEF IntPending, Sound, Chip
  <2>2. TakePoll(c) = AckIr(b, ir)
    BY <1>6 DEF TakePoll, b
  <2> HIDE DEF ir
  <2>3. Retires(b, AckIr(b, ir))
    BY <1>4, <2>1, AckRetires
  <2> QED BY <1>1, <1>2, <1>3, <2>2, <2>3 DEF Retires
<1> QED BY <1>5, <1>6

LEMMA ElcrRetires ==
  ASSUME NEW c, Sound(c), NEW mask \in SUBSET IR
  PROVE  Retires(c, SetElcr(c, mask))
<1> DEFINE b == [c EXCEPT !.elcr = mask]
           e == SetElcr(c, mask)
<1>1. b.irr = c.irr /\ e.elcr = b.elcr /\ e.levelTriggered = b.levelTriggered
  BY DEF SetElcr, RefreshLevelIrr, Sound, Chip
<1>2. e.irr = {ir \in IR : IF IsLevel(b, ir) THEN ir \in b.pins
                                             ELSE ir \in b.irr}
  BY DEF SetElcr, RefreshLevelIrr, Sound, Chip
<1> HIDE DEF b, e
<1>3. \A ir : IsLevel(e, ir) <=> IsLevel(b, ir)
  BY <1>1 DEF IsLevel
<1>4. Retires(c, e)
  BY <1>1, <1>2, <1>3 DEF Retires
<1> QED BY <1>4 DEF e

(* The pair after an operation and its sync_cascade.                        *)
LEMMA SyncRetires ==
  ASSUME NEW b \in Pair, Sound(b.master), NEW d,
         Retires(d.master, b.master), Retires(d.slave, b.slave)
  PROVE  /\ Retires(d.master, SyncCascade(b).master)
         /\ Retires(d.slave, SyncCascade(b).slave)
<1>1. b.master \in Chip /\ b.slave \in Chip
  BY DEF Pair
<1> QED BY <1>1, SyncSettles, SettlesRetires

LEMMA WriteRetires ==
  ASSUME NEW d \in Pair, Sound(d.master), NEW chip \in Chips,
         NEW e, Sound(e), Retires(d[chip], e)
  PROVE  \A x \in Chips :
           Retires(d[x], SyncCascade([d EXCEPT ![chip] = e])[x])
<1> DEFINE b == [d EXCEPT ![chip] = e]
<1>1. /\ b \in Pair /\ b[chip] = e
      /\ \A x \in Chips : x # chip => b[x] = d[x]
  BY OneChip DEF Sound
<1> HIDE DEF b
<1>2. Sound(b.master)
  BY <1>1 DEF Chips
<1>3. \A x \in Chips : Retires(d[x], d[x])
  BY DEF Retires
<1>4. \A x \in Chips : Retires(d[x], b[x])
  BY <1>1, <1>3
<1>5. /\ Retires(d.master, SyncCascade(b).master)
      /\ Retires(d.slave, SyncCascade(b).slave)
  BY <1>1, <1>2, <1>4, SyncRetires DEF Chips
<1> QED BY <1>5 DEF b, Chips

LEMMA AckSyncedRetires ==
  ASSUME NEW d, PairInv(d)
  PROVE  \A x \in Chips : Retires(d[x], AckSynced(d)[x])
<1> DEFINE ir == Highest(d.master, Requests(d.master))
           m == AckIr(d.master, ir)
           s == SlaveAck(d.slave)
           b == [master |-> m, slave |-> s]
<1>1. /\ Sound(d.master) /\ Sound(d.slave) /\ d \in Pair
      /\ Used(d.slave) /\ ~d.slave.isMaster
  BY DEF PairInv, PairSound
<1>2. \A x \in Chips : Retires(d[x], d[x])
  BY DEF Retires
<1>3. CASE ~IntPending(d.master)
  BY <1>2, <1>3 DEF AckSynced
<1>4. CASE IntPending(d.master)
  <2>1. ir \in Requests(d.master) /\ ir \in IR
    BY <1>1, <1>4, RequestsType, HighestIsMember DEF IntPending, Sound, Chip
  <2>2. AckSynced(d) = IF CascadeInput(d.master, ir) THEN SyncCascade(b)
                       ELSE [d EXCEPT !.master = m]
    BY <1>4 DEF AckSynced
  <2> HIDE DEF ir
  <2>3. Sound(m) /\ m \in Chip
    <3>1. Acked(d.master, ir, m)
      BY <1>1, <2>1, AckIrSound
    <3> QED BY <3>1 DEF Acked, Sound
  <2>4. s \in Chip
    <3>1. SlaveStep(d.slave, s)
      BY <1>1, SlaveAckSound
    <3> QED BY <3>1 DEF SlaveStep, Sound
  <2>5. Retires(d.master, m) /\ Retires(d.slave, s)
    BY <1>1, <2>1, AckRetires, SlaveAckRetires
  <2> HIDE DEF m, s
  <2>6. CASE CascadeInput(d.master, ir)
    <3>1. b \in Pair /\ b.master = m /\ b.slave = s
      BY <2>3, <2>4 DEF Pair
    <3> HIDE DEF b
    <3>2. /\ Retires(d.master, SyncCascade(b).master)
          /\ Retires(d.slave, SyncCascade(b).slave)
      BY <2>3, <2>5, <3>1, SyncRetires
    <3> QED BY <2>2, <2>6, <3>2 DEF Chips
  <2>7. CASE ~CascadeInput(d.master, ir)
    <3>1. AckSynced(d) = [d EXCEPT !.master = m]
      BY <2>2, <2>7
    <3>2. AckSynced(d).master = m /\ AckSynced(d).slave = d.slave
      BY <1>1, <3>1 DEF Pair
    <3> QED BY <1>2, <2>5, <3>2 DEF Chips
  <2> QED BY <2>6, <2>7
<1> QED BY <1>3, <1>4

LEMMA NextRetires ==
  ASSUME IInv, [Next]_vars
  PROVE  MachineReset \/ \A chip \in Chips : Retires(pic[chip], pic'[chip])
<1>1. /\ PairInv(pic) /\ pic \in Pair
      /\ \A chip \in Chips : Sound(pic[chip]) /\ Used(pic[chip])
      /\ Sound(pic.master) /\ Sound(pic.slave)
      /\ \A chip \in Chips : Retires(pic[chip], pic[chip])
  BY DEF IInv, PairInv, PairSound, Chips, Retires
<1>2. ASSUME NEW chip \in Chips, NEW e, Sound(e), Retires(pic[chip], e),
             WriteChip(chip, e)
      PROVE  \A x \in Chips : Retires(pic[x], pic'[x])
  BY <1>1, <1>2, WriteRetires DEF WriteChip
<1>3. ASSUME NEW c, NEW e, Sound(c), Used(c), Quiet(c, e)
      PROVE  Sound(e) /\ Retires(c, e)
  <2>1. Access(c, e)
    BY <1>3, QuietAccess
  <2> QED BY <1>3, <2>1 DEF Access, Quiet, Retires
<1>4. ASSUME NEW chip \in Chips, GuestWrite(chip)
      PROVE  \A x \in Chips : Retires(pic[x], pic'[x])
  <2> DEFINE c == pic[chip]
  <2>1. Sound(c) /\ Used(c)
    BY <1>1
  <2> HIDE DEF c
  <2>2. CASE WriteIcw1(chip)
    <3>1. PICK word \in Icw1Words : WriteChip(chip, BeginIcw1(c, word))
      BY <2>2 DEF WriteIcw1, c
    <3>2. Access(c, BeginIcw1(c, word))
      BY <2>1, <2>2, Icw1Access DEF WriteIcw1, c
    <3>3. Retires(c, BeginIcw1(c, word))
      BY DEF BeginIcw1, ResetRole, Retires
    <3> QED BY <1>2, <3>1, <3>2, <3>3 DEF Access, c
  <2>3. CASE WriteData2(chip)
    <3>1. Quiet(c, WriteIcw2(c))
      BY <2>1, <2>3, Icw2Quiet DEF WriteData2, c
    <3> QED BY <1>2, <1>3, <2>1, <2>3, <3>1 DEF WriteData2, c
  <2>4. CASE WriteData3(chip)
    <3>1. PICK mask \in MasterIcw3, id \in SlaveIcw3 :
            WriteChip(chip, WriteIcw3(c, mask, id))
      BY <2>4 DEF WriteData3, c
    <3>2. Quiet(c, WriteIcw3(c, mask, id))
      BY <2>1, <2>4, Icw3Quiet DEF WriteData3, c
    <3> QED BY <1>2, <1>3, <2>1, <3>1, <3>2 DEF c
  <2>5. CASE WriteData4(chip)
    <3>1. PICK aeoi \in BOOLEAN, sfnm \in BOOLEAN :
            /\ aeoi => "aeoi" \in guest
            /\ WriteChip(chip, WriteIcw4(c, aeoi, sfnm))
      BY <2>5 DEF WriteData4, c
    <3>2. Quiet(c, WriteIcw4(c, aeoi, sfnm))
      BY <2>1, <2>5, <3>1, Icw4Quiet DEF WriteData4, c
    <3> QED BY <1>2, <1>3, <2>1, <3>1, <3>2 DEF c
  <2>6. CASE WriteOcw1(chip)
    <3>1. PICK mask \in SUBSET IR : WriteChip(chip, WriteImr(c, mask))
      BY <2>6, DualPicAssumption DEF WriteOcw1, c
    <3>2. Quiet(c, WriteImr(c, mask))
      BY <2>1, ImrQuiet
    <3> QED BY <1>2, <1>3, <2>1, <3>1, <3>2 DEF c
  <2>7. CASE EndOfInterrupt(chip)
    <3>1. Quiet(c, Ocw2(c, "eoi", 0))
      <4>1. "eoi" \in Ocw2Commands /\ 0 \in IR
        BY DEF Ocw2Commands
      <4> QED BY <2>1, <4>1, Ocw2Quiet
    <3> QED BY <1>2, <1>3, <2>1, <2>7, <3>1 DEF EndOfInterrupt, c
  <2>8. CASE SpecificEoi(chip)
    <3>1. PICK level \in IR : WriteChip(chip, Ocw2(c, "specificEoi", level))
      BY <2>8 DEF SpecificEoi, c
    <3>2. Quiet(c, Ocw2(c, "specificEoi", level))
      BY <2>1, Ocw2Quiet DEF Ocw2Commands
    <3> QED BY <1>2, <1>3, <2>1, <3>1, <3>2 DEF c
  <2>9. CASE Rotate(chip)
    <3>1. PICK command \in Ocw2Commands, level \in IR :
            WriteChip(chip, Ocw2(c, command, level))
      BY <2>9 DEF Rotate, Ocw2Commands, c
    <3>2. Quiet(c, Ocw2(c, command, level))
      BY <2>1, Ocw2Quiet
    <3> QED BY <1>2, <1>3, <2>1, <3>1, <3>2 DEF c
  <2>10. CASE WriteOcw3(chip)
    <3>1. PICK mask \in {"keep", "set", "clear"}, poll \in BOOLEAN :
            /\ poll => "poll" \in guest
            /\ WriteChip(chip, Ocw3(c, mask, poll))
      BY <2>10 DEF WriteOcw3, c
    <3>2. Quiet(c, Ocw3(c, mask, poll))
      BY <2>1, <3>1, Ocw3Quiet
    <3> QED BY <1>2, <1>3, <2>1, <3>1, <3>2 DEF c
  <2>11. CASE PollRead(chip)
    <3>1. "poll" \in guest
      BY <2>1, <2>11 DEF PollRead, Used, c
    <3>2. SyncCascade(pic) = pic
      BY <1>1, SyncIdle DEF PairInv, PinFollows
    <3>3. WriteChip(chip, TakePoll(c))
      BY <2>11, <3>2 DEF PollRead, PollCommandRead, WriteChip, c
    <3>4. Sound(TakePoll(c))
      BY <2>1, <3>1, PollAccess DEF Access
    <3>5. Retires(c, TakePoll(c))
      BY <2>1, PollRetires
    <3> QED BY <1>2, <3>3, <3>4, <3>5 DEF c
  <2> QED BY <1>4, <2>2, <2>3, <2>4, <2>5, <2>6, <2>7, <2>8, <2>9, <2>10,
             <2>11 DEF GuestWrite
<1>5. CASE WriteElcr
  <2>1. PICK masks \in ElcrMasks :
          pic' = SetElcrLevelMask(pic, masks.master, masks.slave)
    BY <1>5 DEF WriteElcr
  <2> DEFINE mm == masks.master \ MasterEdgeOnly
             ss == masks.slave \ SlaveEdgeOnly
             b == [master |-> SetElcr(pic.master, mm),
                   slave  |-> SetElcr(pic.slave, ss)]
  <2>2. mm \in SUBSET IR /\ ss \in SUBSET IR
    BY DualPicAssumption
  <2>3. pic' = SyncCascade(b)
    BY <2>1 DEF SetElcrLevelMask
  <2> HIDE DEF mm, ss
  <2>4. /\ Sound(b.master) /\ b.master \in Chip /\ b.slave \in Chip
        /\ Retires(pic.master, b.master) /\ Retires(pic.slave, b.slave)
    BY <1>1, <2>2, ElcrAccess, ElcrRetires DEF Access, Sound, Chips
  <2>5. b \in Pair
    BY <2>4 DEF Pair
  <2> HIDE DEF b
  <2> QED BY <2>3, <2>4, <2>5, SyncRetires DEF Chips
<1>6. ASSUME NEW chip \in Chips, NEW ir \in IR, NEW high \in BOOLEAN
      PROVE  /\ Sound(SetLine(pic[chip], ir, high))
             /\ Retires(pic[chip], SetLine(pic[chip], ir, high))
  <2> DEFINE c == pic[chip]
             e == SetLine(c, ir, high)
  <2>1. Sound(e)
    <3>1. CASE high
      <4>1. e = SetLine(c, ir, TRUE)
        BY <3>1 DEF SetLine
      <4> QED BY <1>1, <4>1, RaiseSound DEF Raised
    <3>2. CASE ~high
      <4>1. e = SetLine(c, ir, FALSE)
        BY <3>2 DEF SetLine
      <4> QED BY <1>1, <4>1, LowerSound DEF Lowered
    <3> QED BY <3>1, <3>2
  <2>2. Settles(c, e) /\ c \in Chip /\ Retires(c, c)
    BY <1>1, LineSettles DEF Sound
  <2> HIDE DEF c, e
  <2>3. Sound(e) /\ Retires(c, e)
    BY <2>1, <2>2, SettlesRetires
  <2> QED BY <2>3 DEF c, e
<1>7. ASSUME NEW ir \in MasterLines, MasterLine(ir)
      PROVE  \A x \in Chips : Retires(pic[x], pic'[x])
  <2>1. PICK high \in BOOLEAN : pic' = SetMasterLine(pic, ir, high)
    BY <1>7 DEF MasterLine
  <2> DEFINE m == SetLine(pic.master, ir, high)
  <2>2. ir \in IR /\ "master" \in Chips
    BY DualPicAssumption DEF Chips
  <2>3. Retires(pic.master, m)
    BY <1>6, <2>2
  <2> HIDE DEF m
  <2>4. pic'.master = m /\ pic'.slave = pic.slave
    BY <1>1, <2>1 DEF SetMasterLine, Pair, m
  <2> QED BY <1>1, <2>3, <2>4 DEF Chips
<1>8. ASSUME NEW ir \in SlaveLines, SlaveLine(ir)
      PROVE  \A x \in Chips : Retires(pic[x], pic'[x])
  <2>1. PICK high \in BOOLEAN : pic' = SetSlaveLine(pic, ir, high)
    BY <1>8 DEF SlaveLine
  <2>2. ir \in IR /\ "slave" \in Chips
    BY DualPicAssumption DEF Chips
  <2>3. WriteChip("slave", SetLine(pic["slave"], ir, high))
    BY <2>1 DEF SetSlaveLine, WriteChip
  <2> QED BY <1>2, <1>6, <2>2, <2>3
<1>9. CASE CpuAcknowledge
  <2>1. SyncCascade(pic) = pic
    BY <1>1, SyncIdle DEF PairInv, PinFollows
  <2>2. pic' = AckSynced(pic)
    BY <1>9, <2>1 DEF CpuAcknowledge, Acknowledge
  <2> QED BY <1>1, <2>2, AckSyncedRetires
<1>10. CASE UNCHANGED vars
  BY <1>1, <1>10 DEF vars
<1> QED BY <1>4, <1>5, <1>7, <1>8, <1>9, <1>10 DEF Next

----------------------------------------------------------------------------
(* The theorems.                                                            *)

(* Whatever the guest programs and the devices drive, the registers stay in *)
(* their types and each chip keeps its role.                                *)
THEOREM TypeCorrect == Spec => []TypeOK
<1>1. IInv => TypeOK
  BY DEF IInv, PairInv, PairSound, TypeOK
<1> QED BY <1>1, IInvHolds, PTL

(* A level-sensitive input requests exactly while its pin is high.          *)
THEOREM LevelRequests == Spec => []LevelRequestIsPin
<1>1. IInv => LevelRequestIsPin
  BY DEF IInv, PairInv, PairSound, Sound, LevelRequestIsPin, Chips
<1> QED BY <1>1, IInvHolds, PTL

(* The cascade pin of a programmed pair is the slave's INT output: no       *)
(* operation on either chip forgets its sync_cascade.                       *)
THEOREM CascadePin == Spec => []CascadePinFollowsSlave
<1>1. IInv => CascadePinFollowsSlave
  BY DEF IInv, PairInv, PinFollows, CascadePinFollowsSlave
<1> QED BY <1>1, IInvHolds, PTL

(* For the guests of KeepsCascadeEdges a deliverable slave request is       *)
(* pending at the master.                                                   *)
THEOREM SlaveRequests == Spec => []SlaveRequestReachesMaster
<1>1. IInv => SlaveRequestReachesMaster
  BY DEF IInv, PairInv, ReachesMaster, SlaveRequestReachesMaster
<1> QED BY <1>1, IInvHolds, PTL

(* For a guest that only nests, what is in service is what its              *)
(* acknowledges pushed and its EOIs have not popped, each of strictly       *)
(* higher priority than the one it interrupted.                             *)
THEOREM ServiceStacks == Spec => []ServiceNests
<1>1. Init => IInv /\ NestInv
  BY InitInv, InitNests
<1>2. IInv /\ NestInv /\ [Next]_vars => (IInv /\ NestInv)'
  BY NextInv, NextNests
<1>3. NestInv => ServiceNests
  BY DEF NestInv, Nested, ServiceNests
<1> QED BY <1>1, <1>2, <1>3, PTL DEF Spec

(* An edge request survives everything but its acknowledge, an ICW1 to its  *)
(* chip, a machine reset and a switch to level sense.                       *)
THEOREM EdgesStick == Spec => EdgeRequestSticks
<1>1. IInv /\ [Next]_vars =>
        [\A chip \in Chips, ir \in IR :
           LET c == pic[chip]
               d == pic'[chip]
           IN  (ir \in c.irr /\ ~IsLevel(c, ir) /\ ir \notin d.irr)
                 => \/ d.phase = "icw2"
                    \/ MachineReset
                    \/ IsLevel(d, ir)
                    \/ ir \in Requests(c) /\ (ir \in d.isr \/ d.autoEoi
                                                \/ ir \notin c.pins)]_vars
  BY NextRetires DEF Retires
<1> QED BY <1>1, IInvHolds, PTL DEF Spec, EdgeRequestSticks
=============================================================================
