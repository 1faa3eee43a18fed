------------------------------ MODULE Pit8254 ------------------------------
(***************************************************************************)
(* The 8254 interval timer of crates/devices/src/pit.rs.  A channel        *)
(* (struct PitChannel) and the timer with System Control Port B (struct    *)
(* Pit8254) are records, and every method is an operator on them.          *)
(*                                                                         *)
(* A count is two digits in base ByteBase, the code's two bytes; a count   *)
(* of zero stands for FullCount.  BCD counting, which is the same machine  *)
(* with another FullCount and another reading of the digits, is left out.  *)
(***************************************************************************)
EXTENDS Integers, FiniteSets

CONSTANT ByteBase      (* values of a byte of a count: 256 in the code      *)

ASSUME PitAssumption == ByteBase \in Nat \ {0, 1}

PitByte == 0 .. ByteBase - 1
FullCount == ByteBase * ByteBase

NoCount == [count |-> -1]
NoStatus == [out |-> FALSE, null |-> FALSE, mode |-> -1]

PitModes == 0 .. 5
PitAccess == {"lo", "hi", "lohi"}

Triggered(mode) == mode \in {1, 5}      \* a gate edge starts these
Periodic(mode)  == mode \in {2, 3}

PitChannel ==
  [mode : PitModes, access : PitAccess, wphase : {"lo", "hi"},
   rphase : {"lo", "hi"}, count : 0 .. FullCount - 1, ce : 0 .. FullCount,
   out : BOOLEAN, counting : BOOLEAN, lowPulse : BOOLEAN,
   latched : {NoCount} \cup [count : 0 .. FullCount - 1],
   status : {NoStatus} \cup [out : BOOLEAN, null : BOOLEAN, mode : PitModes],
   null : BOOLEAN, pending : BOOLEAN, loaded : BOOLEAN, gate : BOOLEAN]

NewChannel(gate) ==
  [mode |-> 0, access |-> "lohi", wphase |-> "lo", rphase |-> "lo",
   count |-> 0, ce |-> 0, out |-> FALSE, counting |-> FALSE,
   lowPulse |-> FALSE, latched |-> NoCount, status |-> NoStatus,
   null |-> TRUE, pending |-> FALSE, loaded |-> FALSE, gate |-> gate]

----------------------------------------------------------------------------
(* Programming and reading a channel.                                       *)

Reload(ch)    == IF ch.count = 0 THEN FullCount ELSE ch.count
HighClks(ch)  == (Reload(ch) + 1) \div 2
LowClks(ch)   == Reload(ch) \div 2

FirstPhase(access) == IF access = "hi" THEN "hi" ELSE "lo"

(* The counting element of a channel that counts, the count register of one *)
(* that does not.                                                           *)
LatchSnapshot(ch) == IF ch.counting THEN ch.ce % FullCount ELSE ch.count

(* Mutant: a latch command overwrites a latch that was not read.            *)
LatchCountAgain(ch) ==
  [ch EXCEPT !.latched = [count |-> LatchSnapshot(ch)]]

(* A latch that was not read yet is kept.                                   *)
LatchCount(ch) ==
  IF ch.latched # NoCount THEN ch
  ELSE [ch EXCEPT !.latched = [count |-> LatchSnapshot(ch)],
                  !.rphase  = FirstPhase(ch.access)]

LatchStatus(ch) ==
  IF ch.status # NoStatus THEN ch
  ELSE [ch EXCEPT !.status = [out |-> ch.out, null |-> ch.null,
                              mode |-> ch.mode]]

(* Read-back: status first, then count, of the parts the command selects.   *)
ReadBack(ch, parts) ==
  LET s == IF "status" \in parts THEN LatchStatus(ch) ELSE ch
  IN  IF "count" \in parts THEN LatchCount(s) ELSE s

(* A control word other than the latch command restarts the channel.        *)
ApplyControl(ch, mode, access) ==
  [NewChannel(ch.gate) EXCEPT
     !.mode = mode, !.access = access, !.count = ch.count,
     !.out = (mode # 0), !.wphase = FirstPhase(access),
     !.rphase = FirstPhase(access)]

(* A count is complete: the next clock loads it, or a gate edge does.       *)
ArmCountLoaded(ch) ==
  IF Triggered(ch.mode)
  THEN IF ch.counting
       THEN [ch EXCEPT !.loaded = TRUE, !.pending = FALSE]
       ELSE [ch EXCEPT !.loaded = TRUE, !.pending = FALSE,
                       !.ce = Reload(ch), !.null = FALSE]
  ELSE [ch EXCEPT !.loaded = TRUE, !.pending = TRUE, !.null = TRUE,
                  !.lowPulse = FALSE, !.counting = ch.gate]

WriteLow(ch, b)  == [ch EXCEPT !.count = (@ \div ByteBase) * ByteBase + b,
                               !.null = TRUE]
WriteHigh(ch, b) == [ch EXCEPT !.count = b * ByteBase + (@ % ByteBase)]

(* The first byte of a two-byte count stops the channel until the second,   *)
(* except in the modes a gate edge starts.                                  *)
WriteData(ch, b) ==
  CASE ch.access = "lo" -> ArmCountLoaded(WriteLow(ch, b))
    [] ch.access = "hi" ->
         ArmCountLoaded([WriteHigh(ch, b) EXCEPT !.null = TRUE])
    [] ch.access = "lohi" /\ ch.wphase = "lo" ->
         [WriteLow(ch, b) EXCEPT
            !.wphase = "hi", !.loaded = FALSE, !.pending = FALSE,
            !.counting = (Triggered(ch.mode) /\ ch.counting)]
    [] OTHER -> ArmCountLoaded([WriteHigh(ch, b) EXCEPT !.wphase = "lo"])

(* What a data read returns: a latched status, else a byte of the latched   *)
(* count or, with none latched, of the count register.                      *)
ReadsStatus(ch) == ch.status # NoStatus
ReadsHigh(ch) == ch.access = "hi" \/ (ch.access = "lohi" /\ ch.rphase = "hi")
ReadCount(ch) == IF ch.latched # NoCount THEN ch.latched.count ELSE ch.count
ReadByte(ch) == IF ReadsHigh(ch) THEN ReadCount(ch) \div ByteBase
                                 ELSE ReadCount(ch) % ByteBase

ReadData(ch) ==
  IF ReadsStatus(ch) THEN [ch EXCEPT !.status = NoStatus]
  ELSE IF ch.access = "lohi" /\ ch.rphase = "lo"
       THEN [ch EXCEPT !.rphase = "hi"]
       ELSE [ch EXCEPT !.latched = NoCount,
                       !.rphase = IF ch.access = "lohi" THEN "lo" ELSE @]

----------------------------------------------------------------------------
(* The gate.                                                                *)

ArmGateLoad(ch) ==
  [ch EXCEPT !.pending = TRUE, !.null = TRUE, !.lowPulse = FALSE,
             !.counting = TRUE]

GateFalls(ch) ==
  IF Periodic(ch.mode)
  THEN [ch EXCEPT !.gate = FALSE, !.out = TRUE, !.lowPulse = FALSE]
  ELSE [ch EXCEPT !.gate = FALSE]

GateRises(ch) ==
  LET c == [ch EXCEPT !.gate = TRUE]
  IN  CASE ~c.loaded -> c
        [] c.loaded /\ c.mode \in {0, 4} ->
             [c EXCEPT !.counting = (@ \/ c.ce > 0 \/ c.pending)]
        [] c.loaded /\ c.mode = 1 -> ArmGateLoad(c)
        [] c.loaded /\ c.mode = 5 -> ArmGateLoad([c EXCEPT !.out = TRUE])
        [] OTHER -> IF c.pending
                    THEN [c EXCEPT !.out = TRUE, !.counting = TRUE]
                    ELSE ArmGateLoad([c EXCEPT !.out = TRUE])

SetGate(ch, high) ==
  IF ch.gate = high THEN ch
  ELSE IF high THEN GateRises(ch) ELSE GateFalls(ch)

----------------------------------------------------------------------------
(* One clock.                                                               *)

ApplyPendingLoad(ch) ==
  [ch EXCEPT !.pending = FALSE, !.null = FALSE, !.lowPulse = FALSE,
             !.ce  = IF ch.mode = 3 THEN HighClks(ch) ELSE Reload(ch),
             !.out = (@ /\ ch.mode # 1)]

(* Modes 0 and 1: OUT rises when the count runs out.                        *)
TickCount(ch) ==
  IF ch.ce <= 1
  THEN [ch EXCEPT !.ce = 0, !.out = TRUE, !.counting = FALSE]
  ELSE [ch EXCEPT !.ce = @ - 1]

(* Mode 2: OUT is low for the one clock that reloads the count; the clock   *)
(* that ends the pulse does not count.                                      *)
TickRate(ch) ==
  IF ch.lowPulse THEN [ch EXCEPT !.out = TRUE, !.lowPulse = FALSE]
  ELSE IF ch.ce <= 1
       THEN [ch EXCEPT !.out = FALSE, !.lowPulse = TRUE, !.ce = Reload(ch)]
       ELSE [ch EXCEPT !.out = TRUE, !.ce = @ - 1]

(* Mutant: the halves of the square wave are loaded the wrong way round.    *)
TickSquareSwapped(ch) ==
  IF ch.ce > 1 THEN [ch EXCEPT !.ce = @ - 1]
  ELSE IF ch.out /\ LowClks(ch) > 0
       THEN [ch EXCEPT !.out = FALSE, !.ce = HighClks(ch)]
       ELSE [ch EXCEPT !.out = TRUE, !.ce = HighClks(ch)]

(* Mode 3: the count holds what is left of the high or of the low half.     *)
TickSquare(ch) ==
  IF ch.ce > 1 THEN [ch EXCEPT !.ce = @ - 1]
  ELSE IF ch.out /\ LowClks(ch) > 0
       THEN [ch EXCEPT !.out = FALSE, !.ce = LowClks(ch)]
       ELSE [ch EXCEPT !.out = TRUE, !.ce = HighClks(ch)]

(* Modes 4 and 5: one low clock at the end of the count.                    *)
TickStrobe(ch) ==
  IF ch.lowPulse
  THEN [ch EXCEPT !.out = TRUE, !.lowPulse = FALSE, !.counting = FALSE]
  ELSE IF ch.ce <= 1
       THEN [ch EXCEPT !.ce = 0, !.out = FALSE, !.lowPulse = TRUE]
       ELSE [ch EXCEPT !.ce = @ - 1]

Clocked(ch) == ch.counting /\ (ch.gate \/ Triggered(ch.mode))

TickOne(ch) ==
  CASE ~Clocked(ch) -> ch
    [] Clocked(ch) /\ ch.pending -> ApplyPendingLoad(ch)
    [] OTHER -> CASE ch.mode \in {0, 1} -> TickCount(ch)
                  [] ch.mode = 2 -> TickRate(ch)
                  [] ch.mode = 3 -> TickSquare(ch)
                  [] OTHER -> TickStrobe(ch)

Rises(before, after) == ~before.out /\ after.out

----------------------------------------------------------------------------
(* The three channels and port 61h.  Channel 0 interrupts, channel 1's      *)
(* rises toggle the refresh bit, channel 2's gate is a bit of the port.     *)

Port61Bits == {"gate2", "speaker", "parityEn", "iochkEn"}

Pit == [ch : [0 .. 2 -> PitChannel], port61 : SUBSET Port61Bits,
        refresh : BOOLEAN, iochk : BOOLEAN, parity : BOOLEAN]

ResetPit ==
  [ch |-> [n \in 0 .. 2 |-> NewChannel(n # 2)], port61 |-> {},
   refresh |-> FALSE, iochk |-> FALSE, parity |-> FALSE]

(* Bits 6 and 7 of the value acknowledge the two error latches.             *)
Port61Write(p, bits, clears) ==
  [p EXCEPT !.port61 = bits,
            !.ch[2] = SetGate(@, "gate2" \in bits),
            !.iochk = (@ /\ "iochk" \notin clears),
            !.parity = (@ /\ "parity" \notin clears)]

(* What a read of the port shows.                                           *)
Port61Read(p) ==
  p.port61 \cup (IF p.refresh THEN {"refresh"} ELSE {})
           \cup (IF p.ch[2].out THEN {"out2"} ELSE {})
           \cup (IF p.iochk THEN {"iochk"} ELSE {})
           \cup (IF p.parity THEN {"parity"} ELSE {})

(* An error is latched whether or not it may raise NMI.                     *)
AssertError(p, error) ==
  IF error = "parity" THEN [p EXCEPT !.parity = TRUE]
                      ELSE [p EXCEPT !.iochk = TRUE]
WantsNmi(p, error) ==
  (IF error = "parity" THEN "parityEn" ELSE "iochkEn") \in p.port61

(* One clock of all channels.                                               *)
TickPit1(p) ==
  LET refresh == TickOne(p.ch[1])
  IN  [p EXCEPT !.ch[0] = TickOne(@), !.ch[1] = refresh, !.ch[2] = TickOne(@),
                !.refresh = IF Rises(p.ch[1], refresh) THEN ~@ ELSE @]

ReadBackPit(p, channels, parts) ==
  LET Told(n, ch) == IF n \in channels THEN ReadBack(ch, parts) ELSE ch
  IN  [p EXCEPT !.ch[0] = Told(0, @), !.ch[1] = Told(1, @), !.ch[2] = Told(2, @)]
=============================================================================
