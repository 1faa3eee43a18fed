---------------------------- MODULE TimersProofs ----------------------------
(***************************************************************************)
(* Proofs about Timers for every size of a count, number of inputs, clock  *)
(* ratio, size of the HPET's counter and set of guests: what each step     *)
(* keeps of the three chips and, last, that the clock is a WallClock.      *)
(***************************************************************************)
EXTENDS Timers, Pic8259Lemmas, TLAPS

----------------------------------------------------------------------------
(* Counts of two digits.                                                    *)

LEMMA Digits ==
  ASSUME NEW b \in Nat \ {0}, NEW w \in Nat
  PROVE  /\ w % b \in 0 .. b - 1
         /\ w \div b \in Nat
         /\ (w \div b) * b + (w % b) = w
         /\ w < b * b => w \div b \in 0 .. b - 1
<1> DEFINE q == w \div b
           r == w % b
<1>1. q \in Nat /\ r \in 0 .. b - 1 /\ q * b + r = w
  BY SMT
<1> HIDE DEF q, r
<1>2. ASSUME w < b * b, q >= b
      PROVE  FALSE
  <2>1. (q - b) * b >= 0
    BY <1>1, <1>2, SMT
  <2>2. q * b >= b * b
    BY <1>1, <2>1, SMT
  <2> QED BY <1>1, <1>2, <2>2
<1>3. w < b * b => q \in 0 .. b - 1
  BY <1>1, <1>2
<1> QED BY <1>1, <1>3 DEF q, r

LEMMA TwoDigits ==
  ASSUME NEW b \in Nat \ {0}, NEW h \in 0 .. b - 1, NEW l \in 0 .. b - 1
  PROVE  h * b + l \in 0 .. b * b - 1
<1>1. (b - 1 - h) * b >= 0
  BY SMT
<1>2. h * b + b <= b * b
  BY <1>1, SMT
<1>3. h * b \in Nat
  BY SMT
<1>4. b * b \in Nat
  BY SMT
<1> DEFINE p == h * b
           s == b * b
<1>5. p \in Nat /\ s \in Nat /\ p + b <= s
  BY <1>2, <1>3, <1>4
<1> HIDE DEF p, s
<1>6. p + l \in 0 .. s - 1
  BY <1>5
<1> QED BY <1>6 DEF p, s

LEMMA FullFacts ==
  /\ FullCount \in Nat /\ FullCount >= 4 /\ ByteBase \in Nat \ {0, 1}
  /\ ByteBase <= FullCount
  /\ MeterCap = 2 * FullCount + 2
<1>1. (ByteBase - 2) * (ByteBase + 1) >= 0
  BY PitAssumption, SMT
<1>2. (ByteBase - 2) * (ByteBase + 2) >= 0
  BY PitAssumption, SMT
<1>3. ByteBase * ByteBase \in Nat /\ ByteBase * ByteBase >= 4
      /\ ByteBase <= ByteBase * ByteBase
  BY <1>1, <1>2, PitAssumption, SMT
<1> QED BY <1>3, PitAssumption DEF FullCount, MeterCap

LEMMA CountBytes ==
  ASSUME NEW c \in 0 .. FullCount - 1, NEW b \in PitByte
  PROVE  /\ (c \div ByteBase) * ByteBase + b \in 0 .. FullCount - 1
         /\ b * ByteBase + (c % ByteBase) \in 0 .. FullCount - 1
         /\ c % ByteBase \in PitByte /\ c \div ByteBase \in PitByte
         /\ (c \div ByteBase) * ByteBase + (c % ByteBase) = c
<1>1. c \in Nat /\ c < ByteBase * ByteBase /\ ByteBase \in Nat \ {0}
  BY FullFacts DEF FullCount
<1>2. /\ c % ByteBase \in 0 .. ByteBase - 1 /\ c \div ByteBase \in 0 .. ByteBase - 1
      /\ (c \div ByteBase) * ByteBase + (c % ByteBase) = c
  BY <1>1, Digits
<1>3. b \in 0 .. ByteBase - 1
  BY DEF PitByte
<1> QED BY <1>1, <1>2, <1>3, TwoDigits DEF PitByte, FullCount

----------------------------------------------------------------------------
(* The 8254's registers.                                                    *)

LEMMA FirstCounts ==
  /\ 0 \in 0 .. FullCount - 1 /\ 0 \in 0 .. FullCount /\ FullCount \in 0 .. FullCount
BY FullFacts

LEMMA NewChannelTyped ==
  ASSUME NEW gate \in BOOLEAN
  PROVE  NewChannel(gate) \in PitChannel
BY FirstCounts DEF NewChannel, PitChannel, PitModes, PitAccess

LEMMA ReloadTyped ==
  ASSUME NEW ch \in PitChannel
  PROVE  /\ Reload(ch) \in 1 .. FullCount
         /\ HighClks(ch) \in 1 .. FullCount /\ LowClks(ch) \in 0 .. FullCount - 1
         /\ HighClks(ch) + LowClks(ch) = Reload(ch)
         /\ HighClks(ch) - LowClks(ch) \in {0, 1}
<1>1. Reload(ch) \in 1 .. FullCount
  BY FullFacts DEF Reload, PitChannel
<1> DEFINE n == Reload(ch)
<1>2. n \in 1 .. FullCount
  BY <1>1
<1> HIDE DEF n
<1>3. /\ (n + 1) \div 2 \in 1 .. FullCount /\ n \div 2 \in 0 .. FullCount - 1
      /\ (n + 1) \div 2 + n \div 2 = n
      /\ (n + 1) \div 2 - n \div 2 \in {0, 1}
  BY <1>2, FullFacts
<1> QED BY <1>1, <1>3 DEF HighClks, LowClks, n

LEMMA SnapshotTyped ==
  ASSUME NEW ch \in PitChannel
  PROVE  LatchSnapshot(ch) \in 0 .. FullCount - 1
<1>1. ch.ce \in 0 .. FullCount /\ ch.count \in 0 .. FullCount - 1
  BY DEF PitChannel
<1>2. ch.ce % FullCount \in 0 .. FullCount - 1
  BY <1>1, FullFacts
<1> QED BY <1>1, <1>2 DEF LatchSnapshot

LEMMA LatchTyped ==
  ASSUME NEW ch \in PitChannel
  PROVE  LatchCount(ch) \in PitChannel /\ LatchStatus(ch) \in PitChannel
<1>1. LatchSnapshot(ch) \in 0 .. FullCount - 1
  BY SnapshotTyped
<1>2. FirstPhase(ch.access) \in {"lo", "hi"}
  BY DEF FirstPhase
<1>3. LatchCount(ch) \in PitChannel
  BY <1>1, <1>2, ZenonT(60) DEF LatchCount, PitChannel
<1>4. LatchStatus(ch) \in PitChannel
  BY DEF LatchStatus, PitChannel
<1> QED BY <1>3, <1>4

LEMMA ReadBackTyped ==
  ASSUME NEW ch \in PitChannel, NEW parts
  PROVE  ReadBack(ch, parts) \in PitChannel
BY LatchTyped DEF ReadBack

LEMMA ReadDataTyped ==
  ASSUME NEW ch \in PitChannel
  PROVE  ReadData(ch) \in PitChannel
BY DEF ReadData, PitChannel

LEMMA ControlTyped ==
  ASSUME NEW ch \in PitChannel, NEW mode \in PitModes, NEW access \in PitAccess
  PROVE  ApplyControl(ch, mode, access) \in PitChannel
<1> DEFINE new == NewChannel(ch.gate)
<1>1. new \in PitChannel
  BY NewChannelTyped DEF PitChannel
<1>2. FirstPhase(access) \in {"lo", "hi"} /\ ch.count \in 0 .. FullCount - 1
  BY DEF FirstPhase, PitChannel
<1> HIDE DEF new
<1>3. ApplyControl(ch, mode, access)
        = [new EXCEPT !.mode = mode, !.access = access, !.count = ch.count,
                      !.out = (mode # 0), !.wphase = FirstPhase(access),
                      !.rphase = FirstPhase(access)]
  BY DEF ApplyControl, new
<1> QED BY <1>1, <1>2, <1>3, ZenonT(60) DEF PitChannel

LEMMA ArmTyped ==
  ASSUME NEW ch \in PitChannel
  PROVE  ArmCountLoaded(ch) \in PitChannel
<1>1. Reload(ch) \in 0 .. FullCount
  BY ReloadTyped, FullFacts
<1> QED BY <1>1, ZenonT(60) DEF ArmCountLoaded, PitChannel

LEMMA WriteByteTyped ==
  ASSUME NEW ch \in PitChannel, NEW b \in PitByte
  PROVE  WriteLow(ch, b) \in PitChannel /\ WriteHigh(ch, b) \in PitChannel
<1> DEFINE low == (ch.count \div ByteBase) * ByteBase + b
           high == b * ByteBase + (ch.count % ByteBase)
<1>1. low \in 0 .. FullCount - 1 /\ high \in 0 .. FullCount - 1
  BY CountBytes DEF PitChannel
<1>2. /\ WriteLow(ch, b) = [ch EXCEPT !.count = low, !.null = TRUE]
      /\ WriteHigh(ch, b) = [ch EXCEPT !.count = high]
  BY DEF WriteLow, WriteHigh
<1> HIDE DEF low, high
<1> QED BY <1>1, <1>2, ZenonT(60) DEF PitChannel

LEMMA WriteTyped ==
  ASSUME NEW ch \in PitChannel, NEW b \in PitByte
  PROVE  WriteData(ch, b) \in PitChannel
<1> DEFINE l == WriteLow(ch, b)
           h == WriteHigh(ch, b)
<1>1. l \in PitChannel /\ h \in PitChannel
  BY WriteByteTyped
<1> HIDE DEF l, h
<1>2. [h EXCEPT !.null = TRUE] \in PitChannel /\ [h EXCEPT !.wphase = "lo"] \in PitChannel
  BY <1>1 DEF PitChannel
<1> DEFINE runs == Triggered(ch.mode) /\ ch.counting
<1>3. runs \in BOOLEAN
  BY DEF PitChannel
<1> HIDE DEF runs
<1>4. [l EXCEPT !.wphase = "hi", !.loaded = FALSE, !.pending = FALSE,
                !.counting = runs] \in PitChannel
  BY <1>1, <1>3, ZenonT(60) DEF PitChannel
<1>5. WriteData(ch, b) \in
        {ArmCountLoaded(l), ArmCountLoaded([h EXCEPT !.null = TRUE]),
         [l EXCEPT !.wphase = "hi", !.loaded = FALSE, !.pending = FALSE,
                   !.counting = runs],
         ArmCountLoaded([h EXCEPT !.wphase = "lo"])}
  BY Zenon DEF WriteData, l, h, runs
<1> QED BY <1>1, <1>2, <1>4, <1>5, ArmTyped

LEMMA GateTyped ==
  ASSUME NEW ch \in PitChannel, NEW high \in BOOLEAN
  PROVE  SetGate(ch, high) \in PitChannel
<1>1. GateFalls(ch) \in PitChannel
  BY DEF GateFalls, PitChannel
<1>2. \A c \in PitChannel : ArmGateLoad(c) \in PitChannel
  BY ZenonT(60) DEF ArmGateLoad, PitChannel
<1> DEFINE c == [ch EXCEPT !.gate = TRUE]
           o == [c EXCEPT !.out = TRUE]
<1>3. c \in PitChannel
  BY DEF PitChannel
<1>4. o \in PitChannel
  BY <1>3 DEF PitChannel
<1> HIDE DEF c, o
<1> DEFINE runs == c.counting \/ c.ce > 0 \/ c.pending
<1>5. runs \in BOOLEAN
  BY <1>3 DEF PitChannel
<1> HIDE DEF runs
<1>6. [c EXCEPT !.counting = runs] \in PitChannel
  BY <1>3, <1>5 DEF PitChannel
<1>7. [o EXCEPT !.counting = TRUE] \in PitChannel
  BY <1>4 DEF PitChannel
<1>8. GateRises(ch) \in
        {c, [c EXCEPT !.counting = runs], ArmGateLoad(c), ArmGateLoad(o),
         [o EXCEPT !.counting = TRUE]}
  BY DEF GateRises, c, o, runs
<1> QED BY <1>1, <1>2, <1>3, <1>4, <1>6, <1>7, <1>8 DEF SetGate

LEMMA LoadTyped ==
  ASSUME NEW ch \in PitChannel
  PROVE  ApplyPendingLoad(ch) \in PitChannel
<1> DEFINE ce == IF ch.mode = 3 THEN HighClks(ch) ELSE Reload(ch)
           out == ch.out /\ ch.mode # 1
<1>1. ce \in 0 .. FullCount /\ out \in BOOLEAN
  BY ReloadTyped, FullFacts DEF PitChannel
<1>2. ApplyPendingLoad(ch) =
        [ch EXCEPT !.pending = FALSE, !.null = FALSE, !.lowPulse = FALSE,
                   !.ce = ce, !.out = out]
  BY DEF ApplyPendingLoad
<1> HIDE DEF ce, out
<1> QED BY <1>1, <1>2, Zenon DEF PitChannel

(* What a clock may make of the counting element and of OUT.                *)
LEMMA TickTyped ==
  ASSUME NEW ch \in PitChannel
  PROVE  TickOne(ch) \in PitChannel
<1> DEFINE less == ch.ce - 1
           all == Reload(ch)
           hi == HighClks(ch)
           lo == LowClks(ch)
<1>1. /\ ~(ch.ce <= 1) => less \in 0 .. FullCount
      /\ all \in 0 .. FullCount /\ hi \in 0 .. FullCount /\ lo \in 0 .. FullCount
      /\ 0 \in 0 .. FullCount
  BY ReloadTyped, FullFacts DEF PitChannel
<1>a. ch.ce <= 1 \/ ~(ch.ce <= 1)
  OBVIOUS
<1>2. (ch.ce > 1) <=> ~(ch.ce <= 1)
  BY DEF PitChannel
<1>3. TickCount(ch) =
        IF ch.ce <= 1 THEN [ch EXCEPT !.ce = 0, !.out = TRUE, !.counting = FALSE]
        ELSE [ch EXCEPT !.ce = less]
  BY DEF TickCount
<1>4. TickRate(ch) =
        IF ch.lowPulse THEN [ch EXCEPT !.out = TRUE, !.lowPulse = FALSE]
        ELSE IF ch.ce <= 1 THEN [ch EXCEPT !.out = FALSE, !.lowPulse = TRUE, !.ce = all]
        ELSE [ch EXCEPT !.out = TRUE, !.ce = less]
  BY DEF TickRate
<1>5. TickSquare(ch) =
        IF ~(ch.ce <= 1) THEN [ch EXCEPT !.ce = less]
        ELSE IF ch.out /\ lo > 0 THEN [ch EXCEPT !.out = FALSE, !.ce = lo]
        ELSE [ch EXCEPT !.out = TRUE, !.ce = hi]
  BY <1>2 DEF TickSquare
<1>6. TickStrobe(ch) =
        IF ch.lowPulse THEN [ch EXCEPT !.out = TRUE, !.lowPulse = FALSE, !.counting = FALSE]
        ELSE IF ch.ce <= 1 THEN [ch EXCEPT !.ce = 0, !.out = FALSE, !.lowPulse = TRUE]
        ELSE [ch EXCEPT !.ce = less]
  BY DEF TickStrobe
<1> HIDE DEF less, all, hi, lo
<1>7. TickCount(ch) \in PitChannel
  <2>1. [ch EXCEPT !.ce = 0, !.out = TRUE, !.counting = FALSE] \in PitChannel
    BY <1>1, Zenon DEF PitChannel
  <2>2. ~(ch.ce <= 1) => [ch EXCEPT !.ce = less] \in PitChannel
    BY <1>1, Zenon DEF PitChannel
  <2> QED BY <1>3, <2>1, <2>2, Zenon
<1>8. TickRate(ch) \in PitChannel
  <2>1. [ch EXCEPT !.out = TRUE, !.lowPulse = FALSE] \in PitChannel
    BY Zenon DEF PitChannel
  <2>2. [ch EXCEPT !.out = FALSE, !.lowPulse = TRUE, !.ce = all] \in PitChannel
    BY <1>1, Zenon DEF PitChannel
  <2>3. ~(ch.ce <= 1) => [ch EXCEPT !.out = TRUE, !.ce = less] \in PitChannel
    BY <1>1, Zenon DEF PitChannel
  <2> QED BY <1>4, <2>1, <2>2, <2>3, Zenon
<1>9. TickSquare(ch) \in PitChannel
  <2>1. /\ [ch EXCEPT !.out = FALSE, !.ce = lo] \in PitChannel
        /\ [ch EXCEPT !.out = TRUE, !.ce = hi] \in PitChannel
    BY <1>1, Zenon DEF PitChannel
  <2>2. ~(ch.ce <= 1) => [ch EXCEPT !.ce = less] \in PitChannel
    BY <1>1, Zenon DEF PitChannel
  <2> QED BY <1>5, <2>1, <2>2, Zenon
<1>10. TickStrobe(ch) \in PitChannel
  <2>1. [ch EXCEPT !.out = TRUE, !.lowPulse = FALSE, !.counting = FALSE] \in PitChannel
    BY Zenon DEF PitChannel
  <2>2. [ch EXCEPT !.ce = 0, !.out = FALSE, !.lowPulse = TRUE] \in PitChannel
    BY <1>1, Zenon DEF PitChannel
  <2>3. ~(ch.ce <= 1) => [ch EXCEPT !.ce = less] \in PitChannel
    BY <1>1, Zenon DEF PitChannel
  <2> QED BY <1>6, <2>1, <2>2, <2>3, Zenon
<1>11. TickOne(ch) \in {ch, ApplyPendingLoad(ch), TickCount(ch), TickRate(ch),
                        TickSquare(ch), TickStrobe(ch)}
  BY Zenon DEF TickOne
<1> QED BY <1>7, <1>8, <1>9, <1>10, <1>11, LoadTyped

LEMMA DataByteTyped ==
  ASSUME NEW ch, NEW n \in 0 .. FullCount - 1
  PROVE  DataByte(ch, n) \in PitByte
<1>1. 0 \in PitByte
  BY FullFacts DEF PitByte
<1>2. n % ByteBase \in PitByte /\ n \div ByteBase \in PitByte
  BY <1>1, CountBytes
<1> QED BY <1>2 DEF DataByte

LEMMA ResetPitTyped == ResetPit \in Pit
<1>1. \A n \in 0 .. 2 : NewChannel(n # 2) \in PitChannel
  BY NewChannelTyped
<1>2. [n \in 0 .. 2 |-> NewChannel(n # 2)] \in [0 .. 2 -> PitChannel]
  BY <1>1
<1> HIDE DEF NewChannel
<1> QED BY <1>2, Zenon DEF ResetPit, Pit

LEMMA ChannelTyped ==
  ASSUME NEW p \in Pit, NEW n \in 0 .. 2
  PROVE  p.ch[n] \in PitChannel
BY DEF Pit

(* The timer with one channel's registers changed, or all of them.          *)
LEMMA WithChannelTyped ==
  ASSUME NEW p \in Pit, NEW n \in 0 .. 2, NEW c \in PitChannel
  PROVE  /\ [p EXCEPT !.ch[n] = c] \in Pit
         /\ [p EXCEPT !.ch[n] = c].ch[n] = c
         /\ \A k \in 0 .. 2 \ {n} : [p EXCEPT !.ch[n] = c].ch[k] = p.ch[k]
<1> DEFINE chs == [p.ch EXCEPT ![n] = c]
<1>1. chs \in [0 .. 2 -> PitChannel]
  BY DEF Pit
<1>2. [p EXCEPT !.ch[n] = c] = [p EXCEPT !.ch = chs]
  OBVIOUS
<1>3. chs[n] = c /\ \A k \in 0 .. 2 \ {n} : chs[k] = p.ch[k]
  BY DEF Pit
<1> HIDE DEF chs
<1>4. [p EXCEPT !.ch = chs] \in Pit
  BY <1>1, Zenon DEF Pit
<1>5. [p EXCEPT !.ch = chs].ch = chs
  BY DEF Pit
<1> QED BY <1>2, <1>3, <1>4, <1>5

LEMMA TickPitWorks ==
  ASSUME NEW p \in Pit
  PROVE  /\ TickPit1(p) \in Pit
         /\ \A n \in 0 .. 2 : TickPit1(p).ch[n] = TickOne(p.ch[n])
<1> DEFINE c0 == TickOne(p.ch[0])
           c1 == TickOne(p.ch[1])
           c2 == TickOne(p.ch[2])
           refresh == IF Rises(p.ch[1], c1) THEN ~p.refresh ELSE p.refresh
           q0 == [p EXCEPT !.ch[0] = c0]
           q1 == [q0 EXCEPT !.ch[1] = c1]
           q2 == [q1 EXCEPT !.ch[2] = c2]
           chs == [p.ch EXCEPT ![0] = c0, ![1] = c1, ![2] = c2]
<1>1. \A n \in 0 .. 2 : TickOne(p.ch[n]) \in PitChannel
  BY ChannelTyped, TickTyped
<1>2. c0 \in PitChannel /\ c1 \in PitChannel /\ c2 \in PitChannel
  BY <1>1
<1>3. refresh \in BOOLEAN
  BY DEF Pit
<1>4. TickPit1(p) = [p EXCEPT !.ch = chs, !.refresh = refresh]
  BY DEF TickPit1, Pit
<1>5. \A n \in 0 .. 2 : chs[n] = TickOne(p.ch[n])
  BY DEF Pit
<1> HIDE DEF c0, c1, c2, refresh
<1>6. chs \in [0 .. 2 -> PitChannel]
  BY <1>2 DEF Pit
<1> HIDE DEF chs
<1>7. TickPit1(p) \in Pit
  BY <1>3, <1>4, <1>6, Zenon DEF Pit
<1>8. TickPit1(p).ch = chs
  BY <1>4 DEF Pit
<1> QED BY <1>5, <1>7, <1>8

----------------------------------------------------------------------------
(* The clock's registers: bytes.                                            *)

LEMMA EncodeTyped ==
  ASSUME NEW n \in Int, NEW binary \in BOOLEAN
  PROVE  EncodeField(n, binary) \in 0 .. 153
<1>1. n % 100 \in 0 .. 99 /\ n % 10 \in 0 .. 9
  OBVIOUS
<1>2. (n % 100) \div 10 \in 0 .. 9
  BY <1>1
<1> QED BY <1>1, <1>2 DEF EncodeField, BinToBcd

LEMMA DecodeTyped ==
  ASSUME NEW b \in CmosByte, NEW binary \in BOOLEAN
  PROVE  DecodeField(b, binary) \in 0 .. 255
<1>1. b % 16 \in 0 .. 15 /\ b \div 16 \in 0 .. 15
  BY DEF CmosByte
<1> QED BY <1>1 DEF DecodeField, BcdToBin, CmosByte

LEMMA FieldIncTyped ==
  ASSUME NEW b \in CmosByte, NEW max \in 0 .. 99, NEW binary \in BOOLEAN
  PROVE  FieldInc(b, max, binary) \in CmosByte
<1>1. BcdNext(b) \in CmosByte
  <2>1. ((b \div 16 + 1) * 16) % 256 \in CmosByte
    BY DEF CmosByte
  <2>2. b % 16 < 9 => b + 1 \in CmosByte
    BY DEF CmosByte
  <2>3. b % 16 \in Int
    BY DEF CmosByte
  <2> QED BY <2>1, <2>2, <2>3 DEF BcdNext
<1>2. binary /\ ~FieldWraps(b, max, binary) => b + 1 \in CmosByte
  BY DEF FieldWraps, CmosByte
<1> QED BY <1>1, <1>2 DEF FieldInc, CmosByte

LEMMA HourBitsTyped ==
  ASSUME NEW b \in CmosByte
  PROVE  HourBits(b) \in 0 .. 127 /\ HourBits(b) \in CmosByte
BY DEF HourBits, Pm, CmosByte

LEMMA WithPmTyped ==
  ASSUME NEW n \in 1 .. 23, NEW binary \in BOOLEAN, NEW pm
  PROVE  WithPm(EncodeField(n, binary), pm) \in CmosByte
<1>1. EncodeField(n, binary) \in 0 .. 35
  BY DEF EncodeField, BinToBcd
<1> QED BY <1>1 DEF WithPm, Pm, CmosByte

LEMMA Hour12IncTyped ==
  ASSUME NEW b \in CmosByte, NEW binary \in BOOLEAN
  PROVE  Hour12Inc(b, binary) \in CmosByte
<1> DEFINE h == DecodeField(HourBits(b), binary)
<1>1. h \in 0 .. 255
  BY HourBitsTyped, DecodeTyped
<1> HIDE DEF h
<1>2. h \in 1 .. 12 => (h % 12) + 1 \in 1 .. 12
  OBVIOUS
<1>3. \A pm : /\ WithPm(EncodeField(1, binary), pm) \in CmosByte
              /\ WithPm(EncodeField(12, binary), pm) \in CmosByte
  BY WithPmTyped
<1>4. \A pm : h \in 1 .. 12 => WithPm(EncodeField((h % 12) + 1, binary), pm) \in CmosByte
  BY <1>2, WithPmTyped
<1>5. 1 \in CmosByte
  BY DEF CmosByte
<1> QED BY <1>3, <1>4, <1>5 DEF Hour12Inc, h

LEMMA ConvertTyped ==
  ASSUME NEW b \in CmosByte, NEW binary \in BOOLEAN, NEW to24 \in BOOLEAN
  PROVE  ConvertHour(b, binary, to24) \in CmosByte
<1>1. To24(b, binary) \in CmosByte
  <2> DEFINE h == DecodeField(HourBits(b), binary)
             v == (h % 12) + (IF IsPm(b) THEN 12 ELSE 0)
  <2>1. h \in 0 .. 255
    BY HourBitsTyped, DecodeTyped
  <2>2. v \in Int
    BY <2>1
  <2>3. EncodeField(v, binary) \in 0 .. 153
    BY <2>2, EncodeTyped
  <2>4. EncodeField(v, binary) \in CmosByte
    BY <2>3 DEF CmosByte
  <2>5. To24(b, binary) \in {b, EncodeField(v, binary)}
    BY DEF To24
  <2> QED BY <2>4, <2>5
<1>2. To12(b, binary) \in CmosByte
  <2> DEFINE h == DecodeField(b, binary)
             v == ((h + 11) % 12) + 1
  <2>1. h \in 0 .. 255
    BY DecodeTyped
  <2>2. v \in 1 .. 23
    BY <2>1
  <2> HIDE DEF h, v
  <2>3. \A pm : WithPm(EncodeField(v, binary), pm) \in CmosByte
    BY <2>2, WithPmTyped
  <2>4. To12(b, binary) \in {b, WithPm(EncodeField(v, binary), h >= 12)}
    BY DEF To12, h, v
  <2> QED BY <2>3, <2>4
<1> QED BY <1>1, <1>2 DEF ConvertHour

----------------------------------------------------------------------------
(* The clock.                                                               *)

LEMMA YearTyped ==
  ASSUME NEW r \in Rtc
  PROVE  AdvanceYear(r) \in Rtc
<1> DEFINE y == FieldInc(r.year, 99, r.binary)
           c == IF FieldWraps(r.year, 99, r.binary)
                THEN EncodeField((DecodeField(r.century, r.binary) + 1) % 100, r.binary)
                ELSE r.century
<1>1. r.year \in CmosByte /\ r.century \in CmosByte /\ r.binary \in BOOLEAN
  BY DEF Rtc
<1>2. y \in CmosByte
  <2>1. 99 \in 0 .. 99
    OBVIOUS
  <2> QED BY <1>1, <2>1, FieldIncTyped, Zenon
<1>3. DecodeField(r.century, r.binary) \in 0 .. 255
  BY <1>1, DecodeTyped
<1>4. (DecodeField(r.century, r.binary) + 1) % 100 \in Int
  BY <1>3
<1>5. EncodeField((DecodeField(r.century, r.binary) + 1) % 100, r.binary) \in 0 .. 153
  BY <1>1, <1>4, EncodeTyped
<1>6. c \in CmosByte
  BY <1>1, <1>5 DEF CmosByte
<1>7. AdvanceYear(r) = [r EXCEPT !.year = y, !.century = c]
  BY DEF AdvanceYear
<1> HIDE DEF y, c
<1> QED BY <1>2, <1>6, <1>7, ZenonT(60) DEF Rtc

LEMMA EncodedByte ==
  ASSUME NEW n \in Int, NEW binary \in BOOLEAN
  PROVE  EncodeField(n, binary) \in CmosByte
BY EncodeTyped DEF CmosByte

LEMMA MonthTyped ==
  ASSUME NEW r \in Rtc
  PROVE  AdvanceMonth(r) \in Rtc
<1> DEFINE m == DecodeField(r.month, r.binary)
           y == IF m = 12 THEN AdvanceYear(r) ELSE r
           n == EncodeField(IF m \in 1 .. 11 THEN m + 1 ELSE 1, r.binary)
<1>1. r.month \in CmosByte /\ r.binary \in BOOLEAN
  BY DEF Rtc
<1>2. (IF m \in 1 .. 11 THEN m + 1 ELSE 1) \in Int
  OBVIOUS
<1>3. n \in CmosByte
  BY <1>1, <1>2, EncodedByte
<1>4. y \in Rtc
  BY YearTyped
<1>5. AdvanceMonth(r) = [y EXCEPT !.month = n]
  BY DEF AdvanceMonth
<1> HIDE DEF y, n
<1> QED BY <1>3, <1>4, <1>5, ZenonT(60) DEF Rtc

LEMMA DayTyped ==
  ASSUME NEW r \in Rtc
  PROVE  AdvanceDay(r) \in Rtc
<1> DEFINE w == IF r.dow \in 1 .. 6 THEN r.dow + 1 ELSE 1
           s == [r EXCEPT !.dow = w]
<1>1. w \in CmosByte
  BY DEF CmosByte
<1>2. AdvanceDay(r) = AdvanceDate(s)
  BY DEF AdvanceDay
<1> HIDE DEF w
<1>3. s \in Rtc
  BY <1>1, ZenonT(60) DEF Rtc
<1> HIDE DEF s
<1> DEFINE d == DecodeField(s.day, s.binary)
           next == EncodeField(d + 1, s.binary)
           first == EncodeField(1, s.binary)
<1>4. s.day \in CmosByte /\ s.binary \in BOOLEAN
  BY <1>3 DEF Rtc
<1>5. d \in 0 .. 255
  BY <1>4, DecodeTyped
<1>6. next \in CmosByte /\ first \in CmosByte
  BY <1>4, <1>5, EncodedByte
<1>7. AdvanceDate(s) \in {[s EXCEPT !.day = next], AdvanceMonth([s EXCEPT !.day = first])}
  BY DEF AdvanceDate
<1> HIDE DEF next, first
<1>8. [s EXCEPT !.day = next] \in Rtc
  BY <1>3, <1>6, ZenonT(60) DEF Rtc
<1>9. [s EXCEPT !.day = first] \in Rtc
  BY <1>3, <1>6, ZenonT(60) DEF Rtc
<1> QED BY <1>2, <1>7, <1>8, <1>9, MonthTyped

LEMMA CalendarTyped ==
  ASSUME NEW r \in Rtc
  PROVE  AdvanceCalendar(r) \in Rtc
<1> DEFINE x == FieldInc(r.sec, 59, r.binary)
           s == [r EXCEPT !.sec = x]
           y == FieldInc(s.min, 59, r.binary)
           m == [s EXCEPT !.min = y]
           h == HourInc(m)
<1>1. r.sec \in CmosByte /\ r.binary \in BOOLEAN
  BY DEF Rtc
<1>2. x \in CmosByte
  BY <1>1, FieldIncTyped
<1>3. AdvanceCalendar(r) \in {s, m, AdvanceHour(m)}
  BY DEF AdvanceCalendar
<1> HIDE DEF x
<1>4. s \in Rtc
  BY <1>2, ZenonT(60) DEF Rtc
<1> HIDE DEF s
<1>5. s.min \in CmosByte
  BY <1>4 DEF Rtc
<1>6. y \in CmosByte
  BY <1>1, <1>5, FieldIncTyped
<1> HIDE DEF y
<1>7. m \in Rtc
  BY <1>4, <1>6, ZenonT(60) DEF Rtc
<1> HIDE DEF m
<1>8. m.hour \in CmosByte /\ m.binary \in BOOLEAN
  BY <1>7 DEF Rtc
<1>9. h \in CmosByte
  <2>1. 23 \in 0 .. 99
    OBVIOUS
  <2>2. /\ FieldInc(m.hour, 23, m.binary) \in CmosByte
        /\ Hour12Inc(m.hour, m.binary) \in CmosByte
    BY <1>8, <2>1, FieldIncTyped, Hour12IncTyped, Zenon
  <2> QED BY <2>2, Zenon DEF HourInc
<1>10. AdvanceHour(m) \in {[m EXCEPT !.hour = h], AdvanceDay([m EXCEPT !.hour = h])}
  BY DEF AdvanceHour
<1> HIDE DEF h
<1>11. [m EXCEPT !.hour = h] \in Rtc
  BY <1>7, <1>9, ZenonT(60) DEF Rtc
<1> QED BY <1>3, <1>4, <1>7, <1>10, <1>11, DayTyped

LEMMA IrqfTyped ==
  ASSUME NEW r \in Rtc
  PROVE  RecomputeIrqf(r) \in Rtc
<1> DEFINE q == r.flags \cap r.enables # {}
<1>1. q \in BOOLEAN
  OBVIOUS
<1>2. RecomputeIrqf(r) = [r EXCEPT !.irqf = q]
  BY DEF RecomputeIrqf
<1> HIDE DEF q
<1> QED BY <1>1, <1>2, ZenonT(60) DEF Rtc

LEMMA FlaggedTyped ==
  ASSUME NEW r \in Rtc, NEW sources \in SUBSET Sources
  PROVE  Flagged(r, sources) \in Rtc
<1> DEFINE f == r.flags \cup sources \cup (IF AlarmMatches(r) THEN {"A"} ELSE {})
<1>1. f \in SUBSET Sources
  BY DEF Rtc, Sources
<1>2. Flagged(r, sources) = RecomputeIrqf([r EXCEPT !.flags = f])
  BY DEF Flagged
<1> HIDE DEF f
<1>3. [r EXCEPT !.flags = f] \in Rtc
  BY <1>1, ZenonT(60) DEF Rtc
<1> QED BY <1>2, <1>3, IrqfTyped

LEMMA PeriodsTyped ==
  ASSUME NEW r \in Rtc, NEW n \in Nat
  PROVE  RtcPeriods(r, n) \in Rtc
<1> DEFINE sources == (IF r.periodic THEN {"P"} ELSE {}) \cup (IF r.set THEN {} ELSE {"U"})
           e == Flagged(r, sources)
           hold == IF e.hold > n THEN e.hold - n ELSE 0
           uip == e.uip /\ (e.hold = 0 \/ e.hold > n)
<1>1. sources \in SUBSET Sources
  BY DEF Sources
<1>2. e \in Rtc
  BY <1>1, FlaggedTyped
<1>3. RtcPeriods(r, n) = [e EXCEPT !.hold = hold, !.uip = uip]
  BY DEF RtcPeriods, DecayUip
<1> HIDE DEF e
<1>4. hold \in 0 .. UipWindow /\ uip \in BOOLEAN
  BY <1>2 DEF Rtc, UipWindow
<1> HIDE DEF hold, uip
<1> QED BY <1>2, <1>3, <1>4, ZenonT(60) DEF Rtc

LEMMA SecondTyped ==
  ASSUME NEW r \in Rtc
  PROVE  RtcSecond(r) \in Rtc
<1> DEFINE e == Flagged(AdvanceCalendar(r), {"U"})
<1>1. e \in Rtc
  BY CalendarTyped, FlaggedTyped DEF Sources
<1>2. RtcSecond(r) \in {r, [e EXCEPT !.uip = TRUE, !.hold = UipWindow]}
  BY DEF RtcSecond
<1> HIDE DEF e
<1>3. UipWindow \in 0 .. UipWindow
  BY DEF UipWindow
<1>4. [e EXCEPT !.uip = TRUE, !.hold = UipWindow] \in Rtc
  BY <1>1, <1>3, ZenonT(60) DEF Rtc
<1> QED BY <1>2, <1>4

LEMMA StatusTyped ==
  ASSUME NEW r \in Rtc, NEW set \in BOOLEAN, NEW h24 \in BOOLEAN,
         NEW enables \in SUBSET Sources
  PROVE  /\ ReadStatusC(r) \in Rtc /\ WriteStatusA(r, set) \in Rtc
         /\ WriteStatusB(r, set, h24, enables) \in Rtc
<1>1. ReadStatusC(r) \in Rtc
  BY Zenon DEF ReadStatusC, Rtc
<1>2. WriteStatusA(r, set) \in Rtc
  BY Zenon DEF WriteStatusA, Rtc
<1> DEFINE b == [r EXCEPT !.set = set, !.h24 = h24, !.enables = enables]
           hour == ConvertHour(r.hour, r.binary, h24)
           aHour == IF r.aHour < DontCare THEN ConvertHour(r.aHour, r.binary, h24)
                                          ELSE r.aHour
           c == [b EXCEPT !.hour = hour, !.aHour = aHour]
<1>3. r.hour \in CmosByte /\ r.aHour \in CmosByte /\ r.binary \in BOOLEAN
  BY DEF Rtc
<1>4. hour \in CmosByte /\ aHour \in CmosByte
  BY <1>3, ConvertTyped
<1>5. b.hour = r.hour /\ b.aHour = r.aHour
  BY DEF Rtc
<1>6. WriteStatusB(r, set, h24, enables) \in {RecomputeIrqf(b), RecomputeIrqf(c)}
  BY <1>5 DEF WriteStatusB
<1>7. b \in Rtc
  BY ZenonT(60) DEF Rtc
<1> HIDE DEF b, hour, aHour
<1>8. c \in Rtc
  BY <1>4, <1>7, ZenonT(60) DEF Rtc
<1> HIDE DEF c
<1> QED BY <1>1, <1>2, <1>6, <1>7, <1>8, IrqfTyped

LEMMA FieldsTyped ==
  ASSUME NEW r \in Rtc, NEW f, DOMAIN f \subseteq TimeFields \cup AlarmFields,
         \A x \in DOMAIN f : f[x] \in CmosByte
  PROVE  WriteFields(r, f) \in Rtc
<1> DEFINE e == WriteFields(r, f)
<1>1. /\ DOMAIN r = {"sec", "min", "hour", "dow", "day", "month", "year", "century",
                     "aSec", "aMin", "aHour", "binary", "h24", "set", "periodic",
                     "enables", "flags", "irqf", "uip", "hold"}
      /\ \A x \in TimeFields \cup AlarmFields : r[x] \in CmosByte
  BY DEF Rtc, TimeFields, AlarmFields
<1>2. e = [x \in DOMAIN r |-> IF x \in DOMAIN f THEN f[x] ELSE r[x]]
  BY DEF WriteFields
<1> HIDE DEF e
<1>3. \A x \in TimeFields \cup AlarmFields : e[x] \in CmosByte
  BY <1>1, <1>2 DEF TimeFields, AlarmFields
<1>4. \A x \in {"binary", "h24", "set", "periodic", "enables", "flags", "irqf", "uip",
               "hold"} : e[x] = r[x]
  BY <1>1, <1>2 DEF TimeFields, AlarmFields
<1>5. e = [sec |-> e.sec, min |-> e.min, hour |-> e.hour, dow |-> e.dow, day |-> e.day,
           month |-> e.month, year |-> e.year, century |-> e.century, aSec |-> e.aSec,
           aMin |-> e.aMin, aHour |-> e.aHour, binary |-> e.binary, h24 |-> e.h24,
           set |-> e.set, periodic |-> e.periodic, enables |-> e.enables,
           flags |-> e.flags, irqf |-> e.irqf, uip |-> e.uip, hold |-> e.hold]
  BY <1>1, <1>2
<1>6. e \in Rtc
  BY <1>3, <1>4, <1>5 DEF Rtc, TimeFields, AlarmFields
<1> QED BY <1>6 DEF e

----------------------------------------------------------------------------
(* The HPET's registers.                                                    *)

LEMMA SizeFacts ==
  /\ HpetSize \in Nat /\ HpetSize >= 2
  /\ \A i \in 1 .. 4 : \E k \in Nat \ {0} :
       Weight[i] \in Nat \ {0} /\ HpetSize = k * (LaneBase * Weight[i])
<1> DEFINE b == LaneBase
           b2 == b * b
           b3 == b2 * b
           b4 == b3 * b
<1>1. b \in Nat \ {0, 1}
  BY HpetAssumption
<1> HIDE DEF b
<1>2. ASSUME NEW x \in Nat \ {0}
      PROVE  x * b \in Nat \ {0} /\ x * b >= x
  <2>1. x * (b - 1) >= 0
    BY <1>1, SMT
  <2> QED BY <1>1, <2>1, SMT
<1>3. b2 \in Nat \ {0} /\ b2 >= b
  BY <1>1, <1>2
<1>4. b3 \in Nat \ {0} /\ b3 >= b2
  <2> HIDE DEF b2
  <2> QED BY <1>2, <1>3
<1>5. b4 \in Nat \ {0} /\ b4 >= b3
  <2> HIDE DEF b2, b3
  <2> QED BY <1>2, <1>4
<1>6. b4 = b3 * (b * 1) /\ b4 = b2 * (b * b) /\ b4 = b * (b * b2) /\ b4 = 1 * (b * b3)
  BY <1>1, SMT
<1>7. HpetSize = b4 /\ Weight = <<1, b, b2, b3>>
  BY DEF HpetSize, Weight, b
<1>8. Weight[1] = 1 /\ Weight[2] = b /\ Weight[3] = b2 /\ Weight[4] = b3
  BY <1>7
<1> HIDE DEF b2, b3, b4
<1>9. HpetSize \in Nat /\ HpetSize >= 2
  BY <1>1, <1>3, <1>4, <1>5, <1>7
<1>10. ASSUME NEW i \in 1 .. 4
       PROVE  \E k \in Nat \ {0} : Weight[i] \in Nat \ {0} /\ HpetSize = k * (b * Weight[i])
  <2>1. CASE i = 1
    BY <1>4, <1>6, <1>7, <1>8, <2>1
  <2>2. CASE i = 2
    BY <1>1, <1>3, <1>6, <1>7, <1>8, <2>2
  <2>3. CASE i = 3
    BY <1>1, <1>3, <1>6, <1>7, <1>8, <2>3
  <2>4. CASE i = 4
    <3>1. 1 \in Nat \ {0}
      OBVIOUS
    <3> QED BY <1>4, <1>6, <1>7, <1>8, <2>4, <3>1
  <2> QED BY <2>1, <2>2, <2>3, <2>4
<1> QED BY <1>9, <1>10 DEF b

(* A number with one of its digits replaced.                                *)
LEMMA DigitReplaced ==
  ASSUME NEW b \in Nat \ {0}, NEW w \in Nat \ {0}, NEW k \in Nat \ {0},
         NEW c \in 0 .. k * (b * w) - 1, NEW d \in 0 .. b - 1
  PROVE  c + (d - ((c \div w) % b)) * w \in 0 .. k * (b * w) - 1
<1> DEFINE q == c \div w
           r == c % w
           e == q % b
           t == q \div b
<1>a. c \in Nat
  OBVIOUS
<1>1. /\ c \in Nat /\ q \in Nat /\ r \in 0 .. w - 1 /\ q * w + r = c
  BY <1>a, Digits
<1>2. /\ e \in 0 .. b - 1 /\ t \in Nat /\ t * b + e = q
  <2> HIDE DEF q
  <2> QED BY <1>1, Digits
<1> HIDE DEF q, r, e, t
<1>3. t <= k - 1
  <2> SUFFICES ASSUME t >= k
               PROVE  FALSE
    BY <1>2
  <2>1. (t - k) * (b * w) >= 0
    BY <1>2, SMT
  <2>2. t * (b * w) >= k * (b * w)
    BY <1>2, <2>1, SMT
  <2>3. t * b <= q
    BY <1>2, SMT
  <2>4. (q - t * b) * w >= 0
    BY <1>1, <1>2, <2>3, SMT
  <2>5. (t * b) * w <= q * w /\ (t * b) * w = t * (b * w)
    BY <1>1, <1>2, <2>4, SMT
  <2> DEFINE kbw == k * (b * w)
             tbw == t * (b * w)
             qw == q * w
  <2>6. kbw \in Int /\ tbw \in Int /\ qw \in Int
    BY <1>1, <1>2, SMT
  <2>7. tbw >= kbw /\ tbw <= qw /\ qw <= c /\ c <= kbw - 1
    BY <1>1, <2>2, <2>5, SMT
  <2> HIDE DEF kbw, tbw, qw
  <2> QED BY <1>1, <2>6, <2>7
<1>4. c + (d - e) * w = (t * b) * w + (d * w + r)
  <2>1. q * w = (t * b) * w + e * w
    BY <1>1, <1>2, SMT
  <2>2. (d - e) * w = d * w - e * w
    BY <1>2, SMT
  <2> QED BY <1>1, <1>2, <2>1, <2>2, SMT
<1>5. d * w + r \in 0 .. b * w - 1
  <2>1. (b - 1 - d) * w >= 0
    BY SMT
  <2>2. d * w + w <= b * w /\ d * w >= 0
    BY <2>1, SMT
  <2> QED BY <1>1, <2>2, SMT
<1>6. (t * b) * w \in Nat /\ (t * b) * w + b * w <= k * (b * w)
  <2>1. (k - 1 - t) * (b * w) >= 0
    BY <1>2, <1>3, SMT
  <2>2. (t * b) * w = t * (b * w)
    BY <1>2, SMT
  <2>3. t * (b * w) + b * w <= k * (b * w)
    BY <1>2, <2>1, SMT
  <2>4. t * (b * w) >= 0
    BY <1>2, SMT
  <2> QED BY <1>2, <2>2, <2>3, <2>4, SMT
<1> DEFINE x == (t * b) * w
           y == d * w + r
           z == k * (b * w)
           bw == b * w
<1>7. x \in Nat /\ y \in 0 .. bw - 1 /\ x + bw <= z /\ z \in Int /\ bw \in Int
  BY <1>5, <1>6, SMT
<1> HIDE DEF x, y, z, bw
<1>8. x + y \in 0 .. z - 1
  BY <1>7
<1> QED BY <1>4, <1>8 DEF x, y, z, e, q

LEMMA CounterDigit ==
  ASSUME NEW c \in HpetValue, NEW v \in HpetValue, NEW i \in 1 .. 4
  PROVE  c + (Lane(v, i) - Lane(c, i)) * Weight[i] \in HpetValue
<1>1. PICK k \in Nat \ {0} : Weight[i] \in Nat \ {0} /\ HpetSize = k * (LaneBase * Weight[i])
  BY SizeFacts
<1> DEFINE w == Weight[i]
           q == v \div w
<1>2. w \in Nat \ {0} /\ LaneBase \in Nat \ {0} /\ HpetSize = k * (LaneBase * w)
  BY <1>1, HpetAssumption
<1>3. v \in Nat /\ c \in 0 .. k * (LaneBase * w) - 1
  BY <1>2, SizeFacts DEF HpetValue
<1> HIDE DEF w
<1>4. q \in Nat
  BY <1>2, <1>3, Digits
<1> HIDE DEF q
<1>5. q % LaneBase \in 0 .. LaneBase - 1
  BY <1>2, <1>4, Digits
<1>6. c + ((q % LaneBase) - ((c \div w) % LaneBase)) * w \in 0 .. k * (LaneBase * w) - 1
  BY <1>2, <1>3, <1>5, DigitReplaced
<1> QED BY <1>2, <1>6 DEF HpetValue, Lane, q, w

LEMMA Lap ==
  ASSUME NEW n \in Nat
  PROVE  n % HpetSize \in HpetValue
<1> DEFINE s == HpetSize
<1>1. s \in Nat \ {0}
  BY SizeFacts
<1> HIDE DEF s
<1>2. n % s \in 0 .. s - 1
  BY <1>1
<1> QED BY <1>2 DEF s, HpetValue

LEMMA EvalTyped ==
  ASSUME NEW h \in HpetMmio, NEW before
  PROVE  EvalTimer0(h, before) \in HpetMmio
<1> DEFINE edge == h.edge \/ ~h.level
           next == (h.counter + IF h.period = 0 THEN AtLeastOne(h.cmp) ELSE h.period) % HpetSize
           cmp == IF ~h.periodic THEN h.cmp ELSE next
           armed == h.armed /\ h.periodic
<1>1. edge \in BOOLEAN /\ armed \in BOOLEAN
  BY DEF HpetMmio
<1>2. h.counter \in Nat /\ h.cmp \in Nat /\ h.period \in Nat
  BY DEF HpetMmio, HpetValue
<1>3. (IF h.period = 0 THEN AtLeastOne(h.cmp) ELSE h.period) \in Nat
  BY <1>2 DEF AtLeastOne
<1>4. next \in HpetValue
  BY <1>2, <1>3, Lap
<1>5. cmp \in HpetValue
  BY <1>4 DEF HpetMmio
<1>6. EvalTimer0(h, before) \in
        {h, [h EXCEPT !.status = TRUE, !.edge = edge, !.cmp = cmp, !.armed = armed]}
  BY DEF EvalTimer0
<1> HIDE DEF edge, cmp, armed
<1>7. [h EXCEPT !.status = TRUE, !.edge = edge, !.cmp = cmp, !.armed = armed] \in HpetMmio
  BY <1>1, <1>5, ZenonT(60) DEF HpetMmio
<1> QED BY <1>6, <1>7

LEMMA CounterMoved ==
  ASSUME NEW h \in HpetMmio, NEW c \in HpetValue
  PROVE  [h EXCEPT !.counter = c] \in HpetMmio
BY ZenonT(60) DEF HpetMmio

LEMMA AdvanceTyped ==
  ASSUME NEW h \in HpetMmio, NEW delta \in Nat
  PROVE  AdvanceMainCounter(h, delta) \in HpetMmio
<1> DEFINE c == (h.counter + delta) % HpetSize
<1>1. h.counter + delta \in Nat
  BY DEF HpetMmio, HpetValue
<1>2. c \in HpetValue
  BY <1>1, Lap
<1>3. AdvanceMainCounter(h, delta) \in {h, EvalTimer0([h EXCEPT !.counter = c], h.counter)}
  BY DEF AdvanceMainCounter
<1> HIDE DEF c
<1> QED BY <1>2, <1>3, CounterMoved, EvalTyped

LEMMA ByteTyped ==
  ASSUME NEW h \in HpetMmio, NEW i \in 1 .. 4, NEW v \in HpetValue
  PROVE  WriteCounterByte(h, i, v) \in HpetMmio
<1> DEFINE c == h.counter + (Lane(v, i) - Lane(h.counter, i)) * Weight[i]
<1>1. c \in HpetValue
  BY CounterDigit DEF HpetMmio
<1>2. WriteCounterByte(h, i, v) = EvalTimer0([h EXCEPT !.counter = c], h.counter)
  BY DEF WriteCounterByte
<1> HIDE DEF c
<1> QED BY <1>1, <1>2, CounterMoved, EvalTyped

(* A store of the counter is four stores of a byte.                         *)
LEMMA StoreCounterTyped ==
  ASSUME NEW h \in HpetMmio, NEW v \in HpetValue
  PROVE  StoreCounter(h, v) \in HpetMmio
<1> DEFINE Is(g) == g = [k \in 0 .. 4 |-> IF k = 0 THEN h ELSE WriteCounterByte(g[k - 1], k, v)]
           s1 == WriteCounterByte(h, 1, v)
           s2 == WriteCounterByte(s1, 2, v)
           s3 == WriteCounterByte(s2, 3, v)
           s4 == WriteCounterByte(s3, 4, v)
           f == [k \in 0 .. 4 |-> IF k = 0 THEN h ELSE IF k = 1 THEN s1 ELSE IF k = 2 THEN s2
                                  ELSE IF k = 3 THEN s3 ELSE s4]
           after == CHOOSE g : Is(g)
<1>1. StoreCounter(h, v) = after[4]
  BY DEF StoreCounter
<1>2. Is(f)
  <2>1. f[0] = h /\ f[1] = s1 /\ f[2] = s2 /\ f[3] = s3 /\ f[4] = s4
    OBVIOUS
  <2>2. f = [k \in 0 .. 4 |-> f[k]]
    OBVIOUS
  <2>3. \A k \in 0 .. 4 : k \in {0, 1, 2, 3, 4}
    OBVIOUS
  <2> HIDE DEF f
  <2>4. \A k \in 0 .. 4 : f[k] = IF k = 0 THEN h ELSE WriteCounterByte(f[k - 1], k, v)
    BY <2>1, <2>3
  <2> QED BY <2>2, <2>4
<1>3. Is(after)
  <2> HIDE DEF Is, f
  <2> QED BY <1>2
<1> HIDE DEF after
<1>4. \A k \in 0 .. 4 : after[k] = IF k = 0 THEN h ELSE WriteCounterByte(after[k - 1], k, v)
  BY <1>3
<1>5. /\ after[0] = h /\ after[1] = WriteCounterByte(after[0], 1, v)
      /\ after[2] = WriteCounterByte(after[1], 2, v)
      /\ after[3] = WriteCounterByte(after[2], 3, v)
      /\ after[4] = WriteCounterByte(after[3], 4, v)
  BY <1>4
<1>6. after[1] \in HpetMmio
  BY <1>5, ByteTyped
<1>7. after[2] \in HpetMmio
  BY <1>5, <1>6, ByteTyped
<1>8. after[3] \in HpetMmio
  BY <1>5, <1>7, ByteTyped
<1> QED BY <1>1, <1>5, <1>8, ByteTyped

LEMMA StoresTyped ==
  ASSUME NEW h \in HpetMmio, NEW v \in HpetValue, NEW level \in BOOLEAN,
         NEW intEnb \in BOOLEAN, NEW periodic \in BOOLEAN, NEW valSet \in BOOLEAN
  PROVE  /\ StoreComparator(h, v) \in HpetMmio
         /\ StoreT0Config(h, level, intEnb, periodic, valSet) \in HpetMmio
         /\ ClearStatus(h) \in HpetMmio
         /\ [h EXCEPT !.enable = level] \in HpetMmio
<1> DEFINE sets == h.periodic /\ (h.valSet \/ h.period = 0)
           period == IF sets THEN AtLeastOne(v) ELSE h.period
           left == h.valSet /\ ~h.periodic
           set == h.valSet \/ valSet
<1>1. AtLeastOne(v) \in HpetValue
  BY SizeFacts DEF AtLeastOne, HpetValue
<1>2. period \in HpetValue /\ left \in BOOLEAN /\ set \in BOOLEAN
  BY <1>1 DEF HpetMmio
<1>3. StoreComparator(h, v) =
        [h EXCEPT !.cmp = v, !.armed = TRUE, !.period = period, !.valSet = left]
  BY DEF StoreComparator
<1>4. StoreT0Config(h, level, intEnb, periodic, valSet) =
        [h EXCEPT !.level = level, !.intEnb = intEnb, !.periodic = periodic, !.valSet = set]
  BY DEF StoreT0Config
<1> HIDE DEF period, left, set
<1>5. StoreComparator(h, v) \in HpetMmio
  BY <1>2, <1>3, ZenonT(60) DEF HpetMmio
<1>6. StoreT0Config(h, level, intEnb, periodic, valSet) \in HpetMmio
  BY <1>2, <1>4, ZenonT(60) DEF HpetMmio
<1>7. ClearStatus(h) \in HpetMmio
  BY Zenon DEF ClearStatus, HpetMmio
<1>8. [h EXCEPT !.enable = level] \in HpetMmio
  BY ZenonT(60) DEF HpetMmio
<1> QED BY <1>5, <1>6, <1>7, <1>8

----------------------------------------------------------------------------
(* The clocks of a tick.                                                    *)

Runs(s, n, g) ==
  g = [k \in 0 .. n |-> IF k = 0 THEN s ELSE AfterClock(g[k - 1], TickPit1(g[k - 1].pit))]

LEMMA RunsExists ==
  ASSUME NEW s, NEW N \in Nat
  PROVE  \E g : Runs(s, N, g)
<1> DEFINE T == {n \in 0 .. N : ~\E g : Runs(s, n, g)}
<1> SUFFICES ASSUME T # {}
             PROVE  FALSE
  <2>1. N \in 0 .. N
    OBVIOUS
  <2> QED BY <2>1
<1>1. T \subseteq Nat
  OBVIOUS
<1>2. PICK n \in T : \A k \in T : n <= k
  <2> HIDE DEF T
  <2> QED BY <1>1, LeastNatural
<1>3. n \in 0 .. N /\ ~\E g : Runs(s, n, g)
  BY <1>2
<1>4. CASE n = 0
  <2> DEFINE g == [k \in 0 .. 0 |-> s]
  <2>1. g = [k \in 0 .. 0 |-> IF k = 0 THEN s
                              ELSE AfterClock(g[k - 1], TickPit1(g[k - 1].pit))]
    OBVIOUS
  <2> HIDE DEF g
  <2> QED BY <1>3, <1>4, <2>1 DEF Runs
<1>5. CASE n # 0
  <2>1. n - 1 \in 0 .. N /\ n - 1 \notin T
    BY <1>2, <1>3, <1>5
  <2>2. PICK f : Runs(s, n - 1, f)
    BY <2>1
  <2> DEFINE last == AfterClock(f[n - 1], TickPit1(f[n - 1].pit))
             h == [k \in 0 .. n |-> IF k = n THEN last ELSE f[k]]
  <2>3. \A k \in 0 .. n - 1 :
          f[k] = IF k = 0 THEN s ELSE AfterClock(f[k - 1], TickPit1(f[k - 1].pit))
    BY <2>2 DEF Runs
  <2>4. ASSUME NEW k \in 0 .. n
        PROVE  h[k] = IF k = 0 THEN s ELSE AfterClock(h[k - 1], TickPit1(h[k - 1].pit))
    <3>1. CASE k = n
      <4>1. k # 0 /\ k - 1 \in 0 .. n /\ k - 1 # n
        BY <1>3, <1>5, <3>1
      <4>2. h[k - 1] = f[n - 1] /\ h[k] = last
        BY <3>1, <4>1
      <4> QED BY <4>1, <4>2
    <3>2. CASE k # n
      <4>1. k \in 0 .. n - 1 /\ h[k] = f[k]
        BY <1>3, <3>2
      <4>2. CASE k = 0
        BY <2>3, <4>1, <4>2
      <4>3. CASE k # 0
        <5>1. k - 1 \in 0 .. n /\ k - 1 # n
          BY <1>3, <3>2, <4>3
        <5>2. h[k - 1] = f[k - 1]
          BY <5>1
        <5> HIDE DEF h
        <5> QED BY <2>3, <4>1, <4>3, <5>2
      <4> QED BY <4>2, <4>3
    <3> QED BY <3>1, <3>2
  <2>5. h = [k \in 0 .. n |-> IF k = 0 THEN s
                              ELSE AfterClock(h[k - 1], TickPit1(h[k - 1].pit))]
    <3>1. h = [k \in 0 .. n |-> h[k]]
      OBVIOUS
    <3> HIDE DEF h
    <3> QED BY <2>4, <3>1
  <2> HIDE DEF h
  <2> QED BY <1>3, <2>5 DEF Runs
<1> QED BY <1>4, <1>5

(* A set that holds the chip before the tick and that no clock leaves holds *)
(* it after the tick.                                                       *)
LEMMA TickedKeeps ==
  ASSUME NEW p, NEW m, NEW n \in Nat, NEW S,
         [pit |-> p, meter |-> m, rising |-> FALSE] \in S,
         \A s \in S : AfterClock(s, TickPit1(s.pit)) \in S
  PROVE  Ticked(p, m, n) \in S
<1> DEFINE s == [pit |-> p, meter |-> m, rising |-> FALSE]
           after == CHOOSE g : Runs(s, n, g)
           T == {k \in 0 .. n : after[k] \notin S}
<1> HIDE DEF s
<1>1. Ticked(p, m, n) = after[n]
  BY DEF Ticked, Runs, s
<1>2. Runs(s, n, after)
  BY RunsExists
<1> HIDE DEF after
<1>3. \A k \in 0 .. n : after[k] = IF k = 0 THEN s
                                   ELSE AfterClock(after[k - 1], TickPit1(after[k - 1].pit))
  BY <1>2 DEF Runs
<1>4. T = {}
  <2> SUFFICES ASSUME T # {}
               PROVE  FALSE
    OBVIOUS
  <2>1. PICK k \in T : \A j \in T : k <= j
    <3>1. T \subseteq Nat
      OBVIOUS
    <3> HIDE DEF T
    <3> QED BY <3>1, LeastNatural
  <2>2. k \in 0 .. n /\ after[k] \notin S
    BY <2>1
  <2>3. k # 0
    BY <1>3, <2>2 DEF s
  <2>4. k - 1 \in 0 .. n /\ k - 1 \notin T
    BY <2>1, <2>2, <2>3
  <2>5. after[k - 1] \in S
    BY <2>4
  <2> QED BY <1>3, <2>2, <2>3, <2>5
<1>5. n \in 0 .. n
  OBVIOUS
<1> QED BY <1>1, <1>4, <1>5

(* A tick of no clocks.                                                     *)
LEMMA NotTicked ==
  ASSUME NEW p, NEW m
  PROVE  Ticked(p, m, 0) = [pit |-> p, meter |-> m, rising |-> FALSE]
<1> DEFINE s == [pit |-> p, meter |-> m, rising |-> FALSE]
           after == CHOOSE g : Runs(s, 0, g)
<1> HIDE DEF s
<1>1. Ticked(p, m, 0) = after[0]
  BY DEF Ticked, Runs, s
<1>2. Runs(s, 0, after)
  BY RunsExists
<1> HIDE DEF after
<1>3. after[0] = s
  BY <1>2 DEF Runs
<1> QED BY <1>1, <1>3 DEF s

----------------------------------------------------------------------------
(* Types of the histories.                                                  *)

LEMMA MeterFacts ==
  /\ NoMeter \in Meter /\ NoReading \in Reading
  /\ 0 \in 0 .. MeterCap /\ 1 \in 1 .. MeterCap
<1>1. 0 \in 0 .. FullCount /\ 0 \in 0 .. MeterCap /\ 1 \in 1 .. MeterCap
  BY FullFacts
<1>2. NoMeter \in Meter
  BY <1>1, Zenon DEF NoMeter, Meter
<1>3. -1 \in -1 .. FullCount - 1 /\ -1 \in -1 .. ByteBase - 1
  BY FullFacts
<1>4. <<-1, -1>> \in (-1 .. FullCount - 1) \X (-1 .. FullCount - 1)
  BY <1>3
<1>5. NoReading \in Reading
  BY <1>3, <1>4, Zenon DEF NoReading, Reading
<1> QED BY <1>1, <1>2, <1>5

LEMMA MeterArmedTyped ==
  ASSUME NEW ch \in PitChannel
  PROVE  MeterArmed(ch) \in Meter
<1> DEFINE low == ~ch.out
           n == Reload(ch)
<1>1. low \in BOOLEAN
  OBVIOUS
<1>2. n \in 0 .. FullCount
  BY ReloadTyped, FullFacts
<1>3. MeterArmed(ch) = [NoMeter EXCEPT !.on = TRUE, !.low = low, !.n = n]
  BY DEF MeterArmed
<1> HIDE DEF low, n
<1> QED BY <1>1, <1>2, <1>3, MeterFacts, ZenonT(60) DEF Meter

LEMMA MeasuredTyped ==
  ASSUME NEW m \in Meter, NEW b \in PitChannel, NEW a
  PROVE  Measured(m, b, a) \in Meter
<1> DEFINE n == IF b.pending THEN Reload(b) ELSE m.n
           next == m.since + 1
           up == m.facts \cup {Interval(m, "rise")}
           down == m.facts \cup {Interval(m, "fall")}
<1>1. CASE ~m.on \/ ~Clocked(b) \/ m.since >= MeterCap
  BY <1>1 DEF Measured
<1>2. CASE ~(~m.on \/ ~Clocked(b) \/ m.since >= MeterCap)
  <2>1. n \in 0 .. FullCount
    BY ReloadTyped, FullFacts DEF Meter
  <2>2. m.since \in 0 .. MeterCap /\ MeterCap \in Nat
    BY FullFacts DEF Meter
  <2>3. next \in 1 .. MeterCap /\ next \in 0 .. MeterCap
    BY <1>2, <2>2
  <2>4. \A edge \in {"rise", "fall"} :
          Interval(m, edge) \in {"fall", "rise", "low", "period"} \X (1 .. MeterCap)
    BY <2>3 DEF Interval
  <2>5. m.facts \subseteq {"fall", "rise", "low", "period"} \X (1 .. MeterCap)
    BY DEF Meter
  <2>6. /\ up \in SUBSET ({"fall", "rise", "low", "period"} \X (1 .. MeterCap))
        /\ down \in SUBSET ({"fall", "rise", "low", "period"} \X (1 .. MeterCap))
    BY <2>4, <2>5
  <2>7. Measured(m, b, a) \in
          {[m EXCEPT !.n = n, !.since = next, !.facts = up],
           [m EXCEPT !.n = n, !.mark = "fall", !.since = 0, !.facts = down],
           [m EXCEPT !.n = n, !.since = next]}
    BY <1>2, Zenon DEF Measured
  <2> HIDE DEF n, next, up, down
  <2>8. [m EXCEPT !.n = n, !.since = next, !.facts = up] \in Meter
    BY <2>1, <2>3, <2>6, ZenonT(60) DEF Meter
  <2>9. [m EXCEPT !.n = n, !.mark = "fall", !.since = 0, !.facts = down] \in Meter
    BY <2>1, <2>6, MeterFacts, ZenonT(60) DEF Meter
  <2>10. [m EXCEPT !.n = n, !.since = next] \in Meter
    BY <2>1, <2>3, ZenonT(60) DEF Meter
  <2> QED BY <2>7, <2>8, <2>9, <2>10
<1> QED BY <1>1, <1>2

LEMMA LatchedTyped ==
  ASSUME NEW rd \in Reading, NEW b \in PitChannel
  PROVE  ReadingLatched(rd, b) \in Reading
<1> DEFINE want == LatchSnapshot(b)
<1>1. want \in -1 .. FullCount - 1
  BY SnapshotTyped, FullFacts
<1>2. ReadingLatched(rd, b) \in {rd, [NoReading EXCEPT !.want = want]}
  BY DEF ReadingLatched, LatchSnapshot
<1> HIDE DEF want
<1>3. [NoReading EXCEPT !.want = want] \in Reading
  BY <1>1, MeterFacts, ZenonT(60) DEF Reading
<1> QED BY <1>2, <1>3

LEMMA ReadByteTyped ==
  ASSUME NEW b \in PitChannel
  PROVE  ReadByte(b) \in PitByte
<1> DEFINE w == ReadCount(b)
<1>1. w \in 0 .. FullCount - 1
  BY DEF ReadCount, PitChannel
<1>2. ReadByte(b) \in {w \div ByteBase, w % ByteBase}
  BY DEF ReadByte
<1> HIDE DEF w
<1>3. w \in Nat /\ w < ByteBase * ByteBase
  BY <1>1, FullFacts DEF FullCount
<1>4. w \div ByteBase \in PitByte /\ w % ByteBase \in PitByte
  BY <1>3, Digits, PitAssumption DEF PitByte
<1> QED BY <1>2, <1>4

LEMMA ReadTyped ==
  ASSUME NEW rd \in Reading, NEW b \in PitChannel
  PROVE  ReadingRead(rd, b) \in Reading
<1> DEFINE byte == ReadByte(b)
           low == rd.want % ByteBase
           high == rd.want \div ByteBase
           whole == byte * ByteBase + rd.low
           Count == -1 .. FullCount - 1
           onLow == <<low, byte>>
           onHigh == <<high, byte>>
           onBoth == <<rd.want, whole>>
<1>1. byte \in 0 .. ByteBase - 1 /\ rd.want \in Count /\ rd.low \in -1 .. ByteBase - 1
  BY ReadByteTyped DEF PitByte, Reading
<1>2. ByteBase \in Nat \ {0} /\ FullCount \in Nat /\ ByteBase <= FullCount
  BY FullFacts
<1>3. ReadingRead(rd, b) \in {rd, [rd EXCEPT !.got = onLow], [rd EXCEPT !.got = onHigh],
                              [rd EXCEPT !.low = byte], [rd EXCEPT !.got = onBoth]}
  BY DEF ReadingRead
<1> HIDE DEF byte
<1>4. low \in 0 .. ByteBase - 1 /\ high \in Count
  <2>1. CASE rd.want = -1
    <3>1. (-1) % ByteBase \in 0 .. ByteBase - 1 /\ (-1) \div ByteBase = -1
      BY <1>2, SMT
    <3> QED BY <1>2, <2>1, <3>1
  <2>2. CASE rd.want # -1
    <3>1. rd.want \in Nat /\ rd.want < ByteBase * ByteBase
      BY <1>1, <1>2, <2>2 DEF FullCount
    <3>2. low \in 0 .. ByteBase - 1 /\ high \in 0 .. ByteBase - 1
      BY <1>2, <3>1, Digits
    <3> QED BY <1>2, <3>2
  <2> QED BY <2>1, <2>2
<1>5. whole \in Count
  <2>1. CASE rd.low = -1
    <3>1. byte * ByteBase \in 0 .. FullCount - 1
      <4>1. 0 \in 0 .. ByteBase - 1
        BY <1>2
      <4>2. byte * ByteBase + 0 \in 0 .. FullCount - 1
        BY <1>1, <1>2, <4>1, TwoDigits DEF FullCount
      <4>3. byte * ByteBase \in Int
        BY <1>1, <1>2, SMT
      <4> QED BY <4>2, <4>3
    <3> DEFINE x == byte * ByteBase
    <3>2. x \in 0 .. FullCount - 1 /\ whole = x + (-1)
      BY <2>1, <3>1
    <3> HIDE DEF x, whole
    <3> QED BY <1>2, <3>2
  <2>2. CASE rd.low # -1
    <3>1. rd.low \in 0 .. ByteBase - 1
      BY <1>1, <1>2, <2>2
    <3>2. whole \in 0 .. FullCount - 1
      BY <1>1, <1>2, <3>1, TwoDigits DEF FullCount
    <3> HIDE DEF whole
    <3> QED BY <1>2, <3>2
  <2> QED BY <2>1, <2>2
<1> HIDE DEF low, high, whole
<1>6. byte \in Count /\ low \in Count
  BY <1>1, <1>2, <1>4
<1>7. onLow \in Count \X Count /\ onHigh \in Count \X Count /\ onBoth \in Count \X Count
  BY <1>1, <1>4, <1>5, <1>6
<1>8. byte \in -1 .. ByteBase - 1
  BY <1>1, <1>2
<1> HIDE DEF onLow, onHigh, onBoth
<1>9. [rd EXCEPT !.low = byte] \in Reading
  BY <1>8, ZenonT(60) DEF Reading
<1>10. \A x \in Count \X Count : [rd EXCEPT !.got = x] \in Reading
  BY ZenonT(60) DEF Reading
<1> QED BY <1>3, <1>7, <1>9, <1>10

(* A tick keeps the types.                                                  *)
TickState == [pit : Pit, meter : Meter, rising : BOOLEAN]

LEMMA ClockTyped ==
  ASSUME guest \in Guest, NEW s \in TickState
  PROVE  AfterClock(s, TickPit1(s.pit)) \in TickState
<1> DEFINE p == TickPit1(s.pit)
           m == Measured(s.meter, s.pit.ch[guest.channel], p.ch[guest.channel])
           r == s.rising \/ Rises(s.pit.ch[0], p.ch[0])
<1>1. s.pit \in Pit /\ s.meter \in Meter /\ s.rising \in BOOLEAN /\ guest.channel \in 0 .. 2
  BY DEF TickState, Guest
<1>2. p \in Pit
  BY <1>1, TickPitWorks
<1>3. s.pit.ch[guest.channel] \in PitChannel
  BY <1>1, ChannelTyped
<1>4. m \in Meter
  BY <1>1, <1>3, MeasuredTyped
<1>5. r \in BOOLEAN
  BY <1>1 DEF Rises
<1>6. AfterClock(s, p) = [pit |-> p, meter |-> m, rising |-> r]
  BY DEF AfterClock
<1> HIDE DEF p, m, r
<1> QED BY <1>2, <1>4, <1>5, <1>6 DEF TickState, p

LEMMA TickedTyped ==
  ASSUME guest \in Guest, NEW p \in Pit, NEW m \in Meter, NEW n \in Nat
  PROVE  Ticked(p, m, n) \in TickState
<1>1. [pit |-> p, meter |-> m, rising |-> FALSE] \in TickState
  BY DEF TickState
<1> QED BY <1>1, ClockTyped, TickedKeeps

----------------------------------------------------------------------------
(* The clock's interrupt: up with an enabled flag, and not down before the  *)
(* guest's.                                                                 *)

SameFlags(r, e) == e.flags = r.flags /\ e.enables = r.enables /\ e.irqf = r.irqf

Signals(r) == r \in Rtc /\ r.irqf = (r.flags \cap r.enables # {})

LEMMA MonthFlags ==
  ASSUME NEW r \in Rtc
  PROVE  SameFlags(r, AdvanceMonth(r))
<1> DEFINE m == DecodeField(r.month, r.binary)
           y == IF m = 12 THEN AdvanceYear(r) ELSE r
           n == EncodeField(IF m \in 1 .. 11 THEN m + 1 ELSE 1, r.binary)
           year == FieldInc(r.year, 99, r.binary)
           century == IF FieldWraps(r.year, 99, r.binary)
                      THEN EncodeField((DecodeField(r.century, r.binary) + 1) % 100, r.binary)
                      ELSE r.century
<1>1. AdvanceYear(r) = [r EXCEPT !.year = year, !.century = century]
  BY DEF AdvanceYear
<1> HIDE DEF year, century
<1>2. SameFlags(r, AdvanceYear(r)) /\ SameFlags(r, r)
  BY <1>1 DEF SameFlags, Rtc
<1>3. y \in Rtc /\ SameFlags(r, y)
  BY <1>2, YearTyped
<1>4. AdvanceMonth(r) = [y EXCEPT !.month = n]
  BY DEF AdvanceMonth
<1> HIDE DEF y, n
<1> QED BY <1>3, <1>4 DEF SameFlags, Rtc

LEMMA DayFlags ==
  ASSUME NEW r \in Rtc
  PROVE  SameFlags(r, AdvanceDay(r))
<1> DEFINE w == IF r.dow \in 1 .. 6 THEN r.dow + 1 ELSE 1
           s == [r EXCEPT !.dow = w]
           d == DecodeField(s.day, s.binary)
           next == EncodeField(d + 1, s.binary)
           first == EncodeField(1, s.binary)
           f == [s EXCEPT !.day = first]
<1>1. w \in CmosByte
  BY DEF CmosByte
<1>2. AdvanceDay(r) = AdvanceDate(s)
  BY DEF AdvanceDay
<1> HIDE DEF w
<1>3. s \in Rtc
  BY <1>1, ZenonT(60) DEF Rtc
<1>4. SameFlags(r, s)
  BY DEF SameFlags, Rtc
<1> HIDE DEF s
<1>5. s.binary \in BOOLEAN
  BY <1>3 DEF Rtc
<1>6. AdvanceDate(s) \in {[s EXCEPT !.day = next], AdvanceMonth(f)}
  BY DEF AdvanceDate
<1>7. first \in CmosByte
  BY <1>5, EncodedByte
<1> HIDE DEF next, first
<1>8. f \in Rtc
  BY <1>3, <1>7, ZenonT(60) DEF Rtc
<1>9. SameFlags(s, f) /\ SameFlags(s, [s EXCEPT !.day = next])
  BY <1>3 DEF SameFlags, Rtc
<1> HIDE DEF f
<1>10. SameFlags(f, AdvanceMonth(f))
  BY <1>8, MonthFlags
<1> QED BY <1>2, <1>4, <1>6, <1>9, <1>10 DEF SameFlags

LEMMA CalendarFlags ==
  ASSUME NEW r \in Rtc
  PROVE  SameFlags(r, AdvanceCalendar(r))
<1> DEFINE x == FieldInc(r.sec, 59, r.binary)
           s == [r EXCEPT !.sec = x]
           y == FieldInc(s.min, 59, r.binary)
           m == [s EXCEPT !.min = y]
           h == HourInc(m)
           e == [m EXCEPT !.hour = h]
<1>1. r.sec \in CmosByte /\ r.binary \in BOOLEAN
  BY DEF Rtc
<1>2. x \in CmosByte
  BY <1>1, FieldIncTyped
<1>3. AdvanceCalendar(r) \in {s, m, AdvanceHour(m)}
  BY DEF AdvanceCalendar
<1> HIDE DEF x
<1>4. s \in Rtc
  BY <1>2, ZenonT(60) DEF Rtc
<1>5. SameFlags(r, s)
  BY DEF SameFlags, Rtc
<1> HIDE DEF s
<1>6. s.min \in CmosByte
  BY <1>4 DEF Rtc
<1>7. y \in CmosByte
  BY <1>1, <1>6, FieldIncTyped
<1> HIDE DEF y
<1>8. m \in Rtc
  BY <1>4, <1>7, ZenonT(60) DEF Rtc
<1>9. SameFlags(s, m)
  BY <1>4 DEF SameFlags, Rtc
<1> HIDE DEF m
<1>10. m.hour \in CmosByte /\ m.binary \in BOOLEAN
  BY <1>8 DEF Rtc
<1>11. h \in CmosByte
  <2>1. 23 \in 0 .. 99
    OBVIOUS
  <2>2. /\ FieldInc(m.hour, 23, m.binary) \in CmosByte
        /\ Hour12Inc(m.hour, m.binary) \in CmosByte
    BY <1>10, <2>1, FieldIncTyped, Hour12IncTyped, Zenon
  <2> QED BY <2>2, Zenon DEF HourInc
<1>12. AdvanceHour(m) \in {e, AdvanceDay(e)}
  BY DEF AdvanceHour
<1> HIDE DEF h
<1>13. e \in Rtc
  BY <1>8, <1>11, ZenonT(60) DEF Rtc
<1>14. SameFlags(m, e)
  BY <1>8 DEF SameFlags, Rtc
<1> HIDE DEF e
<1>15. SameFlags(e, AdvanceDay(e))
  BY <1>13, DayFlags
<1> QED BY <1>3, <1>5, <1>9, <1>12, <1>14, <1>15 DEF SameFlags

LEMMA FlaggedSignals ==
  ASSUME NEW r \in Rtc, NEW sources \in SUBSET Sources
  PROVE  LET e == Flagged(r, sources)
         IN  Signals(e) /\ r.flags \subseteq e.flags /\ e.enables = r.enables
<1> DEFINE f == r.flags \cup sources \cup (IF AlarmMatches(r) THEN {"A"} ELSE {})
           b == [r EXCEPT !.flags = f]
           q == b.flags \cap b.enables # {}
           e == Flagged(r, sources)
<1>1. r.flags \subseteq f
  OBVIOUS
<1>2. e = [b EXCEPT !.irqf = q] /\ e \in Rtc
  BY FlaggedTyped DEF Flagged, RecomputeIrqf
<1> HIDE DEF f, e
<1>3. b.flags = f /\ b.enables = r.enables
  BY DEF Rtc
<1>4. e.flags = b.flags /\ e.enables = b.enables /\ e.irqf = q
  BY <1>2 DEF Rtc
<1> QED BY <1>1, <1>2, <1>3, <1>4 DEF Signals, e

(* A tick of the clock.                                                     *)
LEMMA TickSignals ==
  ASSUME NEW r, Signals(r), NEW n \in Nat
  PROVE  /\ Signals(RtcPeriods(r, n)) /\ (r.irqf => RtcPeriods(r, n).irqf)
         /\ Signals(RtcSecond(r)) /\ (r.irqf => RtcSecond(r).irqf)
<1>1. r \in Rtc
  BY DEF Signals
<1> DEFINE sources == (IF r.periodic THEN {"P"} ELSE {}) \cup (IF r.set THEN {} ELSE {"U"})
           e == Flagged(r, sources)
           hold == IF e.hold > n THEN e.hold - n ELSE 0
           uip == e.uip /\ (e.hold = 0 \/ e.hold > n)
           p == [e EXCEPT !.hold = hold, !.uip = uip]
<1>2. sources \in SUBSET Sources
  BY DEF Sources
<1>3. Signals(e) /\ r.flags \subseteq e.flags /\ e.enables = r.enables
  BY <1>1, <1>2, FlaggedSignals
<1>4. RtcPeriods(r, n) = p /\ p \in Rtc
  BY <1>1, PeriodsTyped DEF RtcPeriods, DecayUip
<1> HIDE DEF e
<1>5. SameFlags(e, p)
  BY <1>3 DEF SameFlags, Signals, Rtc
<1> HIDE DEF p
<1>6. Signals(p) /\ (r.irqf => p.irqf)
  BY <1>3, <1>4, <1>5 DEF Signals, SameFlags
<1> DEFINE c == AdvanceCalendar(r)
           f == Flagged(c, {"U"})
           s == [f EXCEPT !.uip = TRUE, !.hold = UipWindow]
<1>7. c \in Rtc /\ SameFlags(r, c)
  BY <1>1, CalendarTyped, CalendarFlags
<1>8. Signals(f) /\ c.flags \subseteq f.flags /\ f.enables = c.enables
  BY <1>7, FlaggedSignals DEF Sources
<1>9. RtcSecond(r) = (IF r.set THEN r ELSE s) /\ RtcSecond(r) \in Rtc
  BY <1>1, SecondTyped DEF RtcSecond
<1> HIDE DEF f, c
<1>10. SameFlags(f, s)
  BY <1>8 DEF SameFlags, Signals, Rtc
<1> HIDE DEF s
<1>11. Signals(RtcSecond(r)) /\ (r.irqf => RtcSecond(r).irqf)
  BY <1>7, <1>8, <1>9, <1>10 DEF Signals, SameFlags
<1> QED BY <1>4, <1>6, <1>11

(* A store of the clock.                                                    *)
LEMMA StoreSignals ==
  ASSUME NEW r, Signals(r), NEW set \in BOOLEAN, NEW h24 \in BOOLEAN,
         NEW enables \in SUBSET Sources
  PROVE  /\ Signals(ReadStatusC(r)) /\ Signals(WriteStatusA(r, set))
         /\ Signals(WriteStatusB(r, set, h24, enables))
<1>1. r \in Rtc
  BY DEF Signals
<1>2. Signals(ReadStatusC(r))
  <2>1. ReadStatusC(r).flags = {} /\ ~ReadStatusC(r).irqf
    BY <1>1 DEF ReadStatusC, Rtc
  <2>2. ReadStatusC(r) \in Rtc
    BY <1>1, StatusTyped
  <2> QED BY <2>1, <2>2 DEF Signals, Rtc
<1>3. Signals(WriteStatusA(r, set))
  <2>1. SameFlags(r, WriteStatusA(r, set))
    BY <1>1 DEF WriteStatusA, SameFlags, Rtc
  <2>2. WriteStatusA(r, set) \in Rtc
    BY <1>1, StatusTyped
  <2> QED BY <2>1, <2>2 DEF Signals, SameFlags
<1>4. \A b \in Rtc : Signals(RecomputeIrqf(b))
  <2> TAKE b \in Rtc
  <2> DEFINE q == b.flags \cap b.enables # {}
             e == RecomputeIrqf(b)
  <2>1. e = [b EXCEPT !.irqf = q] /\ e \in Rtc
    BY IrqfTyped DEF RecomputeIrqf
  <2> HIDE DEF e
  <2>2. e.flags = b.flags /\ e.enables = b.enables /\ e.irqf = q
    BY <2>1 DEF Rtc
  <2> QED BY <2>1, <2>2 DEF Signals, e
<1>5. Signals(WriteStatusB(r, set, h24, enables))
  <2> DEFINE b == [r EXCEPT !.set = set, !.h24 = h24, !.enables = enables]
             hour == ConvertHour(r.hour, r.binary, h24)
             aHour == IF r.aHour < DontCare THEN ConvertHour(r.aHour, r.binary, h24)
                                            ELSE r.aHour
             c == [b EXCEPT !.hour = hour, !.aHour = aHour]
  <2>1. r.hour \in CmosByte /\ r.aHour \in CmosByte /\ r.binary \in BOOLEAN
    BY <1>1 DEF Rtc
  <2>2. hour \in CmosByte /\ aHour \in CmosByte
    BY <2>1, ConvertTyped
  <2>3. b.hour = r.hour /\ b.aHour = r.aHour
    BY <1>1 DEF Rtc
  <2>4. WriteStatusB(r, set, h24, enables) \in {RecomputeIrqf(b), RecomputeIrqf(c)}
    BY <2>3 DEF WriteStatusB
  <2>5. b \in Rtc
    BY <1>1, ZenonT(60) DEF Rtc
  <2> HIDE DEF b, hour, aHour
  <2>6. c \in Rtc
    BY <2>2, <2>5, ZenonT(60) DEF Rtc
  <2> QED BY <1>4, <2>4, <2>5, <2>6
<1> QED BY <1>2, <1>3, <1>5

LEMMA FieldsSignal ==
  ASSUME NEW r, Signals(r), NEW f, DOMAIN f \subseteq TimeFields \cup AlarmFields,
         \A x \in DOMAIN f : f[x] \in CmosByte
  PROVE  Signals(WriteFields(r, f))
<1>1. WriteFields(r, f) \in Rtc
  BY FieldsTyped DEF Signals
<1>2. {"flags", "enables", "irqf"} \subseteq DOMAIN r \ DOMAIN f
  BY DEF Signals, Rtc, TimeFields, AlarmFields
<1>3. SameFlags(r, WriteFields(r, f))
  BY <1>2 DEF WriteFields, SameFlags
<1> QED BY <1>1, <1>3 DEF Signals, SameFlags

----------------------------------------------------------------------------
(* The interrupt controllers, as the guest leaves them: edge inputs, all    *)
(* open, fully nested, and nothing but the two timers connected.            *)

Open(c) ==
  /\ Sound(c) /\ c.initialized /\ ~c.single /\ ~c.levelTriggered /\ c.elcr = {}
  /\ ~c.autoEoi /\ ~c.specialMask /\ ~c.specialFullyNested
  /\ c.imr = {} /\ c.lowest = NIR - 1

SameRole(c, e) ==
  e.isMaster = c.isMaster /\ e.slaveMask = c.slaveMask /\ e.slaveId = c.slaveId

Steered(d) ==
  /\ d \in Pair
  /\ Open(d.master) /\ d.master.isMaster /\ d.master.slaveMask = {Cascade}
  /\ Open(d.slave) /\ ~d.slave.isMaster /\ d.slave.slaveId = Cascade
  /\ d.master.irr \subseteq {0, Cascade} /\ d.slave.irr \subseteq {0}

(* The master's cascade request is the slave's INT output.                  *)
Wired(d) ==
  /\ (Cascade \in d.master.pins) <=> IntPending(d.slave)
  /\ (Cascade \in d.master.irr) <=> IntPending(d.slave)

LEMMA Lines == 0 \in IR /\ Cascade \in IR /\ Cascade # 0 /\ NIR >= 2
BY TimersAssumption, PicAssumption DEF Cascade, IR

LEMMA OpenLine ==
  ASSUME NEW c, Open(c), NEW ir \in IR, NEW high \in BOOLEAN
  PROVE  LET e == SetLine(c, ir, high)
         IN  /\ Open(e) /\ SameRole(c, e) /\ e.isr = c.isr
             /\ high => e.pins = c.pins \cup {ir}
             /\ ~high => e.pins = c.pins \ {ir}
             /\ high /\ ir \notin c.pins => e.irr = c.irr \cup {ir}
             /\ ~(high /\ ir \notin c.pins) => e.irr = c.irr
<1> DEFINE e == SetLine(c, ir, high)
<1>1. Sound(c) /\ ~IsLevel(c, ir)
  BY DEF Open, IsLevel
<1>2. Sound(e) /\ Relatched(c, e)
  <2>1. CASE high
    <3>1. e = SetLine(c, ir, TRUE)
      BY <2>1 DEF SetLine
    <3>2. Raised(c, ir, e)
      BY <1>1, <3>1, RaiseSound
    <3> QED BY <3>2 DEF Raised
  <2>2. CASE ~high
    <3>1. e = SetLine(c, ir, FALSE)
      BY <2>2 DEF SetLine
    <3>2. Lowered(c, ir, e)
      BY <1>1, <3>1, LowerSound
    <3> QED BY <3>2 DEF Lowered
  <2> QED BY <2>1, <2>2
<1>3. /\ high => e.pins = c.pins \cup {ir}
      /\ ~high => e.pins = c.pins \ {ir}
      /\ high /\ ir \notin c.pins => e.irr = c.irr \cup {ir}
      /\ ~(high /\ ir \notin c.pins) => e.irr = c.irr
  BY <1>1 DEF SetLine, Sound, Chip
<1> HIDE DEF e
<1>4. /\ e.initialized = c.initialized /\ e.single = c.single
      /\ e.levelTriggered = c.levelTriggered /\ e.elcr = c.elcr
      /\ e.autoEoi = c.autoEoi /\ e.specialMask = c.specialMask
      /\ e.specialFullyNested = c.specialFullyNested
      /\ e.imr = c.imr /\ e.lowest = c.lowest
      /\ e.isr = c.isr /\ SameRole(c, e)
  BY <1>1, <1>2 DEF Relatched, Sound, Chip, SameRole
<1>5. Open(e)
  BY <1>2, <1>4 DEF Open
<1> QED BY <1>3, <1>4, <1>5 DEF e

(* The lowest number has the highest priority.                              *)
LEMMA OpenRank ==
  ASSUME NEW c, Open(c), NEW ir \in IR
  PROVE  Rank(c, ir) = ir
<1>1. NIR \in Nat \ {0} /\ c.lowest + 1 = NIR
  BY PicAssumption DEF Open
<1>2. ASSUME NEW n \in Nat \ {0}, NEW i \in 0 .. n - 1
      PROVE  (i - n) % n = i
  BY <1>2, SMT
<1>3. Rank(c, ir) = (ir - NIR) % NIR /\ ir \in 0 .. NIR - 1
  BY <1>1 DEF Rank, IR
<1> QED BY <1>1, <1>2, <1>3

LEMMA OpenRequests ==
  ASSUME NEW c, Open(c)
  PROVE  /\ Requests(c) = {ir \in c.irr : \A hp \in c.isr : ir < hp}
         /\ IntPending(c) => /\ Highest(c, Requests(c)) \in Requests(c)
                             /\ \A j \in Requests(c) : Highest(c, Requests(c)) <= j
<1>1. Sound(c) /\ c.irr \subseteq IR /\ c.isr \subseteq IR /\ c.lowest \in IR
  BY DEF Open, Sound, Chip
<1>2. ASSUME NEW ir \in IR, NEW hp \in IR
      PROVE  ~InServiceBlocks(c, hp, ir) <=> ir < hp
  <2>1. Rank(c, ir) = ir /\ Rank(c, hp) = hp
    BY OpenRank
  <2>2. InServiceBlocks(c, hp, ir) <=> hp <= ir
    BY <2>1 DEF InServiceBlocks, Open
  <2> QED BY <2>2, PicAssumption DEF IR
<1>3. Requests(c) = {ir \in c.irr : \A hp \in c.isr : ir < hp}
  <2>1. ASSUME NEW ir \in c.irr
        PROVE  (\A hp \in c.isr : ~InServiceBlocks(c, hp, ir)) <=> \A hp \in c.isr : ir < hp
    BY <1>1, <1>2
  <2>2. c.irr \ c.imr = c.irr /\ c.initialized
    BY DEF Open
  <2> QED BY <2>1, <2>2 DEF Requests
<1>4. ASSUME IntPending(c)
      PROVE  /\ Highest(c, Requests(c)) \in Requests(c)
             /\ \A j \in Requests(c) : Highest(c, Requests(c)) <= j
  <2> DEFINE R == Requests(c)
             h == Highest(c, R)
  <2>1. R \subseteq IR /\ R # {}
    BY <1>1, <1>4, RequestsType DEF IntPending
  <2> HIDE DEF R
  <2>2. h \in R /\ \A j \in R : Rank(c, h) <= Rank(c, j)
    BY <1>1, <2>1, HighestIsMember
  <2> HIDE DEF h
  <2>3. \A j \in R : Rank(c, j) = j
    BY <2>1, OpenRank
  <2> QED BY <2>2, <2>3 DEF h, R
<1> QED BY <1>3, <1>4

LEMMA OpenAck ==
  ASSUME NEW c, Open(c), NEW ir \in Requests(c)
  PROVE  LET e == AckIr(c, ir)
         IN  /\ Open(e) /\ SameRole(c, e) /\ e.pins = c.pins
             /\ e.irr = c.irr \ {ir}
             /\ e.isr = IF Spurious(c, ir) THEN c.isr ELSE c.isr \cup {ir}
<1> DEFINE e == AckIr(c, ir)
<1>1. Sound(c) /\ ~c.autoEoi /\ ir \in IR /\ ~IsLevel(c, ir)
  BY RequestsType DEF Open, IsLevel
<1>2. Acked(c, ir, e)
  BY <1>1, AckIrSound
<1>3. e.irr = c.irr \ {ir}
  BY <1>1 DEF AckIr, Sound, Chip
<1> HIDE DEF e
<1>4. /\ e.isr = IF Spurious(c, ir) THEN c.isr ELSE c.isr \cup {ir}
      /\ e.lowest = c.lowest /\ Sound(e)
      /\ e = [c EXCEPT !.irr = e.irr, !.isr = e.isr, !.lowest = e.lowest]
  BY <1>1, <1>2 DEF Acked
<1>5. /\ e.initialized = c.initialized /\ e.single = c.single
      /\ e.levelTriggered = c.levelTriggered /\ e.elcr = c.elcr
      /\ e.autoEoi = c.autoEoi /\ e.specialMask = c.specialMask
      /\ e.specialFullyNested = c.specialFullyNested /\ e.imr = c.imr
      /\ e.pins = c.pins /\ SameRole(c, e)
  BY <1>1, <1>4 DEF Sound, Chip, SameRole
<1>6. Open(e)
  BY <1>4, <1>5 DEF Open
<1> QED BY <1>3, <1>4, <1>5, <1>6 DEF e

LEMMA OpenEoi ==
  ASSUME NEW c, Open(c)
  PROVE  LET e == NonSpecificEoi(c, FALSE)
         IN  /\ Open(e) /\ SameRole(c, e)
             /\ e.pins = c.pins /\ e.irr = c.irr /\ e.isr \subseteq c.isr
<1> DEFINE e == NonSpecificEoi(c, FALSE)
           ir == Highest(c, c.isr)
<1>1. Sound(c) /\ ~c.specialMask
  BY DEF Open
<1>2. CASE c.isr = {}
  <2>1. e = c
    BY <1>1, <1>2, EoiEndsHighest
  <2> QED BY <2>1 DEF SameRole
<1>3. CASE c.isr # {}
  <2>1. ir \in c.isr /\ e = [c EXCEPT !.isr = c.isr \ {ir}]
    BY <1>1, <1>3, EoiEndsHighest
  <2> HIDE DEF e, ir
  <2>2. e \in Chip
    BY <1>1, <2>1 DEF Sound, Chip
  <2>3. /\ e.phase = c.phase /\ e.isr = c.isr \ {ir}
        /\ e.initialized = c.initialized /\ e.single = c.single
        /\ e.levelTriggered = c.levelTriggered /\ e.elcr = c.elcr
        /\ e.autoEoi = c.autoEoi /\ e.specialMask = c.specialMask
        /\ e.specialFullyNested = c.specialFullyNested
        /\ e.imr = c.imr /\ e.lowest = c.lowest
        /\ e.pins = c.pins /\ e.irr = c.irr /\ SameRole(c, e)
    BY <1>1, <2>1 DEF Sound, Chip, SameRole
  <2>4. \A i : IsLevel(e, i) <=> IsLevel(c, i)
    BY <2>3 DEF IsLevel
  <2>5. Sound(e)
    BY <1>1, <2>2, <2>3, <2>4 DEF Sound
  <2>6. Open(e)
    BY <2>3, <2>5 DEF Open
  <2> QED BY <2>3, <2>6 DEF e
<1> QED BY <1>2, <1>3

LEMMA SteeredShape ==
  ASSUME NEW b, Steered(b)
  PROVE  /\ b = [master |-> b.master, slave |-> b.slave]
         /\ \A m : [b EXCEPT !.master = m] = [master |-> m, slave |-> b.slave]
         /\ \A s : [b EXCEPT !.slave = s] = [master |-> b.master, slave |-> s]
         /\ CascadeActive(b)
<1>1. /\ b = [master |-> b.master, slave |-> b.slave]
      /\ \A m : [b EXCEPT !.master = m] = [master |-> m, slave |-> b.slave]
      /\ \A s : [b EXCEPT !.slave = s] = [master |-> b.master, slave |-> s]
  BY DEF Steered, Pair
<1>2. CascadeActive(b)
  BY DEF Steered, Open, CascadeActive
<1> QED BY <1>1, <1>2

LEMMA SteeredPair ==
  ASSUME NEW b, Steered(b), NEW m, Open(m), SameRole(b.master, m),
         m.irr \subseteq {0, Cascade},
         NEW s, Open(s), SameRole(b.slave, s), s.irr \subseteq {0},
         NEW d, d = [master |-> m, slave |-> s]
  PROVE  Steered(d) /\ d.master = m /\ d.slave = s
<1>1. d \in Pair /\ d.master = m /\ d.slave = s
  BY DEF Open, Sound, Pair
<1> QED BY <1>1 DEF Steered, SameRole

(* The slave asks when its timer's request is latched and not in service.   *)
LEMMA SlaveAsks ==
  ASSUME NEW s, Open(s), s.irr \subseteq {0}
  PROVE  /\ IntPending(s) <=> (0 \in s.irr /\ 0 \notin s.isr)
         /\ IntPending(s) => Requests(s) = {0} /\ Highest(s, Requests(s)) = 0
<1>1. s.isr \subseteq IR
  BY DEF Open, Sound, Chip
<1>2. \A hp \in s.isr : 0 < hp <=> hp # 0
  BY <1>1, PicAssumption DEF IR
<1>3. Requests(s) = {ir \in s.irr : \A hp \in s.isr : ir < hp}
  BY OpenRequests
<1>4. 0 \in s.irr /\ 0 \notin s.isr => Requests(s) = {0}
  BY <1>2, <1>3
<1>5. ~(0 \in s.irr /\ 0 \notin s.isr) => Requests(s) = {}
  BY <1>2, <1>3
<1>6. IntPending(s) <=> (0 \in s.irr /\ 0 \notin s.isr)
  BY <1>4, <1>5 DEF IntPending
<1>7. IntPending(s) => Highest(s, Requests(s)) \in Requests(s)
  BY OpenRequests
<1> QED BY <1>4, <1>6, <1>7

(* What a pair shows of the two timers.                                     *)
SameMaster(b, d) ==
  /\ d.master.isr = b.master.isr
  /\ (0 \in d.master.pins) <=> (0 \in b.master.pins)
  /\ (0 \in d.master.irr) <=> (0 \in b.master.irr)

LEMMA SyncSteered ==
  ASSUME NEW b, Steered(b),
         Cascade \in b.master.irr => IntPending(b.slave),
         Cascade \in b.master.pins /\ IntPending(b.slave) => Cascade \in b.master.irr
  PROVE  LET d == SyncCascade(b)
         IN  Steered(d) /\ Wired(d) /\ d.slave = b.slave /\ SameMaster(b, d)
<1> DEFINE high == IntPending(b.slave)
           m == SetLine(b.master, Cascade, high)
           d == SyncCascade(b)
<1>1. Open(b.master) /\ Open(b.slave) /\ b.slave.slaveId = Cascade
      /\ b.master.irr \subseteq {0, Cascade} /\ b.slave.irr \subseteq {0}
  BY DEF Steered
<1>2. d = [b EXCEPT !.master = m]
  BY <1>1, SteeredShape DEF SyncCascade
<1>3. high \in BOOLEAN
  BY DEF IntPending
<1>4. Cascade \in IR /\ Cascade # 0
  BY Lines
<1>5. /\ Open(m) /\ SameRole(b.master, m) /\ m.isr = b.master.isr
      /\ high => m.pins = b.master.pins \cup {Cascade}
      /\ ~high => m.pins = b.master.pins \ {Cascade}
      /\ high /\ Cascade \notin b.master.pins => m.irr = b.master.irr \cup {Cascade}
      /\ ~(high /\ Cascade \notin b.master.pins) => m.irr = b.master.irr
  BY <1>1, <1>3, <1>4, OpenLine
<1> HIDE DEF m, d
<1>6. d = [master |-> m, slave |-> b.slave]
  BY <1>2, SteeredShape
<1>7. m.irr \subseteq {0, Cascade}
  BY <1>1, <1>5
<1>8. SameRole(b.slave, b.slave)
  BY DEF SameRole
<1>9. Steered(d) /\ d.master = m /\ d.slave = b.slave
  BY <1>1, <1>5, <1>6, <1>7, <1>8, SteeredPair
<1>10. Wired(d)
  BY <1>5, <1>9 DEF Wired
<1>11. SameMaster(b, d)
  BY <1>4, <1>5, <1>9 DEF SameMaster
<1> QED BY <1>9, <1>10, <1>11 DEF d

(* The line of IRQ0.                                                        *)
LEMMA MasterDriven ==
  ASSUME NEW b, Steered(b), Wired(b), NEW high \in BOOLEAN
  PROVE  LET d == SetMasterLine(b, 0, high)
         IN  /\ Steered(d) /\ Wired(d) /\ d.slave = b.slave
             /\ d.master.isr = b.master.isr
             /\ (0 \in d.master.pins) <=> high
             /\ (0 \in d.master.irr) <=> (0 \in b.master.irr \/ (high /\ 0 \notin b.master.pins))
<1> DEFINE m == SetLine(b.master, 0, high)
           d == SetMasterLine(b, 0, high)
<1>1. Open(b.master) /\ Open(b.slave)
      /\ b.master.irr \subseteq {0, Cascade} /\ b.slave.irr \subseteq {0}
  BY DEF Steered
<1>2. d = [b EXCEPT !.master = m]
  BY DEF SetMasterLine
<1>3. 0 \in IR /\ Cascade # 0
  BY Lines
<1>4. /\ Open(m) /\ SameRole(b.master, m) /\ m.isr = b.master.isr
      /\ high => m.pins = b.master.pins \cup {0}
      /\ ~high => m.pins = b.master.pins \ {0}
      /\ high /\ 0 \notin b.master.pins => m.irr = b.master.irr \cup {0}
      /\ ~(high /\ 0 \notin b.master.pins) => m.irr = b.master.irr
  BY <1>1, <1>3, OpenLine
<1> HIDE DEF m, d
<1>5. d = [master |-> m, slave |-> b.slave]
  BY <1>2, SteeredShape
<1>6. m.irr \subseteq {0, Cascade}
  BY <1>1, <1>4
<1>7. SameRole(b.slave, b.slave)
  BY DEF SameRole
<1>8. Steered(d) /\ d.master = m /\ d.slave = b.slave
  BY <1>1, <1>4, <1>5, <1>6, <1>7, SteeredPair
<1>9. Wired(d)
  BY <1>3, <1>4, <1>8 DEF Wired
<1> QED BY <1>4, <1>8, <1>9 DEF d

(* The line of IRQ8.                                                        *)
LEMMA SlaveDriven ==
  ASSUME NEW b, Steered(b), Wired(b), NEW high \in BOOLEAN
  PROVE  LET d == SetSlaveLine(b, 0, high)
         IN  /\ Steered(d) /\ Wired(d) /\ SameMaster(b, d)
             /\ d.slave.isr = b.slave.isr
             /\ (0 \in d.slave.pins) <=> high
             /\ (0 \in d.slave.irr) <=> (0 \in b.slave.irr \/ (high /\ 0 \notin b.slave.pins))
<1> DEFINE s == SetLine(b.slave, 0, high)
           e == [b EXCEPT !.slave = s]
           d == SetSlaveLine(b, 0, high)
<1>1. Open(b.master) /\ Open(b.slave)
      /\ b.master.irr \subseteq {0, Cascade} /\ b.slave.irr \subseteq {0}
  BY DEF Steered
<1>2. d = SyncCascade(e)
  BY DEF SetSlaveLine
<1>3. 0 \in IR
  BY Lines
<1>4. /\ Open(s) /\ SameRole(b.slave, s) /\ s.isr = b.slave.isr
      /\ high => s.pins = b.slave.pins \cup {0}
      /\ ~high => s.pins = b.slave.pins \ {0}
      /\ high /\ 0 \notin b.slave.pins => s.irr = b.slave.irr \cup {0}
      /\ ~(high /\ 0 \notin b.slave.pins) => s.irr = b.slave.irr
  BY <1>1, <1>3, OpenLine
<1> HIDE DEF s, d
<1>5. e = [master |-> b.master, slave |-> s]
  BY SteeredShape
<1> HIDE DEF e
<1>6. s.irr \subseteq {0}
  BY <1>1, <1>4
<1>7. SameRole(b.master, b.master)
  BY DEF SameRole
<1>8. Steered(e) /\ e.master = b.master /\ e.slave = s
  BY <1>1, <1>4, <1>5, <1>6, <1>7, SteeredPair
<1>9. IntPending(b.slave) => IntPending(s)
  BY <1>1, <1>4, <1>6, SlaveAsks
<1>10. Steered(d) /\ Wired(d) /\ d.slave = s /\ SameMaster(e, d)
  BY <1>2, <1>8, <1>9, SyncSteered DEF Wired
<1>11. SameMaster(b, d)
  BY <1>8, <1>10 DEF SameMaster
<1> QED BY <1>4, <1>10, <1>11 DEF d

(* The end of an interrupt.                                                 *)
LEMMA EoiSteered ==
  ASSUME NEW b, Steered(b), Wired(b), NEW chip \in {"master", "slave"}
  PROVE  LET d == SyncCascade([b EXCEPT ![chip] = NonSpecificEoi(@, FALSE)])
         IN  /\ Steered(d) /\ Wired(d)
             /\ (0 \in d.master.irr) <=> (0 \in b.master.irr)
             /\ (0 \in d.slave.irr) <=> (0 \in b.slave.irr)
             /\ (0 \in d.slave.pins) <=> (0 \in b.slave.pins)
<1> DEFINE m == IF chip = "master" THEN NonSpecificEoi(b.master, FALSE) ELSE b.master
           s == IF chip = "slave" THEN NonSpecificEoi(b.slave, FALSE) ELSE b.slave
           e == [b EXCEPT ![chip] = NonSpecificEoi(@, FALSE)]
           d == SyncCascade(e)
<1>1. Open(b.master) /\ Open(b.slave)
      /\ b.master.irr \subseteq {0, Cascade} /\ b.slave.irr \subseteq {0}
  BY DEF Steered
<1>2. /\ Open(m) /\ SameRole(b.master, m) /\ m.pins = b.master.pins
      /\ m.irr = b.master.irr
  BY <1>1, OpenEoi DEF SameRole
<1>3. /\ Open(s) /\ SameRole(b.slave, s) /\ s.pins = b.slave.pins
      /\ s.irr = b.slave.irr /\ s.isr \subseteq b.slave.isr
  BY <1>1, OpenEoi DEF SameRole
<1>4. e = [master |-> m, slave |-> s]
  <2>1. CASE chip = "master"
    BY <2>1, SteeredShape
  <2>2. CASE chip = "slave"
    BY <2>2, SteeredShape
  <2> QED BY <2>1, <2>2
<1> HIDE DEF m, s, e
<1>5. Steered(e) /\ e.master = m /\ e.slave = s
  BY <1>1, <1>2, <1>3, <1>4, SteeredPair
<1>6. IntPending(b.slave) => IntPending(s)
  BY <1>1, <1>3, SlaveAsks
<1>7. Cascade \in m.irr => IntPending(s)
  BY <1>2, <1>6 DEF Wired
<1>8. Cascade \in m.pins => Cascade \in m.irr
  BY <1>2 DEF Wired
<1>9. Steered(d) /\ Wired(d) /\ d.slave = e.slave /\ SameMaster(e, d)
  BY <1>5, <1>7, <1>8, SyncSteered
<1> QED BY <1>2, <1>3, <1>5, <1>9 DEF SameMaster, d, e

(* An acknowledge: IRQ0 before IRQ8, each once, and a request whose line    *)
(* went down as the lowest line.                                            *)
Served(b, e, v) ==
  /\ Steered(e) /\ Wired(e) /\ v \in Vectors
  /\ (0 \in e.master.pins) <=> (0 \in b.master.pins)
  /\ (0 \in e.slave.pins) <=> (0 \in b.slave.pins)
  /\ v.chip = "master" <=> (0 \in b.master.irr /\ 0 \notin b.master.isr)
  /\ (0 \in e.master.irr) <=> (0 \in b.master.irr /\ v.chip # "master")
  /\ (0 \in e.slave.irr) <=> (0 \in b.slave.irr /\ v.chip # "slave")
  /\ v = Irq0 <=> (v.chip = "master" /\ 0 \in b.master.pins)
  /\ v.chip = "slave" => 0 \in b.slave.irr
  /\ v = Irq8 <=> (v.chip = "slave" /\ 0 \in b.slave.pins)
  /\ /\ 0 \in b.slave.irr /\ b.slave.isr = {} /\ b.master.isr = {}
     /\ v.chip # "master"
     => v.chip = "slave"

LEMMA AckLines ==
  ASSUME NEW c, NEW chip \in {"master", "slave"}, ~CascadeInput(c, 0)
  PROVE  /\ [chip |-> chip, line |-> AckLine(c, 0)] \in Vectors
         /\ [chip |-> chip, line |-> AckLine(c, 0)] = [chip |-> chip, line |-> 0]
              <=> 0 \in c.pins
<1>1. DefaultIR \in IR /\ DefaultIR # 0 /\ 0 \in IR
  BY Lines, PicAssumption DEF DefaultIR, IR
<1>2. AckLine(c, 0) = IF 0 \in c.pins THEN 0 ELSE DefaultIR
  BY DEF AckLine, Spurious
<1> QED BY <1>1, <1>2 DEF Vectors

LEMMA AckServes ==
  ASSUME NEW b, Steered(b), Wired(b)
  PROVE  Served(b, Acknowledge(b), AckVector(b))
<1> DEFINE m == b.master
           s == b.slave
           e == Acknowledge(b)
           v == AckVector(b)
           h == Highest(m, Requests(m))
           First == 0 \in m.irr /\ 0 \notin m.isr
<1>1. /\ Open(m) /\ Open(s) /\ m.irr \subseteq {0, Cascade} /\ s.irr \subseteq {0}
      /\ m.isMaster /\ ~s.isMaster /\ m.slaveMask = {Cascade}
      /\ ~m.single /\ s.initialized
  BY DEF Steered, Open
<1>2. 0 \in IR /\ Cascade \in IR /\ Cascade # 0
  BY Lines
<1>3. SyncCascade(b) = b
  <2>1. b \in Pair /\ Sound(b.master)
    BY DEF Steered, Open
  <2>2. b.slave.slaveId \in b.master.pins <=> IntPending(b.slave)
    BY DEF Steered, Wired
  <2> QED BY <2>1, <2>2, SyncIdle
<1>4. e = AckSynced(b) /\ v = AckVectorSynced(b)
  BY <1>3 DEF Acknowledge, AckVector
<1>5. /\ Requests(m) = {ir \in m.irr : \A hp \in m.isr : ir < hp}
      /\ IntPending(m) => h \in Requests(m) /\ \A j \in Requests(m) : h <= j
  BY <1>1, OpenRequests
<1>6. m.isr \subseteq IR
  BY <1>1 DEF Open, Sound, Chip
<1>7. \A hp \in m.isr : 0 < hp <=> hp # 0
  BY <1>6, PicAssumption DEF IR
<1>8. ~CascadeInput(m, 0) /\ CascadeInput(m, Cascade) /\ ~CascadeInput(s, 0)
  BY <1>1, <1>2 DEF CascadeInput
<1>9. SameRole(m, m) /\ SameRole(s, s)
  BY DEF SameRole
<1> SUFFICES Served(b, e, v)
  OBVIOUS
<1> HIDE DEF e, v, h
<1>10. CASE First
  <2>1. 0 \in Requests(m)
    BY <1>5, <1>7, <1>10
  <2>2. IntPending(m)
    BY <2>1 DEF IntPending
  <2>3. h = 0
    <3>1. h \in m.irr /\ h <= 0
      BY <1>5, <2>1, <2>2
    <3> QED BY <1>1, <3>1 DEF Cascade
  <2> DEFINE n == AckIr(m, 0)
  <2>4. e = [b EXCEPT !.master = n] /\ v = [chip |-> "master", line |-> AckLine(m, 0)]
    BY <1>4, <1>8, <2>2, <2>3 DEF AckSynced, AckVectorSynced, h
  <2>5. /\ Open(n) /\ SameRole(m, n) /\ n.pins = m.pins /\ n.irr = m.irr \ {0}
    BY <1>1, <2>1, OpenAck
  <2> HIDE DEF n
  <2>6. e = [master |-> n, slave |-> s]
    BY <2>4, SteeredShape
  <2>7. Steered(e) /\ e.master = n /\ e.slave = s
    BY <1>1, <1>9, <2>5, <2>6, SteeredPair
  <2>8. Wired(e)
    BY <1>2, <2>5, <2>7 DEF Wired
  <2>9. v \in Vectors /\ (v = Irq0 <=> 0 \in m.pins) /\ v.chip = "master" /\ v # Irq8
    BY <1>8, <2>4, AckLines DEF Irq0, Irq8
  <2>10. /\ (0 \in e.master.pins) <=> (0 \in m.pins)
         /\ 0 \notin e.master.irr
         /\ e.slave.pins = s.pins /\ e.slave.irr = s.irr
    BY <2>5, <2>7
  <2>11. v.chip # "slave"
    BY <2>9
  <2> QED BY <1>10, <2>7, <2>8, <2>9, <2>10, <2>11, Zenon DEF Served, m, s
<1>11. CASE ~First /\ IntPending(m)
  <2>1. h \in Requests(m)
    BY <1>5, <1>11
  <2>2. h = Cascade /\ 0 \notin m.irr
    <3>1. h \in m.irr /\ \A hp \in m.isr : h < hp
      BY <1>5, <2>1
    <3>2. 0 \notin m.irr
      <4> SUFFICES ASSUME 0 \in m.irr
                   PROVE  FALSE
        OBVIOUS
      <4>1. 0 \in m.isr
        BY <1>11
      <4> QED BY <1>1, <3>1, <4>1 DEF Cascade
    <3> QED BY <1>1, <3>1, <3>2
  <2>3. IntPending(s)
    BY <1>5, <2>1, <2>2 DEF Wired
  <2>4. /\ 0 \in s.irr /\ 0 \notin s.isr
        /\ Requests(s) = {0} /\ Highest(s, Requests(s)) = 0
    BY <1>1, <2>3, SlaveAsks
  <2> DEFINE n == AckIr(m, Cascade)
             t == AckIr(s, 0)
             c == [master |-> n, slave |-> t]
  <2>5. SlaveAck(s) = t /\ SlaveAckLine(s) = AckLine(s, 0)
    BY <2>3, <2>4 DEF SlaveAck, SlaveAckLine
  <2>6. e = SyncCascade(c) /\ v = [chip |-> "slave", line |-> AckLine(s, 0)]
    BY <1>1, <1>4, <1>8, <1>11, <2>2, <2>5 DEF AckSynced, AckVectorSynced, h
  <2>7. Open(n) /\ SameRole(m, n) /\ n.pins = m.pins /\ n.irr = m.irr \ {Cascade}
    BY <1>1, <2>1, <2>2, OpenAck
  <2>8. Open(t) /\ SameRole(s, t) /\ t.pins = s.pins /\ t.irr = s.irr \ {0}
    <3>1. Open(s) /\ 0 \in Requests(s)
      BY <1>1, <2>4
    <3> QED BY <3>1, OpenAck, Zenon
  <2> HIDE DEF n, t
  <2>9. Steered(c) /\ c.master = n /\ c.slave = t
    BY <1>1, <2>7, <2>8, SteeredPair
  <2>10. ~IntPending(t)
    BY <1>1, <2>8, SlaveAsks
  <2>11. Cascade \notin n.irr
    BY <2>7
  <2> HIDE DEF c
  <2>12. Steered(e) /\ Wired(e) /\ e.slave = t /\ SameMaster(c, e)
    BY <2>6, <2>9, <2>10, <2>11, SyncSteered
  <2>13. /\ (0 \in e.master.pins) <=> (0 \in m.pins)
         /\ (0 \in e.master.irr) <=> (0 \in m.irr)
    BY <1>2, <2>7, <2>9, <2>12 DEF SameMaster
  <2>14. v \in Vectors /\ (v = Irq8 <=> 0 \in s.pins) /\ v.chip = "slave" /\ v # Irq0
    BY <1>8, <2>6, AckLines DEF Irq0, Irq8
  <2>15. /\ (0 \in e.slave.pins) <=> (0 \in s.pins)
         /\ 0 \notin e.slave.irr /\ 0 \in s.irr
    BY <2>4, <2>8, <2>12
  <2>16. v.chip # "master" /\ 0 \notin m.irr
    BY <2>2, <2>14
  <2> QED BY <2>12, <2>13, <2>14, <2>15, <2>16, Zenon DEF Served, m, s
<1>12. CASE ~First /\ ~IntPending(m)
  <2>1. e = b /\ v = NoVector
    BY <1>4, <1>12 DEF AckSynced, AckVectorSynced
  <2>2. v \in Vectors /\ v.chip = "none" /\ v # Irq0 /\ v # Irq8
    BY <2>1 DEF NoVector, Vectors, Irq0, Irq8
  <2>3. ~(0 \in s.irr /\ s.isr = {} /\ m.isr = {})
    <3> SUFFICES ASSUME 0 \in s.irr, s.isr = {}, m.isr = {}
                 PROVE  FALSE
      OBVIOUS
    <3>1. IntPending(s)
      BY <1>1, SlaveAsks
    <3>2. Cascade \in m.irr
      BY <3>1 DEF Wired
    <3> QED BY <1>5, <1>12, <3>2 DEF IntPending
  <2>4. v.chip # "master" /\ v.chip # "slave"
    BY <2>2
  <2>5. ~(0 \in m.irr /\ 0 \notin m.isr)
    BY <1>5, <1>7, <1>12 DEF IntPending
  <2>6. Steered(e) /\ Wired(e)
    BY <2>1
  <2>7. /\ e.master.pins = m.pins /\ e.master.irr = m.irr
        /\ e.slave.pins = s.pins /\ e.slave.irr = s.irr
    BY <2>1
  <2> QED BY <2>2, <2>3, <2>4, <2>5, <2>6, <2>7, Zenon DEF Served, m, s
<1> QED BY <1>10, <1>11, <1>12

----------------------------------------------------------------------------
(* The interrupts the history counts are the latched requests of the chips. *)

IrqHistory == [vector : Vectors, edge0 : BOOLEAN, edge8 : BOOLEAN]

Counted(d, r, q) ==
  /\ Steered(d) /\ Wired(d) /\ Signals(r) /\ q \in IrqHistory
  /\ q.edge0 <=> 0 \in d.master.irr
  /\ q.edge8 <=> 0 \in d.slave.irr
  /\ r.irqf <=> 0 \in d.slave.pins

LEMMA PowerCounts ==
  ASSUME guest \in Guest
  PROVE  Counted(PowerOn.pic, PowerOn.rtc, NoIrq)
<1> DEFINE m == Programmed(ResetRole(TRUE), Cascade)
           q == Programmed(ResetRole(FALSE), Cascade)
           s == [q EXCEPT !.slaveId = Cascade]
           d == [master |-> m, slave |-> s]
           r == [ResetRtc EXCEPT !.binary = guest.binary]
<1>1. 0 \in IR /\ Cascade \in IR
  BY Lines
<1>2. /\ Open(m) /\ m.isMaster /\ m.slaveMask = {Cascade}
      /\ m.irr = {} /\ m.pins = {} /\ m.isr = {}
  BY <1>1, ProgrammedFresh DEF Open
<1>3. /\ Open(q) /\ ~q.isMaster /\ q.slaveId = Cascade
      /\ q.irr = {} /\ q.pins = {} /\ q.isr = {}
  BY <1>1, ProgrammedFresh DEF Open
<1> HIDE DEF m, q
<1>4. s = q
  BY <1>3 DEF Open, Sound, Chip
<1> HIDE DEF s
<1>5. PowerOn.pic = d
  BY DEF PowerOn, d, m, s, q
<1>6. Steered(d) /\ d.master = m /\ d.slave = q
  <2>1. d \in Pair
    BY <1>2, <1>3, <1>4 DEF Open, Sound, Pair
  <2>2. d.master = m /\ d.slave = q
    BY <1>4
  <2> HIDE DEF d
  <2> QED BY <1>2, <1>3, <2>1, <2>2 DEF Steered
<1>7. ~IntPending(q)
  BY <1>3 DEF IntPending, Requests
<1>8. Wired(d)
  BY <1>2, <1>6, <1>7 DEF Wired
<1>9. Signals(PowerOn.rtc) /\ ~PowerOn.rtc.irqf
  <2>1. ResetRtc \in Rtc
    BY DEF ResetRtc, Rtc, CmosByte, UipWindow
  <2>2. guest.binary \in BOOLEAN
    BY DEF Guest
  <2>3. r \in Rtc
    BY <2>1, <2>2, ZenonT(60) DEF Rtc
  <2>4. r.flags = {} /\ ~r.irqf
    BY DEF ResetRtc
  <2>5. PowerOn.rtc = r
    BY DEF PowerOn
  <2> HIDE DEF r
  <2> QED BY <2>3, <2>4, <2>5 DEF Signals, Rtc
<1>10. NoIrq \in IrqHistory /\ ~NoIrq.edge0 /\ ~NoIrq.edge8
  BY DEF NoIrq, IrqHistory, Vectors
<1> HIDE DEF d
<1> QED BY <1>2, <1>3, <1>5, <1>6, <1>8, <1>9, <1>10 DEF Counted

(* The lines as a tick leaves them.                                         *)
LEMMA Irq0Driven ==
  ASSUME NEW d, Steered(d), Wired(d), NEW t \in TickState, NEW n \in Nat,
         n = 0 => ~t.rising
  PROVE  LET e == PitTicked(d, t, n)
         IN  /\ Steered(e) /\ Wired(e) /\ e.slave = d.slave
             /\ (0 \in e.master.irr) <=>
                  \/ 0 \in d.master.irr \/ t.rising
                  \/ 0 \notin d.master.pins /\ 0 \in e.master.pins
<1> DEFINE out == t.pit.ch[0].out
           low == SetMasterLine(d, 0, FALSE)
           up == SetMasterLine(low, 0, TRUE)
           e == PitTicked(d, t, n)
<1>1. out \in BOOLEAN /\ t.rising \in BOOLEAN
  <2>1. t.pit \in Pit /\ t.rising \in BOOLEAN
    BY DEF TickState
  <2>2. t.pit.ch[0] \in PitChannel
    BY <2>1, ChannelTyped
  <2> QED BY <2>1, <2>2 DEF PitChannel
<1> HIDE DEF out
<1>2. CASE n = 0
  BY <1>2 DEF PitTicked
<1>3. CASE n # 0 /\ t.rising
  <2>1. e = up
    <3>1. n > 0
      BY <1>3
    <3> QED BY <1>3, <3>1, Zenon DEF PitTicked, DriveIrq0
  <2>2. /\ Steered(low) /\ Wired(low) /\ low.slave = d.slave /\ 0 \notin low.master.pins
    BY MasterDriven
  <2> HIDE DEF low
  <2>3. /\ Steered(up) /\ Wired(up) /\ up.slave = low.slave
        /\ 0 \in up.master.pins /\ 0 \in up.master.irr
    BY <2>2, MasterDriven
  <2> HIDE DEF up
  <2> QED BY <1>3, <2>1, <2>2, <2>3
<1>4. CASE n # 0 /\ ~t.rising
  <2>1. e = SetMasterLine(d, 0, out)
    <3>1. n > 0
      BY <1>4
    <3> QED BY <1>4, <3>1, Zenon DEF PitTicked, DriveIrq0, out
  <2> HIDE DEF e
  <2>2. /\ Steered(e) /\ Wired(e) /\ e.slave = d.slave
        /\ (0 \in e.master.pins) <=> out
        /\ (0 \in e.master.irr) <=> (0 \in d.master.irr \/ (out /\ 0 \notin d.master.pins))
    BY <1>1, <2>1, MasterDriven
  <2> QED BY <1>4, <2>2 DEF e
<1> QED BY <1>2, <1>3, <1>4

LEMMA Irq8Driven ==
  ASSUME NEW d, Steered(d), Wired(d), NEW called \in BOOLEAN,
         NEW before, Signals(before), NEW after, Signals(after),
         before.irqf => after.irqf, ~called => after = before,
         before.irqf <=> 0 \in d.slave.pins
  PROVE  LET e == DriveIrq8(d, called, before, after)
         IN  /\ Steered(e) /\ Wired(e) /\ SameMaster(d, e)
             /\ after.irqf <=> 0 \in e.slave.pins
             /\ (0 \in e.slave.irr) <=> (0 \in d.slave.irr \/ (~before.irqf /\ after.irqf))
<1> DEFINE low == SetSlaveLine(d, 0, FALSE)
           up == SetSlaveLine(low, 0, TRUE)
           e == DriveIrq8(d, called, before, after)
<1>1. before.irqf \in BOOLEAN /\ after.irqf \in BOOLEAN
  BY DEF Signals
<1>2. CASE ~called
  BY <1>2 DEF DriveIrq8, SameMaster
<1>3. CASE called /\ after.irqf /\ ~before.irqf
  <2>1. e = up
    BY <1>3 DEF DriveIrq8
  <2>2. Steered(low) /\ Wired(low) /\ SameMaster(d, low) /\ 0 \notin low.slave.pins
    BY SlaveDriven
  <2> HIDE DEF low
  <2>3. /\ Steered(up) /\ Wired(up) /\ SameMaster(low, up)
        /\ 0 \in up.slave.pins /\ 0 \in up.slave.irr
    BY <2>2, SlaveDriven
  <2> HIDE DEF up
  <2>4. SameMaster(d, up)
    BY <2>2, <2>3 DEF SameMaster
  <2> QED BY <1>3, <2>1, <2>3, <2>4
<1>4. CASE called /\ ~(after.irqf /\ ~before.irqf)
  <2>1. e = SetSlaveLine(d, 0, after.irqf)
    BY <1>4 DEF DriveIrq8
  <2> HIDE DEF e
  <2>2. /\ Steered(e) /\ Wired(e) /\ SameMaster(d, e)
        /\ (0 \in e.slave.pins) <=> after.irqf
        /\ (0 \in e.slave.irr) <=>
             (0 \in d.slave.irr \/ (after.irqf /\ 0 \notin d.slave.pins))
    BY <1>1, <2>1, SlaveDriven
  <2> QED BY <1>4, <2>2 DEF e
<1> QED BY <1>2, <1>3, <1>4

(* A tick of the machine.                                                   *)
LEMMA AdvanceCounts ==
  ASSUME guest \in Guest, NEW p \in Pit, NEW m \in Meter, NEW r, NEW d, NEW seen,
         Counted(d, r, seen), NEW n \in Nat, NEW periods \in Nat, NEW seconds \in Nat,
         Advance(p, r, d, m, seen, n, periods, seconds)
  PROVE  Counted(pic', rtc', irq') /\ irq'.vector = seen.vector
<1> DEFINE t == Ticked(p, m, n)
           r1 == Passed(r, periods)
           r2 == Updated(r1, seconds)
           d0 == PitTicked(d, t, n)
           d1 == DriveIrq8(d0, periods > 0, r, r1)
           d2 == DriveIrq8(d1, seconds > 0, r1, r2)
           edge0 == \/ seen.edge0 \/ t.rising
                    \/ 0 \notin d.master.pins /\ 0 \in d2.master.pins
           edge8 == seen.edge8 \/ (~r.irqf /\ r2.irqf)
<1>1. rtc' = r2 /\ pic' = d2 /\ irq' = [seen EXCEPT !.edge0 = edge0, !.edge8 = edge8]
  BY DEF Advance, AdvanceClock, Advanced
<1>2. t \in TickState /\ (n = 0 => ~t.rising)
  <2>1. Ticked(p, m, 0).rising = FALSE
    BY NotTicked
  <2> QED BY <2>1, TickedTyped
<1> HIDE DEF t
<1>3. Steered(d) /\ Wired(d) /\ Signals(r) /\ (r.irqf <=> 0 \in d.slave.pins)
  BY DEF Counted
<1>4. Signals(r1) /\ (r.irqf => r1.irqf) /\ (~(periods > 0) => r1 = r)
  BY <1>3, TickSignals DEF Passed
<1> HIDE DEF r1
<1>5. Signals(r2) /\ (r1.irqf => r2.irqf) /\ (~(seconds > 0) => r2 = r1)
  BY <1>4, TickSignals DEF Updated
<1> HIDE DEF r2
<1>6. /\ Steered(d0) /\ Wired(d0) /\ d0.slave = d.slave
      /\ (0 \in d0.master.irr) <=>
           \/ 0 \in d.master.irr \/ t.rising
           \/ 0 \notin d.master.pins /\ 0 \in d0.master.pins
  BY <1>2, <1>3, Irq0Driven
<1> HIDE DEF d0
<1>7. (periods > 0) \in BOOLEAN /\ (seconds > 0) \in BOOLEAN
  OBVIOUS
<1>8. r.irqf <=> 0 \in d0.slave.pins
  BY <1>3, <1>6
<1>9. /\ Steered(d1) /\ Wired(d1) /\ SameMaster(d0, d1)
      /\ r1.irqf <=> 0 \in d1.slave.pins
      /\ (0 \in d1.slave.irr) <=> (0 \in d0.slave.irr \/ (~r.irqf /\ r1.irqf))
  BY <1>3, <1>4, <1>6, <1>7, <1>8, Irq8Driven
<1> HIDE DEF d1
<1>10. /\ Steered(d2) /\ Wired(d2) /\ SameMaster(d1, d2)
       /\ r2.irqf <=> 0 \in d2.slave.pins
       /\ (0 \in d2.slave.irr) <=> (0 \in d1.slave.irr \/ (~r1.irqf /\ r2.irqf))
  BY <1>4, <1>5, <1>7, <1>9, Irq8Driven, ZenonT(60)
<1> HIDE DEF d2
<1>11. /\ (0 \in d2.master.pins) <=> (0 \in d0.master.pins)
       /\ (0 \in d2.master.irr) <=> (0 \in d0.master.irr)
  BY <1>9, <1>10 DEF SameMaster
<1>12. edge0 <=> 0 \in d2.master.irr
  BY <1>6, <1>11 DEF Counted
<1>13. edge8 <=> 0 \in d2.slave.irr
  BY <1>4, <1>5, <1>6, <1>9, <1>10 DEF Counted
<1>14. seen \in IrqHistory
  BY DEF Counted
<1>15. edge0 \in BOOLEAN /\ edge8 \in BOOLEAN
  <2>1. seen.edge0 \in BOOLEAN /\ seen.edge8 \in BOOLEAN
    BY <1>14 DEF IrqHistory
  <2>2. t.rising \in BOOLEAN
    BY <1>2 DEF TickState
  <2> QED BY <2>1, <2>2
<1> HIDE DEF edge0, edge8
<1>16. /\ irq' \in IrqHistory /\ irq'.vector = seen.vector
       /\ irq'.edge0 = edge0 /\ irq'.edge8 = edge8
  BY <1>1, <1>14, <1>15 DEF IrqHistory
<1> QED BY <1>1, <1>5, <1>10, <1>12, <1>13, <1>16 DEF Counted

(* What a step of the machine samples, and what its poll serves.            *)
LEMMA SampledCounts ==
  ASSUME Counted(pic, rtc, irq), pit \in Pit
  PROVE  /\ Steered(Sampled) /\ Wired(Sampled)
         /\ Sampled.master.isr = pic.master.isr /\ Sampled.slave.isr = pic.slave.isr
         /\ pit.ch[0].out <=> 0 \in Sampled.master.pins
         /\ rtc.irqf <=> 0 \in Sampled.slave.pins
         /\ EdgeSampled <=> 0 \in Sampled.master.irr
         /\ irq.edge8 <=> 0 \in Sampled.slave.irr
<1> DEFINE out == pit.ch[0].out
           d == SetMasterLine(pic, 0, out)
           e == SetSlaveLine(d, 0, rtc.irqf)
<1>1. out \in BOOLEAN
  <2>1. pit.ch[0] \in PitChannel
    BY ChannelTyped
  <2> QED BY <2>1 DEF PitChannel
<1>2. Steered(pic) /\ Wired(pic) /\ rtc.irqf \in BOOLEAN
  BY DEF Counted, Signals
<1>3. Sampled = e /\ (EdgeSampled <=> irq.edge0 \/ (out /\ 0 \notin pic.master.pins))
  BY DEF Sampled, EdgeSampled
<1> HIDE DEF out
<1>4. /\ Steered(d) /\ Wired(d) /\ d.slave = pic.slave
      /\ d.master.isr = pic.master.isr
      /\ (0 \in d.master.pins) <=> out
      /\ (0 \in d.master.irr) <=> (0 \in pic.master.irr \/ (out /\ 0 \notin pic.master.pins))
  BY <1>1, <1>2, MasterDriven
<1> HIDE DEF d
<1>5. /\ Steered(e) /\ Wired(e) /\ SameMaster(d, e)
      /\ e.slave.isr = d.slave.isr
      /\ (0 \in e.slave.pins) <=> rtc.irqf
      /\ (0 \in e.slave.irr) <=> (0 \in d.slave.irr \/ (rtc.irqf /\ 0 \notin d.slave.pins))
  BY <1>2, <1>4, SlaveDriven
<1> HIDE DEF e
<1>6. /\ irq.edge0 <=> 0 \in pic.master.irr
      /\ irq.edge8 <=> 0 \in pic.slave.irr
      /\ rtc.irqf <=> 0 \in pic.slave.pins
  BY DEF Counted
<1>7. e.master.isr = pic.master.isr /\ e.slave.isr = pic.slave.isr
  BY <1>4, <1>5 DEF SameMaster
<1>8. EdgeSampled <=> 0 \in e.master.irr
  BY <1>3, <1>4, <1>5, <1>6 DEF SameMaster
<1>9. pit.ch[0].out <=> 0 \in e.master.pins
  BY <1>4, <1>5 DEF SameMaster, out
<1>10. irq.edge8 <=> 0 \in e.slave.irr
  BY <1>4, <1>5, <1>6
<1> QED BY <1>3, <1>5, <1>7, <1>8, <1>9, <1>10

(* An instruction leaves the clock alone, ends an interrupt or not, or      *)
(* leaves IRQ8 to follow the clock.                                         *)
Ended(d) ==
  \E chip \in {"master", "slave"} :
    d = SyncCascade([Polled EXCEPT ![chip] = NonSpecificEoi(@, FALSE)])

RtcPart(r, d) ==
  \/ r = rtc /\ (d = Polled \/ Ended(d))
  \/ Signals(r) /\ d = SetSlaveLine(Polled, 0, r.irqf)

Seen(r) ==
  LET v == AckVector(Sampled)
  IN  [vector |-> v,
       edge0 |-> EdgeSampled /\ v.chip # "master",
       edge8 |-> (irq.edge8 /\ v.chip # "slave") \/ (~rtc.irqf /\ r.irqf)]

LEMMA InstructionCounts ==
  ASSUME Counted(pic, rtc, irq), pit \in Pit, NEW r, NEW d, RtcPart(r, d)
  PROVE  Counted(d, r, Seen(r))
<1> DEFINE v == AckVector(Sampled)
           edge0 == EdgeSampled /\ v.chip # "master"
           edge8 == (irq.edge8 /\ v.chip # "slave") \/ (~rtc.irqf /\ r.irqf)
           q == [vector |-> v, edge0 |-> edge0, edge8 |-> edge8]
           e == Polled
<1>1. Served(Sampled, e, v)
  BY SampledCounts, AckServes DEF Polled
<1>2. Seen(r) = q
  BY DEF Seen
<1>3. /\ Steered(e) /\ Wired(e) /\ v \in Vectors
      /\ (0 \in e.slave.pins) <=> (0 \in Sampled.slave.pins)
      /\ (0 \in e.master.irr) <=> (0 \in Sampled.master.irr /\ v.chip # "master")
      /\ (0 \in e.slave.irr) <=> (0 \in Sampled.slave.irr /\ v.chip # "slave")
  BY <1>1 DEF Served
<1>4. Signals(rtc) /\ irq \in IrqHistory
  BY DEF Counted
<1> HIDE DEF v, e
<1>5. /\ (0 \in e.slave.pins) <=> rtc.irqf
      /\ (0 \in e.master.irr) <=> edge0
      /\ (0 \in e.slave.irr) <=> (irq.edge8 /\ v.chip # "slave")
  BY <1>3, SampledCounts
<1>6. CASE r = rtc /\ (d = e \/ Ended(d))
  <2>1. /\ Steered(d) /\ Wired(d)
        /\ (0 \in d.master.irr) <=> (0 \in e.master.irr)
        /\ (0 \in d.slave.irr) <=> (0 \in e.slave.irr)
        /\ (0 \in d.slave.pins) <=> (0 \in e.slave.pins)
    <3>1. CASE d = e
      BY <1>3, <3>1
    <3>2. CASE Ended(d)
      <4>1. PICK chip \in {"master", "slave"} :
              d = SyncCascade([e EXCEPT ![chip] = NonSpecificEoi(@, FALSE)])
        BY <3>2 DEF Ended, e
      <4> QED BY <1>3, <4>1, EoiSteered
    <3> QED BY <1>6, <3>1, <3>2
  <2>2. Signals(r) /\ r.irqf = rtc.irqf
    BY <1>4, <1>6
  <2>3. (irq.edge8 /\ v.chip # "slave") <=> edge8
    BY <2>2
  <2>4. q \in IrqHistory
    BY <1>3, <1>4, <1>5, <2>3 DEF IrqHistory, EdgeSampled
  <2> HIDE DEF edge0, edge8
  <2>5. q.edge0 = edge0 /\ q.edge8 = edge8
    OBVIOUS
  <2> HIDE DEF q
  <2> QED BY <1>2, <1>5, <2>1, <2>2, <2>3, <2>4, <2>5 DEF Counted
<1>7. CASE Signals(r) /\ d = SetSlaveLine(e, 0, r.irqf)
  <2>1. r.irqf \in BOOLEAN
    BY <1>7 DEF Signals
  <2>2. /\ Steered(d) /\ Wired(d) /\ SameMaster(e, d)
        /\ (0 \in d.slave.pins) <=> r.irqf
        /\ (0 \in d.slave.irr) <=> (0 \in e.slave.irr \/ (r.irqf /\ 0 \notin e.slave.pins))
    BY <1>3, <1>7, <2>1, SlaveDriven
  <2>3. /\ (0 \in d.master.irr) <=> edge0
        /\ (0 \in d.slave.irr) <=> edge8
    BY <1>5, <2>2 DEF SameMaster
  <2>4. q \in IrqHistory
    BY <1>3, <2>1 DEF IrqHistory
  <2> HIDE DEF edge0, edge8
  <2>5. q.edge0 = edge0 /\ q.edge8 = edge8
    OBVIOUS
  <2> HIDE DEF q
  <2> QED BY <1>2, <1>7, <2>2, <2>3, <2>4, <2>5 DEF Counted
<1> QED BY <1>6, <1>7 DEF RtcPart, e

----------------------------------------------------------------------------
(* The parts of a step: what the instruction does to the PIT and to the     *)
(* clock and their histories, and to the HPET and its own, before the       *)
(* clocks are charged.                                                      *)

DataMeter(ch) ==
  IF ch.loaded /\ ~Triggered(ch.mode) THEN MeterArmed(ch)
  ELSE IF Triggered(ch.mode) /\ ~Channel.pending THEN meter ELSE NoMeter

GateMeter(ch) ==
  IF ch.gate /\ ~Channel.gate /\ ch.loaded /\ ch.mode \notin {0, 4} THEN MeterArmed(ch)
  ELSE IF ~ch.gate /\ Periodic(ch.mode) THEN NoMeter ELSE meter

Untouched(p, m, rd) == p = pit /\ m = meter /\ rd = reading

Controlled(p, m, rd) ==
  \E mode \in guest.modes, access \in guest.accesses :
    /\ p = WithChannel(ApplyControl(Channel, mode, access))
    /\ m = NoMeter /\ rd = NoReading

Written(p, m, rd) ==
  \E n \in guest.counts :
    LET ch == WriteData(Channel, DataByte(Channel, n))
    IN  p = WithChannel(ch) /\ m = DataMeter(ch) /\ rd = reading

Latches(p, m, rd) ==
  /\ p = WithChannel(LatchCount(Channel)) /\ m = meter
  /\ rd = ReadingLatched(reading, Channel)

ReadsBack(p, m, rd) ==
  \E parts \in SUBSET {"count", "status"} :
    /\ p = ReadBackPit(pit, {guest.channel}, parts) /\ m = meter
    /\ rd = IF "count" \in parts THEN ReadingLatched(reading, Channel) ELSE reading

Reads(p, m, rd) ==
  /\ p = WithChannel(ReadData(Channel)) /\ m = meter
  /\ rd = ReadingRead(reading, Channel)

Gated(p, m, rd) ==
  \E bits \in {{}, {"gate2"}, {"iochkEn", "parityEn"}},
     clears \in {{}, {"iochk", "parity"}} :
    /\ p = Port61Write(pit, bits, clears)
    /\ m = GateMeter(p.ch[guest.channel]) /\ rd = reading

PitPart(p, m, rd) ==
  \/ Untouched(p, m, rd) \/ Controlled(p, m, rd) \/ Written(p, m, rd)
  \/ Latches(p, m, rd) \/ ReadsBack(p, m, rd) \/ Reads(p, m, rd) \/ Gated(p, m, rd)

Stored(h, u) ==
  \/ \E on \in BOOLEAN : h = [hpet EXCEPT !.enable = on] /\ u = due
  \/ \E c \in HpetConfigs :
       /\ h = StoreT0Config(hpet, c.level, c.intEnb, c.periodic, c.valSet)
       /\ u = IF c.level = hpet.level /\ c.periodic = hpet.periodic THEN due ELSE NotDue
  \/ \E v \in HpetStores : h = StoreComparator(hpet, v) /\ u = DueFrom(due, hpet, v)
  \/ \E v \in HpetStores : h = StoreCounter(hpet, v) /\ u = NotDue
  \/ h = ClearStatus(hpet) /\ u = [due EXCEPT !.rung = FALSE]

HpetPart(h, u) ==
  \/ h = hpet /\ u = due
  \/ "hpet" \in guest.does /\ Stored(h, u)

Orders == {"none", "set", "date", "alarm", "read"}

Parts(p, r, d, m, rd, ord, h, u) ==
  /\ PitPart(p, m, rd) /\ RtcPart(r, d) /\ HpetPart(h, u) /\ ord \in Orders
  /\ ClockedStep(p, r, d, m, rd, ord)
  /\ Freerun(h, u, guest.ratio * HpetClocks)

StepHasParts ==
  \E p, r, d, m, rd, ord, h, u : Parts(p, r, d, m, rd, ord, h, u)

LEMMA PitParts ==
  ASSUME NEW p, NEW m, NEW rd, PitPart(p, m, rd), PitStep(p, m, rd)
  PROVE  StepHasParts
<1>1. RtcPart(rtc, Polled) /\ HpetPart(hpet, due) /\ "none" \in Orders
  BY DEF RtcPart, HpetPart, Orders
<1>2. /\ ClockedStep(p, rtc, Polled, m, rd, "none")
      /\ Freerun(hpet, due, guest.ratio * HpetClocks)
  BY DEF PitStep, Step
<1>3. Parts(p, rtc, Polled, m, rd, "none", hpet, due)
  BY <1>1, <1>2 DEF Parts
<1> QED BY <1>3 DEF StepHasParts

LEMMA UntouchedPart == PitPart(pit, meter, reading)
<1>1. Untouched(pit, meter, reading)
  BY DEF Untouched
<1> QED BY <1>1 DEF PitPart

LEMMA RtcParts ==
  ASSUME NEW r, Signals(r), NEW ord \in Orders, RtcStep(r, ord)
  PROVE  StepHasParts
<1> DEFINE d == SetSlaveLine(Polled, 0, r.irqf)
<1>1. RtcPart(r, d) /\ HpetPart(hpet, due) /\ PitPart(pit, meter, reading)
  BY UntouchedPart DEF RtcPart, HpetPart
<1>2. /\ ClockedStep(pit, r, d, meter, reading, ord)
      /\ Freerun(hpet, due, guest.ratio * HpetClocks)
  BY DEF RtcStep, Step
<1> HIDE DEF d
<1>3. Parts(pit, r, d, meter, reading, ord, hpet, due)
  BY <1>1, <1>2 DEF Parts
<1> QED BY <1>3 DEF StepHasParts

LEMMA HpetParts ==
  ASSUME NEW h, NEW u, Stored(h, u), HpetStep(h, u)
  PROVE  StepHasParts
<1>1. /\ PitPart(pit, meter, reading) /\ RtcPart(rtc, Polled) /\ HpetPart(h, u)
      /\ "none" \in Orders
  BY UntouchedPart DEF RtcPart, HpetPart, HpetStep, Orders
<1>2. /\ ClockedStep(pit, rtc, Polled, meter, reading, "none")
      /\ Freerun(h, u, guest.ratio * HpetClocks)
  BY DEF HpetStep
<1>3. Parts(pit, rtc, Polled, meter, reading, "none", h, u)
  BY <1>1, <1>2 DEF Parts
<1> QED BY <1>3 DEF StepHasParts

LEMMA EndParts == OutEoi => StepHasParts
<1> SUFFICES ASSUME OutEoi
             PROVE  StepHasParts
  OBVIOUS
<1>1. PICK chip \in {"master", "slave"} :
        Step(pit, rtc,
             SyncCascade([Polled EXCEPT ![chip] = NonSpecificEoi(@, FALSE)]),
             meter, reading, "none")
  BY DEF OutEoi
<1> DEFINE d == SyncCascade([Polled EXCEPT ![chip] = NonSpecificEoi(@, FALSE)])
<1>2. /\ PitPart(pit, meter, reading) /\ RtcPart(rtc, d) /\ HpetPart(hpet, due)
      /\ "none" \in Orders
  <2>1. Ended(d)
    BY DEF Ended
  <2> HIDE DEF d
  <2> QED BY <2>1, UntouchedPart DEF RtcPart, HpetPart, Orders
<1>3. /\ ClockedStep(pit, rtc, d, meter, reading, "none")
      /\ Freerun(hpet, due, guest.ratio * HpetClocks)
  BY <1>1 DEF Step
<1> HIDE DEF d
<1>4. Parts(pit, rtc, d, meter, reading, "none", hpet, due)
  BY <1>2, <1>3 DEF Parts
<1> QED BY <1>4 DEF StepHasParts

(* The clock's actions, whose stores keep its interrupt a function of its   *)
(* flags.                                                                   *)
LEMMA EncodedBytes ==
  ASSUME Signals(rtc)
  PROVE  /\ \A n \in Int : EncodeField(n, rtc.binary) \in CmosByte
         /\ \A h \in Int : HourByte(h) \in CmosByte
<1>1. rtc.binary \in BOOLEAN
  BY DEF Signals, Rtc
<1>2. \A n \in Int : EncodeField(n, rtc.binary) \in CmosByte
  BY <1>1, EncodeTyped DEF CmosByte
<1>3. \A b \in CmosByte : To12(b, rtc.binary) \in CmosByte
  <2> TAKE b \in CmosByte
  <2>1. ConvertHour(b, rtc.binary, FALSE) \in CmosByte
    BY <1>1, ConvertTyped
  <2> QED BY <2>1 DEF ConvertHour
<1> QED BY <1>2, <1>3 DEF HourByte

LEMMA DateTyped ==
  ASSUME NEW date \in Date
  PROVE  /\ date.year \in Years /\ date.month \in 1 .. 12 /\ date.day \in 1 .. 31
         /\ date.dow \in 1 .. 7 /\ date.hour \in 0 .. 23 /\ date.min \in 0 .. 59
         /\ date.sec \in 0 .. 59
         /\ date.day <= MonthLength(date.month, date.year)
<1> DEFINE months == 1 .. 12
           days == 1 .. 31
           weekdays == 1 .. 7
           hours == 0 .. 23
           sixty == 0 .. 59
           dates == [year : Years, month : months, day : days, dow : weekdays,
                     hour : hours, min : sixty, sec : sixty]
<1>1. Date = {e \in dates : e.day <= MonthLength(e.month, e.year)}
  BY Zenon DEF Date
<1> HIDE DEF months, days, weekdays, hours, sixty
<1>2. date \in dates /\ date.day <= MonthLength(date.month, date.year)
  BY <1>1, Zenon
<1>3. /\ date.year \in Years /\ date.month \in months /\ date.day \in days
      /\ date.dow \in weekdays /\ date.hour \in hours /\ date.min \in sixty
      /\ date.sec \in sixty
  BY <1>2, Zenon
<1> QED BY <1>2, <1>3, Zenon DEF months, days, weekdays, hours, sixty

LEMMA ClockParts ==
  ASSUME Signals(rtc),
         \/ RtcReadC \/ RtcEnable \/ RtcRate \/ RtcStop \/ RtcSetTime \/ RtcStart
         \/ RtcFormat \/ RtcSetAlarm
  PROVE  StepHasParts
<1>1. /\ rtc.set \in BOOLEAN /\ rtc.h24 \in BOOLEAN /\ rtc.enables \in SUBSET Sources
      /\ {"none", "set", "date", "alarm", "read"} = Orders
  BY DEF Signals, Rtc, Orders
<1>2. CASE RtcReadC
  <2>1. RtcStep(ReadStatusC(rtc), "read")
    BY <1>2 DEF RtcReadC
  <2> QED BY <1>1, <2>1, StoreSignals, RtcParts
<1>3. CASE RtcEnable
  <2>1. PICK enables \in Enables :
          RtcStep(WriteStatusB(rtc, rtc.set, rtc.h24, enables), "none")
    BY <1>3 DEF RtcEnable
  <2>2. enables \in SUBSET Sources
    BY TimersAssumption
  <2>3. Signals(WriteStatusB(rtc, rtc.set, rtc.h24, enables))
    BY <1>1, <2>2, StoreSignals
  <2> QED BY <1>1, <2>1, <2>3, RtcParts
<1>4. CASE RtcRate
  <2>1. PICK periodic \in BOOLEAN : RtcStep(WriteStatusA(rtc, periodic), "none")
    BY <1>4 DEF RtcRate
  <2>2. Signals(WriteStatusA(rtc, periodic))
    BY <1>1, StoreSignals
  <2> QED BY <1>1, <2>1, <2>2, RtcParts
<1>5. CASE RtcStop
  <2>1. RtcStep(WriteStatusB(rtc, TRUE, rtc.h24, rtc.enables), "set")
    BY <1>5 DEF RtcStop
  <2>2. Signals(WriteStatusB(rtc, TRUE, rtc.h24, rtc.enables))
    BY <1>1, StoreSignals
  <2> QED BY <1>1, <2>1, <2>2, RtcParts
<1>6. CASE RtcStart
  <2>1. RtcStep(WriteStatusB(rtc, FALSE, rtc.h24, rtc.enables), "set")
    BY <1>6 DEF RtcStart
  <2>2. Signals(WriteStatusB(rtc, FALSE, rtc.h24, rtc.enables))
    BY <1>1, StoreSignals
  <2> QED BY <1>1, <2>1, <2>2, RtcParts
<1>7. CASE RtcFormat
  <2>1. RtcStep(WriteStatusB(rtc, rtc.set, ~rtc.h24, rtc.enables), "none")
    BY <1>7 DEF RtcFormat
  <2>2. Signals(WriteStatusB(rtc, rtc.set, ~rtc.h24, rtc.enables))
    BY <1>1, StoreSignals
  <2> QED BY <1>1, <2>1, <2>2, RtcParts
<1>8. CASE RtcSetTime
  <2> DEFINE f(date) ==
               [century |-> EncodeField(date.year \div 100, rtc.binary),
                year |-> EncodeField(date.year % 100, rtc.binary),
                month |-> EncodeField(date.month, rtc.binary),
                day |-> EncodeField(date.day, rtc.binary), dow |-> date.dow,
                hour |-> HourByte(date.hour),
                min |-> EncodeField(date.min, rtc.binary),
                sec |-> EncodeField(date.sec, rtc.binary)]
  <2>1. PICK date \in Dates : RtcStep(WriteFields(rtc, f(date)), "date")
    BY <1>8 DEF RtcSetTime
  <2> HIDE DEF f
  <2>2. date \in Date
    BY TimersAssumption
  <2>3. /\ date.year \in Int /\ date.month \in Int /\ date.day \in Int
        /\ date.dow \in CmosByte /\ date.hour \in Int /\ date.min \in Int
        /\ date.sec \in Int
    <3>1. /\ date.month \in 1 .. 12 /\ date.day \in 1 .. 31
          /\ date.dow \in 1 .. 7 /\ date.hour \in 0 .. 23 /\ date.min \in 0 .. 59
          /\ date.sec \in 0 .. 59
      BY <2>2, DateTyped, Zenon
    <3>2. date.year \in Int
      <4>1. \A y \in Years : y \in Int
        BY DEF Years
      <4> QED BY <2>2, <4>1, DateTyped, Zenon
    <3> QED BY <3>1, <3>2 DEF CmosByte
  <2>4. \A y \in Int : y \div 100 \in Int /\ y % 100 \in Int
    OBVIOUS
  <2>5. DOMAIN f(date) \subseteq TimeFields \cup AlarmFields
    BY DEF TimeFields, f
  <2>6. \A x \in DOMAIN f(date) : f(date)[x] \in CmosByte
    <3> DEFINE century == EncodeField(date.year \div 100, rtc.binary)
               year == EncodeField(date.year % 100, rtc.binary)
               month == EncodeField(date.month, rtc.binary)
               day == EncodeField(date.day, rtc.binary)
               hour == HourByte(date.hour)
               min == EncodeField(date.min, rtc.binary)
               sec == EncodeField(date.sec, rtc.binary)
               g == [century |-> century, year |-> year, month |-> month,
                     day |-> day, dow |-> date.dow, hour |-> hour, min |-> min,
                     sec |-> sec]
    <3>1. /\ century \in CmosByte /\ year \in CmosByte /\ month \in CmosByte
          /\ day \in CmosByte /\ hour \in CmosByte /\ min \in CmosByte
          /\ sec \in CmosByte
      BY <2>3, <2>4, EncodedBytes
    <3>2. f(date) = g
      BY DEF f
    <3> HIDE DEF century, year, month, day, hour, min, sec
    <3>3. \A x \in DOMAIN g : g[x] \in CmosByte
      BY <2>3, <3>1
    <3> HIDE DEF g
    <3> QED BY <3>2, <3>3
  <2>7. Signals(WriteFields(rtc, f(date)))
    BY <2>5, <2>6, FieldsSignal
  <2> QED BY <1>1, <2>1, <2>7, RtcParts
<1>9. CASE RtcSetAlarm
  <2> DEFINE hour(a) == IF a.hour = -1 THEN DontCare ELSE HourByte(a.hour)
             f(a) == [aSec |-> EncodeField(a.sec, rtc.binary),
                      aMin |-> EncodeField(a.min, rtc.binary), aHour |-> hour(a)]
  <2>1. PICK a \in Alarms : RtcStep(WriteFields(rtc, f(a)), "alarm")
    BY <1>9 DEF RtcSetAlarm
  <2>2. a.sec \in Int /\ a.min \in Int /\ a.hour \in Int
    BY TimersAssumption DEF Alarm
  <2>3. hour(a) \in CmosByte
    BY <2>2, EncodedBytes DEF DontCare, CmosByte
  <2>4. DOMAIN f(a) \subseteq TimeFields \cup AlarmFields
    BY DEF AlarmFields
  <2>5. \A x \in DOMAIN f(a) : f(a)[x] \in CmosByte
    <3> DEFINE h == hour(a)
               min == EncodeField(a.min, rtc.binary)
               sec == EncodeField(a.sec, rtc.binary)
    <3>1. h \in CmosByte /\ min \in CmosByte /\ sec \in CmosByte
      BY <2>2, <2>3, EncodedBytes
    <3>2. f(a) = [aSec |-> sec, aMin |-> min, aHour |-> h]
      OBVIOUS
    <3> HIDE DEF h, min, sec, f
    <3> QED BY <3>1, <3>2
  <2> HIDE DEF f
  <2>6. Signals(WriteFields(rtc, f(a)))
    BY <2>4, <2>5, FieldsSignal
  <2> QED BY <1>1, <2>1, <2>6, RtcParts
<1> QED BY <1>2, <1>3, <1>4, <1>5, <1>6, <1>7, <1>8, <1>9

LEMMA PitActionParts ==
  ASSUME Control \/ Data \/ Latch \/ ReadBackCommand \/ DataRead \/ Port61
  PROVE  StepHasParts
<1>1. CASE Control
  <2>1. PICK mode \in guest.modes, access \in guest.accesses :
          PitStep(WithChannel(ApplyControl(Channel, mode, access)), NoMeter, NoReading)
    BY <1>1 DEF Control
  <2> DEFINE p == WithChannel(ApplyControl(Channel, mode, access))
  <2>2. Controlled(p, NoMeter, NoReading)
    BY DEF Controlled
  <2> HIDE DEF p
  <2>3. PitPart(p, NoMeter, NoReading)
    BY <2>2 DEF PitPart
  <2> QED BY <2>1, <2>3, PitParts DEF p
<1>2. CASE Data
  <2>1. PICK n \in guest.counts :
          LET ch == WriteData(Channel, DataByte(Channel, n))
              arms == ch.loaded /\ ~Triggered(ch.mode)
              keeps == Triggered(ch.mode) /\ ~Channel.pending
          IN  PitStep(WithChannel(ch),
                      IF arms THEN MeterArmed(ch) ELSE IF keeps THEN meter ELSE NoMeter,
                      reading)
    BY <1>2 DEF Data
  <2> DEFINE ch == WriteData(Channel, DataByte(Channel, n))
             p == WithChannel(ch)
             m == DataMeter(ch)
  <2>2. Written(p, m, reading)
    BY DEF Written
  <2>3. PitStep(p, m, reading)
    BY <2>1 DEF DataMeter
  <2> HIDE DEF p, m
  <2>4. PitPart(p, m, reading)
    BY <2>2 DEF PitPart
  <2> QED BY <2>3, <2>4, PitParts
<1>3. CASE Latch
  <2> DEFINE p == WithChannel(LatchCount(Channel))
             rd == ReadingLatched(reading, Channel)
  <2>1. Latches(p, meter, rd) /\ PitStep(p, meter, rd)
    BY <1>3 DEF Latch, Latches
  <2> HIDE DEF p, rd
  <2>2. PitPart(p, meter, rd)
    BY <2>1 DEF PitPart
  <2> QED BY <2>1, <2>2, PitParts
<1>4. CASE ReadBackCommand
  <2> DEFINE p(parts) == ReadBackPit(pit, {guest.channel}, parts)
             rd(parts) == IF "count" \in parts THEN ReadingLatched(reading, Channel)
                                               ELSE reading
  <2>1. PICK parts \in SUBSET {"count", "status"} : PitStep(p(parts), meter, rd(parts))
    BY <1>4 DEF ReadBackCommand
  <2>2. ReadsBack(p(parts), meter, rd(parts))
    BY DEF ReadsBack
  <2> HIDE DEF p, rd
  <2>3. PitPart(p(parts), meter, rd(parts))
    BY <2>2 DEF PitPart
  <2> QED BY <2>1, <2>3, PitParts
<1>5. CASE DataRead
  <2> DEFINE p == WithChannel(ReadData(Channel))
             rd == ReadingRead(reading, Channel)
  <2>1. Reads(p, meter, rd) /\ PitStep(p, meter, rd)
    BY <1>5 DEF DataRead, Reads
  <2> HIDE DEF p, rd
  <2>2. PitPart(p, meter, rd)
    BY <2>1 DEF PitPart
  <2> QED BY <2>1, <2>2, PitParts
<1>6. CASE Port61
  <2> DEFINE p(bits, clears) == Port61Write(pit, bits, clears)
             m(bits, clears) == GateMeter(p(bits, clears).ch[guest.channel])
  <2>1. PICK bits \in {{}, {"gate2"}, {"iochkEn", "parityEn"}},
             clears \in {{}, {"iochk", "parity"}} :
          PitStep(p(bits, clears), m(bits, clears), reading)
    BY <1>6, ZenonT(60) DEF Port61, GateMeter
  <2>2. Gated(p(bits, clears), m(bits, clears), reading)
    BY DEF Gated
  <2> HIDE DEF p, m
  <2>3. PitPart(p(bits, clears), m(bits, clears), reading)
    BY <2>2 DEF PitPart
  <2> QED BY <2>1, <2>3, PitParts
<1> QED BY <1>1, <1>2, <1>3, <1>4, <1>5, <1>6

LEMMA HpetActionParts ==
  ASSUME HpetEnable \/ HpetConfig \/ HpetComparator \/ HpetCounter \/ HpetClear
  PROVE  StepHasParts
<1>1. CASE HpetEnable
  <2>1. PICK on \in BOOLEAN : HpetStep([hpet EXCEPT !.enable = on], due)
    BY <1>1 DEF HpetEnable
  <2>2. Stored([hpet EXCEPT !.enable = on], due)
    BY DEF Stored
  <2> QED BY <2>1, <2>2, HpetParts
<1>2. CASE HpetConfig
  <2> DEFINE h(c) == StoreT0Config(hpet, c.level, c.intEnb, c.periodic, c.valSet)
             u(c) == IF c.level = hpet.level /\ c.periodic = hpet.periodic
                     THEN due ELSE NotDue
  <2>1. PICK c \in HpetConfigs : HpetStep(h(c), u(c))
    BY <1>2 DEF HpetConfig
  <2>2. Stored(h(c), u(c))
    BY DEF Stored
  <2> HIDE DEF h, u
  <2> QED BY <2>1, <2>2, HpetParts
<1>3. CASE HpetComparator
  <2>1. PICK v \in HpetStores : HpetStep(StoreComparator(hpet, v), DueFrom(due, hpet, v))
    BY <1>3 DEF HpetComparator
  <2>2. Stored(StoreComparator(hpet, v), DueFrom(due, hpet, v))
    BY DEF Stored
  <2> QED BY <2>1, <2>2, HpetParts
<1>4. CASE HpetCounter
  <2>1. PICK v \in HpetStores : HpetStep(StoreCounter(hpet, v), NotDue)
    BY <1>4 DEF HpetCounter
  <2>2. Stored(StoreCounter(hpet, v), NotDue)
    BY DEF Stored
  <2> QED BY <2>1, <2>2, HpetParts
<1>5. CASE HpetClear
  <2>1. HpetStep(ClearStatus(hpet), [due EXCEPT !.rung = FALSE])
    BY <1>5 DEF HpetClear
  <2>2. Stored(ClearStatus(hpet), [due EXCEPT !.rung = FALSE])
    BY DEF Stored
  <2> QED BY <2>1, <2>2, HpetParts
<1> QED BY <1>1, <1>2, <1>3, <1>4, <1>5

LEMMA StepParts ==
  ASSUME TimersStep, Signals(rtc)
  PROVE  StepHasParts
<1>1. CASE Other
  <2>1. PitStep(pit, meter, reading)
    BY <1>1 DEF Other
  <2> QED BY <2>1, UntouchedPart, PitParts
<1>2. CASE OutEoi
  BY <1>2, EndParts
<1>3. CASE Control \/ Data \/ Latch \/ ReadBackCommand \/ DataRead \/ Port61
  BY <1>3, PitActionParts
<1>4. CASE HpetEnable \/ HpetConfig \/ HpetComparator \/ HpetCounter \/ HpetClear
  BY <1>4, HpetActionParts
<1>5. CASE \/ RtcReadC \/ RtcEnable \/ RtcRate \/ RtcStop \/ RtcSetTime \/ RtcStart
           \/ RtcFormat \/ RtcSetAlarm
  BY <1>5, ClockParts
<1> QED BY <1>1, <1>2, <1>3, <1>4, <1>5 DEF TimersStep

----------------------------------------------------------------------------
(* Types of the parts.                                                      *)

LEMMA PitPieces ==
  ASSUME NEW p, p \in Pit
  PROVE  /\ p.ch[0] \in PitChannel /\ p.ch[1] \in PitChannel /\ p.ch[2] \in PitChannel
         /\ p.ch \in [0 .. 2 -> PitChannel] /\ p.port61 \in SUBSET Port61Bits
         /\ p.refresh \in BOOLEAN /\ p.iochk \in BOOLEAN /\ p.parity \in BOOLEAN
<1>1. 0 \in 0 .. 2 /\ 1 \in 0 .. 2 /\ 2 \in 0 .. 2
  OBVIOUS
<1> QED BY <1>1 DEF Pit

LEMMA Port61Works ==
  ASSUME NEW p \in Pit, NEW bits \in SUBSET Port61Bits, NEW clears
  PROVE  LET q == Port61Write(p, bits, clears)
         IN  /\ q \in Pit /\ q.ch[0] = p.ch[0] /\ q.ch[1] = p.ch[1]
             /\ q.ch[2] = SetGate(p.ch[2], "gate2" \in bits)
<1> DEFINE c == SetGate(p.ch[2], "gate2" \in bits)
           w == [p EXCEPT !.port61 = bits]
           x == [w EXCEPT !.ch[2] = c]
           iochk == p.iochk /\ "iochk" \notin clears
           parity == p.parity /\ "parity" \notin clears
           q == [x EXCEPT !.iochk = iochk, !.parity = parity]
<1>1. c \in PitChannel
  <2>1. ("gate2" \in bits) \in BOOLEAN
    OBVIOUS
  <2>2. p.ch[2] \in PitChannel
    BY PitPieces
  <2> QED BY <2>1, <2>2, GateTyped
<1> HIDE DEF c
<1>2. 2 \in 0 .. 2 /\ 0 \in 0 .. 2 \ {2} /\ 1 \in 0 .. 2 \ {2}
  OBVIOUS
<1>3. w \in Pit /\ w.ch = p.ch
  <2>1. w \in Pit
    BY ZenonT(60) DEF Pit
  <2> QED BY <2>1 DEF Pit
<1>4. Port61Write(p, bits, clears) = q
  BY PitPieces DEF Port61Write, Pit, c
<1> HIDE DEF w
<1>5. x \in Pit /\ x.ch[2] = c /\ x.ch[0] = p.ch[0] /\ x.ch[1] = p.ch[1]
  BY <1>1, <1>2, <1>3, WithChannelTyped
<1> HIDE DEF x
<1>6. iochk \in BOOLEAN /\ parity \in BOOLEAN
  OBVIOUS
<1> HIDE DEF iochk, parity
<1>7. q \in Pit
  BY <1>5, <1>6, ZenonT(60) DEF Pit
<1>8. q.ch = x.ch
  BY <1>5 DEF Pit
<1> QED BY <1>4, <1>5, <1>7, <1>8 DEF c

LEMMA ReadBackPitWorks ==
  ASSUME NEW p \in Pit, NEW n \in 0 .. 2, NEW parts
  PROVE  LET q == ReadBackPit(p, {n}, parts)
         IN  q \in Pit /\ q.ch[n] = ReadBack(p.ch[n], parts)
<1> DEFINE Told(k) == IF k = n THEN ReadBack(p.ch[k], parts) ELSE p.ch[k]
           x == [p EXCEPT !.ch[0] = Told(0)]
           y == [x EXCEPT !.ch[1] = Told(1)]
           q == [y EXCEPT !.ch[2] = Told(2)]
<1>1. Told(0) \in PitChannel /\ Told(1) \in PitChannel /\ Told(2) \in PitChannel
  BY PitPieces, ReadBackTyped
<1>2. /\ 0 \in 0 .. 2 /\ 1 \in 0 .. 2 /\ 2 \in 0 .. 2
      /\ 0 \in 0 .. 2 \ {1} /\ 0 \in 0 .. 2 \ {2} /\ 1 \in 0 .. 2 \ {2}
      /\ 1 \in 0 .. 2 \ {0} /\ 2 \in 0 .. 2 \ {0} /\ 2 \in 0 .. 2 \ {1}
      /\ n \in {0, 1, 2}
  OBVIOUS
<1>3. ReadBackPit(p, {n}, parts) = q
  BY PitPieces DEF ReadBackPit, Pit
<1>4. Told(n) = ReadBack(p.ch[n], parts)
  OBVIOUS
<1> HIDE DEF Told
<1>5. x \in Pit /\ x.ch[0] = Told(0)
  BY <1>1, <1>2, WithChannelTyped
<1> HIDE DEF x
<1>6. y \in Pit /\ y.ch[1] = Told(1) /\ y.ch[0] = Told(0)
  BY <1>1, <1>2, <1>5, WithChannelTyped
<1> HIDE DEF y
<1>7. q \in Pit /\ q.ch[2] = Told(2) /\ q.ch[1] = Told(1) /\ q.ch[0] = Told(0)
  BY <1>1, <1>2, <1>6, WithChannelTyped
<1> HIDE DEF q
<1>8. q.ch[n] = Told(n)
  BY <1>2, <1>7
<1> QED BY <1>3, <1>4, <1>7, <1>8

LEMMA GuestFacts ==
  ASSUME guest \in TimerGuests
  PROVE  /\ guest \in Guest /\ guest.channel \in 0 .. 2 /\ guest.ratio \in Nat
         /\ guest.rtc \in BOOLEAN /\ guest.binary \in BOOLEAN
         /\ guest.modes \subseteq PitModes /\ guest.accesses \subseteq PitAccess
         /\ guest.counts \subseteq 0 .. FullCount - 1
         /\ (guest.rtc => guest.ratio <= ClocksPerSecond)
<1>1. guest \in Guest /\ (guest.rtc => guest.ratio <= ClocksPerSecond)
  BY TimersAssumption
<1> QED BY <1>1 DEF Guest

LEMMA PitPartTyped ==
  ASSUME guest \in TimerGuests, pit \in Pit, meter \in Meter, reading \in Reading,
         NEW p, NEW m, NEW rd, PitPart(p, m, rd)
  PROVE  p \in Pit /\ m \in Meter /\ rd \in Reading
<1>1. guest.channel \in 0 .. 2 /\ Channel \in PitChannel
  BY GuestFacts, ChannelTyped DEF Channel
<1>2. \A c \in PitChannel : WithChannel(c) \in Pit
  BY <1>1, WithChannelTyped DEF WithChannel
<1>3. CASE Untouched(p, m, rd)
  BY <1>3 DEF Untouched
<1>4. CASE Controlled(p, m, rd)
  <2>1. PICK mode \in guest.modes, access \in guest.accesses :
          /\ p = WithChannel(ApplyControl(Channel, mode, access))
          /\ m = NoMeter /\ rd = NoReading
    BY <1>4 DEF Controlled
  <2>2. ApplyControl(Channel, mode, access) \in PitChannel
    BY <1>1, GuestFacts, ControlTyped
  <2> QED BY <1>2, <2>1, <2>2, MeterFacts
<1>5. CASE Written(p, m, rd)
  <2>1. PICK n \in guest.counts :
          LET ch == WriteData(Channel, DataByte(Channel, n))
          IN  p = WithChannel(ch) /\ m = DataMeter(ch) /\ rd = reading
    BY <1>5 DEF Written
  <2> DEFINE ch == WriteData(Channel, DataByte(Channel, n))
  <2>2. DataByte(Channel, n) \in PitByte
    BY GuestFacts, DataByteTyped
  <2>3. ch \in PitChannel
    BY <1>1, <2>2, WriteTyped
  <2>4. p = WithChannel(ch) /\ m = DataMeter(ch) /\ rd = reading
    BY <2>1
  <2> HIDE DEF ch
  <2>5. DataMeter(ch) \in Meter
    BY <2>3, MeterFacts, MeterArmedTyped DEF DataMeter
  <2> QED BY <1>2, <2>3, <2>4, <2>5
<1>6. CASE Latches(p, m, rd)
  BY <1>1, <1>2, <1>6, LatchTyped, LatchedTyped DEF Latches
<1>7. CASE ReadsBack(p, m, rd)
  <2>1. PICK parts : 
          /\ p = ReadBackPit(pit, {guest.channel}, parts) /\ m = meter
          /\ rd = IF "count" \in parts THEN ReadingLatched(reading, Channel) ELSE reading
    BY <1>7 DEF ReadsBack
  <2>2. p \in Pit
    BY <1>1, <2>1, ReadBackPitWorks
  <2> QED BY <1>1, <2>1, <2>2, LatchedTyped
<1>8. CASE Reads(p, m, rd)
  BY <1>1, <1>2, <1>8, ReadDataTyped, ReadTyped DEF Reads
<1>9. CASE Gated(p, m, rd)
  <2>1. PICK bits \in {{}, {"gate2"}, {"iochkEn", "parityEn"}},
             clears \in {{}, {"iochk", "parity"}} :
          /\ p = Port61Write(pit, bits, clears)
          /\ m = GateMeter(p.ch[guest.channel]) /\ rd = reading
    BY <1>9 DEF Gated
  <2>2. bits \in SUBSET Port61Bits
    BY DEF Port61Bits
  <2>3. p \in Pit
    BY <2>1, <2>2, Port61Works
  <2>4. p.ch[guest.channel] \in PitChannel
    BY <1>1, <2>3, ChannelTyped
  <2>5. m \in Meter
    BY <2>1, <2>4, MeterFacts, MeterArmedTyped DEF GateMeter
  <2> QED BY <2>1, <2>3, <2>5
<1> QED BY <1>3, <1>4, <1>5, <1>6, <1>7, <1>8, <1>9 DEF PitPart

Due == [left : -1 .. HpetSize, rung : BOOLEAN]

LEMMA DistanceTyped ==
  ASSUME NEW from \in HpetValue, NEW to \in HpetValue
  PROVE  Distance(from, to) \in 1 .. HpetSize
<1>1. HpetSize \in Nat /\ HpetSize >= 2
  BY SizeFacts
<1>2. from \in 0 .. HpetSize - 1 /\ to \in 0 .. HpetSize - 1
  BY DEF HpetValue
<1>3. from # to => (to - from) % HpetSize \in 1 .. HpetSize - 1
  <2> HIDE DEF HpetSize
  <2>1. CASE to > from
    <3>1. (to - from) % HpetSize = to - from
      BY <1>1, <1>2, <2>1, SMT
    <3> QED BY <1>1, <1>2, <2>1, <3>1
  <2>2. CASE to < from
    <3>1. (to - from) % HpetSize = to - from + HpetSize
      BY <1>1, <1>2, <2>2, SMT
    <3> QED BY <1>1, <1>2, <2>2, <3>1
  <2> QED BY <1>2, <2>1, <2>2
<1> HIDE DEF HpetSize
<1> QED BY <1>1, <1>3 DEF Distance

LEMMA HpetPartTyped ==
  ASSUME hpet \in HpetMmio, due \in Due, NEW h, NEW u, HpetPart(h, u)
  PROVE  h \in HpetMmio /\ u \in Due
<1>1. 0 \in HpetValue /\ HpetSize \in Nat /\ HpetSize >= 2
  BY SizeFacts DEF HpetValue
<1>2. NotDue \in Due
  BY <1>1 DEF NotDue, Due, Unknown
<1>3. CASE h = hpet /\ u = due
  BY <1>3
<1>4. ASSUME NEW on \in BOOLEAN, h = [hpet EXCEPT !.enable = on], u = due
      PROVE  h \in HpetMmio /\ u \in Due
  BY <1>1, <1>4, StoresTyped
<1>5. ASSUME NEW c \in HpetConfigs,
             h = StoreT0Config(hpet, c.level, c.intEnb, c.periodic, c.valSet),
             u = IF c.level = hpet.level /\ c.periodic = hpet.periodic
                 THEN due ELSE NotDue
      PROVE  h \in HpetMmio /\ u \in Due
  <2>1. /\ c.level \in BOOLEAN /\ c.intEnb \in BOOLEAN /\ c.periodic \in BOOLEAN
        /\ c.valSet \in BOOLEAN
    BY TimersAssumption
  <2>2. h \in HpetMmio
    BY <1>1, <1>5, <2>1, StoresTyped
  <2> QED BY <1>2, <1>5, <2>2
<1>6. ASSUME NEW v \in HpetStores, h = StoreComparator(hpet, v), u = DueFrom(due, hpet, v)
      PROVE  h \in HpetMmio /\ u \in Due
  <2>1. v \in HpetValue
    BY TimersAssumption
  <2>2. h \in HpetMmio
    BY <1>6, <2>1, StoresTyped
  <2> DEFINE left == Distance(hpet.counter, v)
             rung == due.left # Unknown /\ due.rung
  <2>3. left \in 1 .. HpetSize
    BY <2>1, DistanceTyped DEF HpetMmio
  <2>4. DueFrom(due, hpet, v) \in {due, [left |-> left, rung |-> rung]}
    BY DEF DueFrom
  <2>5. rung \in BOOLEAN
    BY DEF Due
  <2> HIDE DEF left, rung
  <2>6. [left |-> left, rung |-> rung] \in Due
    BY <1>1, <2>3, <2>5 DEF Due
  <2> QED BY <1>6, <2>2, <2>4, <2>6
<1>7. ASSUME NEW v \in HpetStores, h = StoreCounter(hpet, v), u = NotDue
      PROVE  h \in HpetMmio /\ u \in Due
  <2>1. v \in HpetValue
    BY TimersAssumption
  <2> QED BY <1>2, <1>7, <2>1, StoreCounterTyped
<1>8. ASSUME h = ClearStatus(hpet), u = [due EXCEPT !.rung = FALSE]
      PROVE  h \in HpetMmio /\ u \in Due
  <2>1. h \in HpetMmio
    BY <1>1, <1>8, StoresTyped
  <2>2. u \in Due
    BY <1>8, ZenonT(60) DEF Due
  <2> QED BY <2>1, <2>2
<1> QED BY <1>3, <1>4, <1>5, <1>6, <1>7, <1>8 DEF HpetPart, Stored

LEMMA ResetDueTyped ==
  [NotDue EXCEPT !.left = HpetSize] \in Due
<1>1. HpetSize \in -1 .. HpetSize
  <2>1. HpetSize \in Nat
    BY SizeFacts
  <2> HIDE DEF HpetSize
  <2> QED BY <2>1
<1>2. NotDue \in Due
  BY SizeFacts DEF NotDue, Due, Unknown
<1> QED BY <1>1, <1>2, ZenonT(60) DEF Due

LEMMA FreerunTyped ==
  ASSUME NEW h \in HpetMmio, NEW u \in Due, NEW ticks \in Nat, Freerun(h, u, ticks)
  PROVE  hpet' \in HpetMmio /\ due' \in Due
<1>1. hpet' \in HpetMmio
  BY AdvanceTyped DEF Freerun
<1>2. HpetSize \in Nat /\ h.period \in 0 .. HpetSize - 1 /\ u.left \in -1 .. HpetSize
  BY SizeFacts DEF HpetMmio, HpetValue, Due
<1> DEFINE sooner == [u EXCEPT !.left = @ - ticks]
           next == [left |-> IF h.periodic THEN h.period ELSE Never, rung |-> TRUE]
<1>3. due' = u \/ (ticks < u.left /\ due' = sooner) \/ due' = next
  BY DEF Freerun, DueAfter
<1>4. ticks < u.left => sooner \in Due
  <2> SUFFICES ASSUME ticks < u.left
               PROVE  sooner \in Due
    OBVIOUS
  <2> DEFINE left == u.left - ticks
  <2>1. left \in -1 .. HpetSize
    BY <1>2
  <2>2. sooner = [u EXCEPT !.left = left]
    OBVIOUS
  <2> HIDE DEF left, sooner
  <2> QED BY <2>1, <2>2, ZenonT(60) DEF Due
<1>5. next \in Due
  <2> DEFINE left == IF h.periodic THEN h.period ELSE Never
  <2>1. left \in -1 .. HpetSize
    BY <1>2 DEF Never
  <2> HIDE DEF left
  <2> QED BY <2>1 DEF Due, left
<1> QED BY <1>1, <1>3, <1>4, <1>5

----------------------------------------------------------------------------
(* The invariant: types, and the interrupts.                                *)

TimersInv == TimersTypeOK /\ Counted(pic, rtc, irq)

LEMMA Quotient ==
  ASSUME NEW x \in Nat, NEW q \in Nat \ {0}
  PROVE  x \div q \in Nat /\ x % q \in 0 .. q - 1
OBVIOUS

LEMMA ChargeTyped ==
  ASSUME TimersTypeOK
  PROVE  /\ Periods \in Nat /\ Seconds \in Nat
         /\ Charge(clock) \in
              [period : 0 .. ClocksPerPeriod - 1, second : 0 .. ClocksPerSecond - 1]
<1>1. guest.ratio \in Nat /\ ClocksPerPeriod \in Nat \ {0} /\ ClocksPerSecond \in Nat \ {0}
  BY GuestFacts, TimersAssumption DEF TimersTypeOK
<1>2. /\ clock.period \in 0 .. ClocksPerPeriod - 1
      /\ clock.second \in 0 .. ClocksPerSecond - 1
      /\ clock \in [period : 0 .. ClocksPerPeriod - 1, second : 0 .. ClocksPerSecond - 1]
  BY DEF TimersTypeOK
<1>3. clock.period + guest.ratio \in Nat /\ clock.second + guest.ratio \in Nat
  BY <1>1, <1>2
<1>4. /\ (clock.period + guest.ratio) \div ClocksPerPeriod \in Nat
      /\ (clock.second + guest.ratio) \div ClocksPerSecond \in Nat
      /\ (clock.period + guest.ratio) % ClocksPerPeriod \in 0 .. ClocksPerPeriod - 1
      /\ (clock.second + guest.ratio) % ClocksPerSecond \in 0 .. ClocksPerSecond - 1
  BY <1>1, <1>3, Quotient
<1>5. Periods \in Nat /\ Seconds \in Nat
  BY <1>4 DEF Periods, Seconds, Owed
<1> QED BY <1>2, <1>4, <1>5, Zenon DEF Charge

LEMMA AdvanceWorks ==
  ASSUME TimersTypeOK, NEW p \in Pit, NEW m \in Meter, NEW r, NEW d, NEW seen,
         NEW n \in Nat, NEW periods, NEW seconds,
         Advance(p, r, d, m, seen, n, periods, seconds)
  PROVE  pit' \in Pit /\ meter' \in Meter
         /\ bda' \in [ticks : 0 .. DayTicks - 1, overflow : BOOLEAN]
         /\ pit' = Ticked(p, m, n).pit /\ meter' = Ticked(p, m, n).meter
<1> DEFINE t == Ticked(p, m, n)
<1>1. pit' = t.pit /\ meter' = t.meter
      /\ bda' = IF t.rising THEN BiosTick(bda) ELSE bda
  BY DEF Advance, AdvanceClock, Advanced
<1>2. t \in TickState
  BY GuestFacts, TickedTyped DEF TimersTypeOK
<1> HIDE DEF t
<1>3. bda \in [ticks : 0 .. DayTicks - 1, overflow : BOOLEAN] /\ DayTicks \in Nat \ {0}
  BY TimersAssumption DEF TimersTypeOK
<1> DEFINE next == bda.ticks + 1
           counted == [bda EXCEPT !.ticks = next]
           midnight == [ticks |-> 0, overflow |-> TRUE]
<1>4. BiosTick(bda) = midnight \/ (~(next >= DayTicks) /\ BiosTick(bda) = counted)
  BY DEF BiosTick
<1>5. ~(next >= DayTicks) => next \in 0 .. DayTicks - 1
  BY <1>3
<1>6. 0 \in 0 .. DayTicks - 1
  BY <1>3
<1> HIDE DEF next
<1>7. midnight \in [ticks : 0 .. DayTicks - 1, overflow : BOOLEAN]
  BY <1>6
<1>8. next \in 0 .. DayTicks - 1 =>
        counted \in [ticks : 0 .. DayTicks - 1, overflow : BOOLEAN]
  BY <1>3, ZenonT(60)
<1> HIDE DEF counted, midnight
<1>9. BiosTick(bda) \in [ticks : 0 .. DayTicks - 1, overflow : BOOLEAN]
  BY <1>4, <1>5, <1>7, <1>8
<1> QED BY <1>1, <1>2, <1>3, <1>9 DEF TickState, t

LEMMA PartsKeep ==
  ASSUME TimersInv, NEW p, NEW r, NEW d, NEW m, NEW rd, NEW ord, NEW h, NEW u,
         Parts(p, r, d, m, rd, ord, h, u)
  PROVE  TimersInv' /\ irq'.vector = AckVector(Sampled)
<1> USE DEF TimersInv
<1>1. PitPart(p, m, rd) /\ RtcPart(r, d) /\ HpetPart(h, u) /\ ord \in Orders
  BY DEF Parts
<1>2. ClockedStep(p, r, d, m, rd, ord) /\ Freerun(h, u, guest.ratio * HpetClocks)
  BY DEF Parts
<1>3. p \in Pit /\ m \in Meter /\ rd \in Reading
  BY <1>1, PitPartTyped DEF TimersTypeOK
<1>4. h \in HpetMmio /\ u \in Due
  BY <1>1, HpetPartTyped DEF TimersTypeOK, Due
<1>5. Counted(d, r, Seen(r))
  BY <1>1, InstructionCounts DEF TimersTypeOK
<1> DEFINE passed == IF r.set THEN 0 ELSE Seconds
<1>6. /\ elapsed + passed <= MaxSeconds
      /\ Advance(p, r, d, m, Seen(r), guest.ratio, Periods, Seconds)
      /\ clock' = Charge(clock)
      /\ elapsed' = (IF ord = "date" THEN 0 ELSE elapsed) + passed
      /\ reading' = rd /\ order' = ord /\ guest' = guest
  BY <1>2 DEF ClockedStep, Seen
<1>7. guest \in Guest /\ guest.ratio \in Nat
  BY GuestFacts DEF TimersTypeOK
<1>8. Periods \in Nat /\ Seconds \in Nat
  BY ChargeTyped
<1>9. Counted(pic', rtc', irq') /\ irq'.vector = Seen(r).vector
  BY <1>3, <1>5, <1>6, <1>7, <1>8, AdvanceCounts
<1>10. pit' \in Pit /\ meter' \in Meter
       /\ bda' \in [ticks : 0 .. DayTicks - 1, overflow : BOOLEAN]
  BY <1>3, <1>6, <1>7, AdvanceWorks
<1>11. elapsed' \in 0 .. MaxSeconds
  <2>1. elapsed \in 0 .. MaxSeconds /\ MaxSeconds \in Nat
    BY TimersAssumption DEF TimersTypeOK
  <2>2. passed \in Nat
    BY <1>8
  <2> HIDE DEF passed
  <2> QED BY <1>6, <2>1, <2>2
<1>12. guest.ratio * HpetClocks \in Nat
  BY <1>7, HpetAssumption
<1>13. hpet' \in HpetMmio /\ due' \in Due
  BY <1>2, <1>4, <1>12, FreerunTyped
<1>14. rtc' \in Rtc /\ pic' \in Pair /\ irq' \in IrqHistory
  BY <1>9 DEF Counted, Signals, Steered
<1>15. TimersTypeOK'
  <2>1. guest' \in TimerGuests /\ reading' \in Reading
    BY <1>3, <1>6 DEF TimersTypeOK
  <2>2. order' \in {"none", "set", "date", "alarm", "read", "host", "reset"}
    BY <1>1, <1>6 DEF Orders
  <2>3. clock' \in [period : 0 .. ClocksPerPeriod - 1, second : 0 .. ClocksPerSecond - 1]
    BY <1>6, ChargeTyped
  <2> QED BY <1>10, <1>11, <1>13, <1>14, <2>1, <2>2, <2>3 DEF TimersTypeOK, Due, IrqHistory
<1> QED BY <1>9, <1>15 DEF Seen

LEMMA InitKeeps == TimersInit => TimersInv
<1> SUFFICES ASSUME TimersInit
             PROVE  TimersInv
  OBVIOUS
<1>1. guest \in Guest /\ guest \in TimerGuests
  BY GuestFacts DEF TimersInit
<1>2. Counted(pic, rtc, irq)
  BY <1>1, PowerCounts DEF TimersInit
<1>3. rtc \in Rtc /\ pic \in Pair /\ irq \in IrqHistory
  BY <1>2 DEF Counted, Signals, Steered
<1>4. pit \in Pit
  BY ResetPitTyped DEF TimersInit, PowerOn
<1>5. HpetSize \in Nat /\ HpetSize >= 2 /\ 0 \in HpetValue
  BY SizeFacts DEF HpetValue
<1>6. hpet \in HpetMmio
  BY <1>5 DEF TimersInit, PowerOn, ResetHpet, HpetMmio
<1>7. due \in Due
  BY ResetDueTyped DEF TimersInit
<1>8. clock \in [period : 0 .. ClocksPerPeriod - 1, second : 0 .. ClocksPerSecond - 1]
  BY TimersAssumption DEF TimersInit, PowerOn
<1>9. bda \in [ticks : 0 .. DayTicks - 1, overflow : BOOLEAN]
  BY TimersAssumption DEF TimersInit
<1>10. elapsed \in 0 .. MaxSeconds /\ order = "reset"
  BY TimersAssumption DEF TimersInit
<1>11. meter \in Meter /\ reading \in Reading
  BY MeterFacts DEF TimersInit
<1>12. TimersTypeOK
  BY <1>1, <1>3, <1>4, <1>6, <1>7, <1>8, <1>9, <1>10, <1>11
  DEF TimersTypeOK, Due, IrqHistory
<1> QED BY <1>2, <1>12 DEF TimersInv

LEMMA HostKeeps ==
  ASSUME TimersInv, HostTick \/ AdvanceHpet \/ HostError \/ MachineReset
  PROVE  TimersInv' /\ order' \in {"host", "reset"}
<1> USE DEF TimersInv
<1>1. guest \in Guest /\ guest \in TimerGuests
  BY GuestFacts DEF TimersTypeOK
<1>2. CASE HostTick
  <2>1. PICK n \in (IF guest.modes = {} THEN {0} ELSE 0 .. HostClocks),
             periods \in (IF "rtc" \in guest.does THEN {0, 1} ELSE {0}),
             seconds \in (IF "rtc" \in guest.does THEN {0, 1} ELSE {0}) :
          /\ elapsed + seconds <= MaxSeconds
          /\ Advance(pit, rtc, pic, meter, irq, n, periods, seconds)
          /\ elapsed' = elapsed + seconds
          /\ Freerun(hpet, due, n * HpetClocks)
    BY <1>2 DEF HostTick
  <2>2. order' = "host" /\ guest' = guest /\ clock' = clock /\ reading' = reading
    BY <1>2 DEF HostTick
  <2>3. n \in Nat /\ periods \in Nat /\ seconds \in Nat
    BY DEF HostClocks
  <2>4. n * HpetClocks \in Nat
    BY <2>3, HpetAssumption
  <2>5. hpet' \in HpetMmio /\ due' \in Due
    BY <2>1, <2>4, FreerunTyped DEF TimersTypeOK, Due
  <2>6. Counted(pic', rtc', irq')
    BY <1>1, <2>1, <2>3, AdvanceCounts DEF TimersTypeOK
  <2>7. pit' \in Pit /\ meter' \in Meter
        /\ bda' \in [ticks : 0 .. DayTicks - 1, overflow : BOOLEAN]
    BY <2>1, <2>3, AdvanceWorks DEF TimersTypeOK
  <2>8. elapsed' \in 0 .. MaxSeconds
    BY <2>1, <2>3, TimersAssumption DEF TimersTypeOK
  <2>9. rtc' \in Rtc /\ pic' \in Pair /\ irq' \in IrqHistory
    BY <2>6 DEF Counted, Signals, Steered
  <2>10. /\ guest' \in TimerGuests /\ reading' \in Reading
         /\ clock' \in [period : 0 .. ClocksPerPeriod - 1, second : 0 .. ClocksPerSecond - 1]
    BY <2>2 DEF TimersTypeOK
  <2>11. TimersTypeOK'
    BY <2>2, <2>5, <2>7, <2>8, <2>9, <2>10 DEF TimersTypeOK, Due, IrqHistory
  <2> QED BY <2>2, <2>6, <2>11
<1>3. CASE AdvanceHpet
  <2>1. PICK delta \in HpetAdvances : Freerun(hpet, due, delta)
    BY <1>3 DEF AdvanceHpet
  <2>2. delta \in Nat
    BY SizeFacts, TimersAssumption DEF HpetValue
  <2>3. hpet' \in HpetMmio /\ due' \in Due
    BY <2>1, <2>2, FreerunTyped DEF TimersTypeOK, Due
  <2>4. /\ order' = "host"
        /\ UNCHANGED <<guest, pit, rtc, pic, clock, bda, meter, reading, irq, elapsed>>
    BY <1>3 DEF AdvanceHpet
  <2>5. TimersTypeOK'
    BY <2>3, <2>4 DEF TimersTypeOK, Due
  <2> QED BY <2>4, <2>5
<1>4. CASE HostError
  <2>1. /\ order' = "host"
        /\ UNCHANGED <<guest, rtc, pic, hpet, clock, bda, meter, reading, irq, elapsed, due>>
    BY <1>4 DEF HostError
  <2>2. PICK error \in {"parity", "iochk"} : pit' = AssertError(pit, error)
    BY <1>4 DEF HostError
  <2>3. pit \in Pit
    BY DEF TimersTypeOK
  <2>4. [pit EXCEPT !.parity = TRUE] \in Pit
    BY <2>3, ZenonT(60) DEF Pit
  <2>5. [pit EXCEPT !.iochk = TRUE] \in Pit
    BY <2>3, ZenonT(60) DEF Pit
  <2>6. pit' \in Pit
    BY <2>2, <2>4, <2>5, Zenon DEF AssertError
  <2>7. TimersTypeOK'
    BY <2>1, <2>6 DEF TimersTypeOK
  <2> QED BY <2>1, <2>7
<1>5. CASE MachineReset
  <2>1. /\ pit' = PowerOn.pit /\ rtc' = PowerOn.rtc /\ pic' = PowerOn.pic
        /\ hpet' = PowerOn.hpet /\ clock' = PowerOn.clock
        /\ meter' = NoMeter /\ reading' = NoReading /\ irq' = NoIrq
        /\ order' = "reset" /\ elapsed' = 0
        /\ due' = [NotDue EXCEPT !.left = HpetSize] /\ guest' = guest /\ bda' = bda
    BY <1>5 DEF MachineReset
  <2>2. Counted(pic', rtc', irq')
    BY <1>1, <2>1, PowerCounts
  <2>3. rtc' \in Rtc /\ pic' \in Pair /\ irq' \in IrqHistory
    BY <2>2 DEF Counted, Signals, Steered
  <2>4. pit' \in Pit
    BY <2>1, ResetPitTyped DEF PowerOn
  <2>5. HpetSize \in Nat /\ HpetSize >= 2 /\ 0 \in HpetValue
    BY SizeFacts DEF HpetValue
  <2>6. hpet' \in HpetMmio
    BY <2>1, <2>5 DEF PowerOn, ResetHpet, HpetMmio
  <2>7. due' \in Due
    BY <2>1, ResetDueTyped
  <2>8. clock' \in [period : 0 .. ClocksPerPeriod - 1, second : 0 .. ClocksPerSecond - 1]
    BY <2>1, TimersAssumption DEF PowerOn
  <2>9. elapsed' \in 0 .. MaxSeconds
    BY <2>1, TimersAssumption
  <2>10. meter' \in Meter /\ reading' \in Reading
    BY <2>1, MeterFacts
  <2>11. TimersTypeOK'
    BY <1>1, <2>1, <2>3, <2>4, <2>6, <2>7, <2>8, <2>9, <2>10
    DEF TimersTypeOK, Due, IrqHistory
  <2> QED BY <2>1, <2>2, <2>11
<1> QED BY <1>2, <1>3, <1>4, <1>5

LEMMA StepKeeps ==
  ASSUME TimersInv, TimersStep
  PROVE  TimersInv' /\ irq'.vector = AckVector(Sampled)
<1>1. Signals(rtc)
  BY DEF TimersInv, Counted
<1>2. PICK p, r, d, m, rd, ord, h, u : Parts(p, r, d, m, rd, ord, h, u)
  BY <1>1, StepParts DEF StepHasParts
<1> QED BY <1>2, PartsKeep

LEMMA StutterKeeps ==
  ASSUME TimersInv, UNCHANGED timerVars
  PROVE  TimersInv'
BY DEF TimersInv, TimersTypeOK, timerVars

LEMMA TimersInvHolds == TimersSpec => []TimersInv
<1>1. ASSUME TimersInv, [TimersNext]_timerVars
      PROVE  TimersInv'
  <2>1. CASE TimersStep
    BY <1>1, <2>1, StepKeeps
  <2>2. CASE HostTick \/ AdvanceHpet \/ HostError \/ MachineReset
    BY <1>1, <2>2, HostKeeps
  <2>3. CASE UNCHANGED timerVars
    BY <1>1, <2>3, StutterKeeps
  <2> QED BY <1>1, <2>1, <2>2, <2>3 DEF TimersNext
<1> QED BY <1>1, InitKeeps, PTL DEF TimersSpec

(* Whatever the guest does and however long its steps are, every chip, the  *)
(* step clock and the BIOS's count of ticks keep their ranges: a date is    *)
(* never a byte too large, and a partial quantum is less than a quantum.    *)
THEOREM TimersTyped == TimersSpec => []TimersTypeOK
<1>1. TimersInv => TimersTypeOK
  BY DEF TimersInv
<1> QED BY <1>1, TimersInvHolds, PTL

(* An edge of a timer is served once: by the very next step if its line is  *)
(* still up, as a spurious vector if it is not, and never without an edge.  *)
THEOREM TimersInterruptsKept == TimersSpec => InterruptsKept
<1> DEFINE A == order' \notin {"reset", "host"} =>
        /\ EdgeSampled /\ pit.ch[0].out /\ 0 \notin pic.master.isr
             => irq'.vector = Irq0
        /\ irq'.vector = Irq0 => EdgeSampled
        /\ irq.edge8 /\ rtc.irqf /\ pic.slave.isr = {}
             /\ pic.master.isr = {} /\ irq'.vector.chip # "master"
             => irq'.vector = Irq8
        /\ irq'.vector = Irq8 => irq.edge8
<1>1. ASSUME TimersInv, TimersNext
      PROVE  A
  <2>1. CASE TimersStep
    <3> DEFINE v == AckVector(Sampled)
    <3>1. irq'.vector = v
      BY <1>1, <2>1, StepKeeps
    <3>2. Counted(pic, rtc, irq) /\ pit \in Pit
      BY <1>1 DEF TimersInv, TimersTypeOK
    <3>3. Served(Sampled, Polled, v)
      BY <3>2, SampledCounts, AckServes DEF Polled
    <3> HIDE DEF v
    <3>4. /\ Sampled.master.isr = pic.master.isr /\ Sampled.slave.isr = pic.slave.isr
          /\ pit.ch[0].out <=> 0 \in Sampled.master.pins
          /\ rtc.irqf <=> 0 \in Sampled.slave.pins
          /\ EdgeSampled <=> 0 \in Sampled.master.irr
          /\ irq.edge8 <=> 0 \in Sampled.slave.irr
      BY <3>2, SampledCounts
    <3>5. /\ EdgeSampled /\ pit.ch[0].out /\ 0 \notin pic.master.isr => v = Irq0
          /\ v = Irq0 => EdgeSampled
      BY <3>3, <3>4 DEF Served
    <3>6. /\ irq.edge8 /\ rtc.irqf /\ pic.slave.isr = {}
               /\ pic.master.isr = {} /\ v.chip # "master" => v = Irq8
          /\ v = Irq8 => irq.edge8
      BY <3>3, <3>4 DEF Served
    <3> QED BY <3>1, <3>5, <3>6
  <2>2. CASE HostTick \/ AdvanceHpet \/ HostError \/ MachineReset
    BY <1>1, <2>2, HostKeeps
  <2> QED BY <1>1, <2>1, <2>2 DEF TimersNext
<1> HIDE DEF A
<1>2. TimersSpec => [][A]_timerVars
  BY <1>1, TimersInvHolds, PTL DEF TimersSpec
<1> QED BY <1>2 DEF InterruptsKept, A

----------------------------------------------------------------------------
(* The HPET's event: the ticks the history counts down are those between    *)
(* the counter and the comparator, over the counter's wrap or not.          *)

LEMMA DistanceIs ==
  ASSUME NEW c \in HpetValue, NEW v \in HpetValue
  PROVE  Distance(c, v) = IF v > c THEN v - c ELSE v - c + HpetSize
<1>1. HpetSize \in Nat /\ HpetSize >= 2
  BY SizeFacts
<1>2. c \in 0 .. HpetSize - 1 /\ v \in 0 .. HpetSize - 1
  BY DEF HpetValue
<1>3. CASE v > c
  <2>1. (v - c) % HpetSize = v - c
    BY <1>1, <1>2, <1>3, SMT
  <2> QED BY <1>2, <1>3, <2>1 DEF Distance
<1>4. CASE v < c
  <2>1. (v - c) % HpetSize = v - c + HpetSize
    BY <1>1, <1>2, <1>4, SMT
  <2> QED BY <1>2, <1>4, <2>1 DEF Distance
<1>5. CASE v = c
  BY <1>1, <1>2, <1>5 DEF Distance
<1> QED BY <1>2, <1>3, <1>4, <1>5

LEMMA MovedCounter ==
  ASSUME NEW c \in HpetValue, NEW delta \in HpetValue
  PROVE  LET a == (c + delta) % HpetSize
         IN  a \in HpetValue
             /\ a = IF c + delta < HpetSize THEN c + delta ELSE c + delta - HpetSize
<1>1. HpetSize \in Nat /\ HpetSize >= 2
  BY SizeFacts
<1>2. c \in 0 .. HpetSize - 1 /\ delta \in 0 .. HpetSize - 1
  BY DEF HpetValue
<1> DEFINE a == (c + delta) % HpetSize
<1>3. c + delta < HpetSize => a = c + delta
  BY <1>1, <1>2, SMT
<1>4. ~(c + delta < HpetSize) => a = c + delta - HpetSize
  BY <1>1, <1>2, SMT
<1> HIDE DEF a
<1> QED BY <1>1, <1>2, <1>3, <1>4 DEF HpetValue, a

(* The jump of a tick meets the comparator iff it is as far or nearer.      *)
LEMMA CrossedInTime ==
  ASSUME NEW c \in HpetValue, NEW v \in HpetValue, NEW delta \in HpetValue, delta # 0
  PROVE  LET a == (c + delta) % HpetSize
         IN  /\ Crossed(c, a, v) <=> delta >= Distance(c, v)
             /\ delta < Distance(c, v) => Distance(a, v) = Distance(c, v) - delta
<1> DEFINE a == (c + delta) % HpetSize
           far == Distance(c, v)
<1>1. HpetSize \in Nat /\ HpetSize >= 2
  BY SizeFacts
<1>2. /\ a \in HpetValue
      /\ a = IF c + delta < HpetSize THEN c + delta ELSE c + delta - HpetSize
  BY MovedCounter
<1> HIDE DEF a
<1>3. far = IF v > c THEN v - c ELSE v - c + HpetSize
  BY DistanceIs
<1>4. Distance(a, v) = IF v > a THEN v - a ELSE v - a + HpetSize
  BY <1>2, DistanceIs
<1> HIDE DEF far
<1>5. /\ c \in 0 .. HpetSize - 1 /\ v \in 0 .. HpetSize - 1 /\ delta \in 1 .. HpetSize - 1
      /\ a \in 0 .. HpetSize - 1
  BY <1>1, <1>2 DEF HpetValue
<1>6. Crossed(c, a, v) <=> delta >= far
  BY <1>1, <1>2, <1>3, <1>5 DEF Crossed
<1>7. delta < far => Distance(a, v) = far - delta
  BY <1>1, <1>2, <1>3, <1>4, <1>5
<1> QED BY <1>6, <1>7 DEF a, far

LEMMA NextPeriod ==
  ASSUME NEW a \in HpetValue, NEW period \in HpetValue, period # 0
  PROVE  /\ (a + period) % HpetSize \in HpetValue
         /\ Distance(a, (a + period) % HpetSize) = period
<1> DEFINE v == (a + period) % HpetSize
<1>1. HpetSize \in Nat /\ HpetSize >= 2
  BY SizeFacts
<1>2. /\ v \in HpetValue
      /\ v = IF a + period < HpetSize THEN a + period ELSE a + period - HpetSize
  BY MovedCounter
<1> HIDE DEF v
<1>3. Distance(a, v) = IF v > a THEN v - a ELSE v - a + HpetSize
  BY <1>2, DistanceIs
<1>4. a \in 0 .. HpetSize - 1 /\ period \in 1 .. HpetSize - 1
  BY <1>1 DEF HpetValue
<1>5. Distance(a, v) = period
  BY <1>1, <1>2, <1>3, <1>4
<1> QED BY <1>2, <1>5 DEF v

Exact(h, u) ==
  /\ u.left # Unknown => (h.status <=> u.rung) /\ (~h.level => (h.edge <=> u.rung))
  /\ u.left \in 1 .. HpetSize =>
       u.left = Distance(h.counter, h.cmp) /\ (h.periodic \/ h.armed)
  /\ u.left = Never => ~h.periodic /\ ~h.armed
  /\ u.left # Unknown /\ h.periodic => h.period # 0

HpetFields(h) ==
  /\ h.counter \in HpetValue /\ h.cmp \in HpetValue /\ h.period \in HpetValue
  /\ h.status \in BOOLEAN /\ h.edge \in BOOLEAN /\ h.level \in BOOLEAN
  /\ h.periodic \in BOOLEAN /\ h.armed \in BOOLEAN /\ h.enable \in BOOLEAN

LEMMA HpetPieces ==
  ASSUME NEW h \in HpetMmio
  PROVE  HpetFields(h)
BY DEF HpetMmio, HpetFields

(* A timer whose comparator was met.                                        *)
LEMMA MetFields ==
  ASSUME NEW h \in HpetMmio, NEW before, Crossed(before, h.counter, h.cmp),
         h.periodic \/ h.armed, h.periodic => h.period # 0
  PROVE  LET e == EvalTimer0(h, before)
         IN  /\ e.status /\ (~h.level => e.edge) /\ e.level = h.level
             /\ e.counter = h.counter /\ e.period = h.period /\ e.enable = h.enable
             /\ e.periodic = h.periodic /\ (e.armed <=> h.armed /\ h.periodic)
             /\ (h.periodic => e.cmp = (h.counter + h.period) % HpetSize)
<1> DEFINE next == (h.counter + IF h.period = 0 THEN AtLeastOne(h.cmp) ELSE h.period)
                     % HpetSize
           cmp == IF ~h.periodic THEN h.cmp ELSE next
           edge == h.edge \/ ~h.level
           armed == h.armed /\ h.periodic
           e == [h EXCEPT !.status = TRUE, !.edge = edge, !.cmp = cmp, !.armed = armed]
<1>1. EvalTimer0(h, before) = e
  BY DEF EvalTimer0
<1>2. h.periodic => cmp = (h.counter + h.period) % HpetSize
  BY Zenon
<1>3. (edge <=> h.edge \/ ~h.level) /\ (armed <=> h.armed /\ h.periodic)
  OBVIOUS
<1> HIDE DEF next, cmp, edge, armed
<1>4. /\ e.status = TRUE /\ e.edge = edge /\ e.cmp = cmp /\ e.armed = armed
      /\ e.level = h.level /\ e.counter = h.counter /\ e.period = h.period
      /\ e.enable = h.enable /\ e.periodic = h.periodic
  BY DEF HpetMmio
<1> HIDE DEF e
<1> QED BY <1>1, <1>2, <1>3, <1>4

LEMMA FreerunExact ==
  ASSUME NEW h \in HpetMmio, NEW u \in Due, Exact(h, u), NEW delta \in HpetValue
  PROVE  Exact(AdvanceMainCounter(h, delta), DueAfter(u, h, delta))
<1> DEFINE e == AdvanceMainCounter(h, delta)
           w == DueAfter(u, h, delta)
           a == (h.counter + delta) % HpetSize
           x == [h EXCEPT !.counter = a]
           late == delta >= Distance(h.counter, h.cmp)
<1> SUFFICES Exact(e, w)
  OBVIOUS
<1>1. HpetFields(h) /\ u.left \in -1 .. HpetSize /\ u.rung \in BOOLEAN
  BY HpetPieces DEF Due
<1>2. HpetSize \in Nat /\ HpetSize >= 2 /\ delta \in 0 .. HpetSize - 1
  BY SizeFacts DEF HpetValue
<1>3. CASE delta = 0 \/ ~h.enable
  <2>1. e = h /\ w = u
    BY <1>3 DEF AdvanceMainCounter, DueAfter
  <2> QED BY <2>1
<1>4. CASE delta # 0 /\ h.enable
  <2>1. e = EvalTimer0(x, h.counter)
    BY <1>4 DEF AdvanceMainCounter
  <2>2. /\ a \in HpetValue
        /\ Crossed(h.counter, a, h.cmp) <=> late
        /\ ~late => Distance(a, h.cmp) = Distance(h.counter, h.cmp) - delta
    <3>1. h.counter \in HpetValue /\ h.cmp \in HpetValue
      BY <1>1 DEF HpetFields
    <3>2. Distance(h.counter, h.cmp) \in 1 .. HpetSize
      BY <3>1, DistanceTyped
    <3>3. ~late => delta < Distance(h.counter, h.cmp)
      BY <1>2, <3>2
    <3> QED BY <1>4, <3>1, <3>3, CrossedInTime, MovedCounter
  <2> HIDE DEF a, e, w
  <2>3. x \in HpetMmio
    BY <2>2, ZenonT(60) DEF HpetMmio
  <2>4. /\ x.counter = a /\ x.cmp = h.cmp /\ x.period = h.period
        /\ x.periodic = h.periodic /\ x.armed = h.armed /\ x.status = h.status
        /\ x.edge = h.edge /\ x.level = h.level
    BY DEF HpetMmio
  <2> HIDE DEF x
  <2>5. CASE u.left = Unknown
    <3>1. w = u
      BY <2>5 DEF w, DueAfter
    <3> QED BY <2>5, <3>1 DEF Exact, Unknown, Never
  <2>6. CASE u.left = Never
    <3>1. w = u
      BY <2>6 DEF w, DueAfter
    <3>2. ~h.periodic /\ ~h.armed
      BY <2>6 DEF Exact
    <3>3. e = x
      BY <2>1, <2>4, <3>2 DEF EvalTimer0
    <3> QED BY <2>4, <2>6, <3>1, <3>2, <3>3 DEF Exact, Unknown, Never
  <2>7. CASE u.left \in 1 .. HpetSize
    <3>1. /\ u.left = Distance(h.counter, h.cmp) /\ (h.periodic \/ h.armed)
          /\ (h.status <=> u.rung) /\ (~h.level => (h.edge <=> u.rung))
          /\ (h.periodic => h.period # 0)
      BY <2>7 DEF Exact, Unknown
    <3>2. CASE ~late
      <4>1. e = x
        BY <2>1, <2>2, <2>4, <3>2 DEF EvalTimer0
      <4> DEFINE left == u.left - delta
      <4>2. delta < u.left
        BY <1>2, <2>7, <3>1, <3>2
      <4>3. w = [u EXCEPT !.left = left]
        BY <1>4, <2>7, <4>2 DEF w, DueAfter, Unknown, Never
      <4>4. left \in 1 .. HpetSize /\ left = Distance(x.counter, x.cmp)
        BY <1>2, <2>2, <2>4, <2>7, <3>1, <3>2, <4>2
      <4> HIDE DEF left
      <4>5. w.left = left /\ w.rung = u.rung
        BY <4>3 DEF Due
      <4> QED BY <2>4, <3>1, <4>1, <4>4, <4>5 DEF Exact, Never
    <3>3. CASE late
      <4>1. Crossed(h.counter, x.counter, x.cmp)
        BY <2>2, <2>4, <3>3
      <4>2. /\ e.status /\ (~h.level => e.edge) /\ e.level = h.level
            /\ e.counter = a /\ e.period = h.period
            /\ e.periodic = h.periodic /\ (e.armed <=> h.armed /\ h.periodic)
            /\ (h.periodic => e.cmp = (a + h.period) % HpetSize)
        BY <2>1, <2>3, <2>4, <3>1, <4>1, MetFields
      <4>3. ~(delta < u.left)
        BY <1>2, <2>7, <3>1, <3>3
      <4>4. w = [left |-> IF h.periodic THEN h.period ELSE Never, rung |-> TRUE]
        BY <1>4, <2>7, <4>3 DEF w, DueAfter, Unknown, Never
      <4>5. CASE h.periodic
        <5>1. h.period \in HpetValue /\ h.period # 0
          BY <1>1, <3>1, <4>5 DEF HpetFields
        <5>2. Distance(a, e.cmp) = h.period
          BY <2>2, <4>2, <4>5, <5>1, NextPeriod
        <5>3. w.left = h.period /\ w.rung = TRUE
          BY <4>4, <4>5
        <5>4. h.period \in 1 .. HpetSize
          BY <1>2, <5>1 DEF HpetValue
        <5> QED BY <4>2, <4>5, <5>1, <5>2, <5>3, <5>4 DEF Exact, Never
      <4>6. CASE ~h.periodic
        <5>1. w.left = 0 /\ w.rung = TRUE
          BY <4>4, <4>6 DEF Never
        <5> QED BY <4>2, <4>6, <5>1 DEF Exact, Unknown, Never
      <4> QED BY <4>5, <4>6
    <3> QED BY <3>2, <3>3
  <2>8. u.left = Unknown \/ u.left = Never \/ u.left \in 1 .. HpetSize
    BY <1>1, <1>2 DEF Unknown, Never
  <2> QED BY <2>5, <2>6, <2>7, <2>8
<1> QED BY <1>1, <1>3, <1>4 DEF HpetFields

(* The guest's stores.                                                      *)
LEMMA StoreExact ==
  ASSUME hpet \in HpetMmio, due \in Due, Exact(hpet, due), NEW h, NEW u, Stored(h, u)
  PROVE  Exact(h, u)
<1>1. HpetFields(hpet) /\ due.left \in -1 .. HpetSize /\ due.rung \in BOOLEAN
  BY HpetPieces DEF Due
<1>2. HpetSize \in Nat /\ HpetSize >= 2
  BY SizeFacts
<1>3. Exact(h, NotDue)
  BY DEF Exact, NotDue, Unknown, Never
<1>4. ASSUME NEW on \in BOOLEAN, h = [hpet EXCEPT !.enable = on], u = due
      PROVE  Exact(h, u)
  <2>1. /\ h.counter = hpet.counter /\ h.cmp = hpet.cmp /\ h.period = hpet.period
        /\ h.periodic = hpet.periodic /\ h.armed = hpet.armed
        /\ h.status = hpet.status /\ h.edge = hpet.edge /\ h.level = hpet.level
    BY <1>4 DEF HpetMmio
  <2> QED BY <1>4, <2>1 DEF Exact
<1>5. ASSUME NEW c \in HpetConfigs,
             h = StoreT0Config(hpet, c.level, c.intEnb, c.periodic, c.valSet),
             u = IF c.level = hpet.level /\ c.periodic = hpet.periodic
                 THEN due ELSE NotDue
      PROVE  Exact(h, u)
  <2>1. CASE c.level = hpet.level /\ c.periodic = hpet.periodic
    <3> DEFINE valSet == hpet.valSet \/ c.valSet
    <3>1. h = [hpet EXCEPT !.level = c.level, !.intEnb = c.intEnb,
                           !.periodic = c.periodic, !.valSet = valSet]
      BY <1>5 DEF StoreT0Config
    <3> HIDE DEF valSet
    <3>2. /\ h.counter = hpet.counter /\ h.cmp = hpet.cmp /\ h.period = hpet.period
          /\ h.periodic = c.periodic /\ h.armed = hpet.armed
          /\ h.status = hpet.status /\ h.edge = hpet.edge /\ h.level = c.level
      BY <3>1 DEF HpetMmio
    <3> QED BY <1>5, <2>1, <3>2 DEF Exact
  <2>2. CASE ~(c.level = hpet.level /\ c.periodic = hpet.periodic)
    BY <1>3, <1>5, <2>2
  <2> QED BY <2>1, <2>2
<1>6. ASSUME NEW v \in HpetStores, h = StoreComparator(hpet, v), u = DueFrom(due, hpet, v)
      PROVE  Exact(h, u)
  <2> DEFINE sets == hpet.periodic /\ (hpet.valSet \/ hpet.period = 0)
             period == IF sets THEN AtLeastOne(v) ELSE hpet.period
             valSet == hpet.valSet /\ ~hpet.periodic
             left == Distance(hpet.counter, v)
             rung == due.left # Unknown /\ due.rung
  <2>1. v \in HpetValue
    BY TimersAssumption
  <2>2. h = [hpet EXCEPT !.cmp = v, !.armed = TRUE, !.period = period, !.valSet = valSet]
    BY <1>6 DEF StoreComparator
  <2>3. hpet.periodic => period # 0
    BY <1>1, <2>1 DEF AtLeastOne
  <2>4. left \in 1 .. HpetSize
    BY <1>1, <2>1, DistanceTyped DEF HpetFields
  <2>5. \/ due.left = Unknown /\ (hpet.status \/ hpet.edge) /\ u = due
        \/ /\ ~(due.left = Unknown /\ (hpet.status \/ hpet.edge))
           /\ u = [left |-> left, rung |-> rung]
    BY <1>6 DEF DueFrom
  <2> HIDE DEF period, valSet
  <2>6. /\ h.counter = hpet.counter /\ h.cmp = v /\ h.period = period
        /\ h.periodic = hpet.periodic /\ h.armed = TRUE
        /\ h.status = hpet.status /\ h.edge = hpet.edge /\ h.level = hpet.level
    BY <2>2 DEF HpetMmio
  <2>7. CASE due.left = Unknown /\ (hpet.status \/ hpet.edge)
    <3>1. u.left = Unknown
      BY <2>5, <2>7
    <3> QED BY <1>2, <3>1 DEF Exact, Unknown, Never
  <2>8. CASE ~(due.left = Unknown /\ (hpet.status \/ hpet.edge))
    <3>1. (hpet.status <=> rung) /\ (~hpet.level => (hpet.edge <=> rung))
      <4>1. CASE due.left = Unknown
        BY <2>8, <4>1
      <4>2. CASE due.left # Unknown
        BY <4>2 DEF Exact
      <4> QED BY <4>1, <4>2
    <3>2. u.left = left /\ u.rung = rung
      BY <2>5, <2>8
    <3> HIDE DEF rung
    <3>3. left = Distance(h.counter, h.cmp)
      BY <2>6
    <3> HIDE DEF left
    <3> QED BY <1>2, <2>3, <2>4, <2>6, <3>1, <3>2, <3>3 DEF Exact, Never
  <2> QED BY <2>7, <2>8
<1>7. ASSUME h = ClearStatus(hpet), u = [due EXCEPT !.rung = FALSE]
      PROVE  Exact(h, u)
  <2>1. /\ h.counter = hpet.counter /\ h.cmp = hpet.cmp /\ h.period = hpet.period
        /\ h.periodic = hpet.periodic /\ h.armed = hpet.armed
        /\ h.status = FALSE /\ h.edge = FALSE /\ h.level = hpet.level
    BY <1>7 DEF ClearStatus, HpetMmio
  <2>2. u.left = due.left /\ u.rung = FALSE
    BY <1>7 DEF Due
  <2> QED BY <2>1, <2>2 DEF Exact
<1> QED BY <1>3, <1>4, <1>5, <1>6, <1>7 DEF Stored

Punctual == Exact(hpet, due) /\ ("hpet" \notin guest.does => ~hpet.enable)

LEMMA FreerunPunctual ==
  ASSUME NEW h \in HpetMmio, NEW u \in Due, Exact(h, u), NEW ticks \in Nat,
         "hpet" \in guest.does => ticks \in HpetValue,
         "hpet" \notin guest.does => ~h.enable,
         Freerun(h, u, ticks), guest' = guest
  PROVE  Punctual'
<1>1. hpet' = AdvanceMainCounter(h, ticks) /\ due' = DueAfter(u, h, ticks)
  BY DEF Freerun
<1>2. CASE "hpet" \in guest.does
  <2>1. Exact(hpet', due')
    BY <1>1, <1>2, FreerunExact
  <2> QED BY <1>2, <2>1 DEF Punctual, Exact
<1>3. CASE "hpet" \notin guest.does
  <2>1. hpet' = h /\ due' = u
    BY <1>1, <1>3 DEF AdvanceMainCounter, DueAfter
  <2>2. Exact(hpet', due')
    BY <2>1
  <2> QED BY <1>3, <2>1, <2>2 DEF Punctual, Exact
<1> QED BY <1>2, <1>3

LEMMA PowerPunctual ==
  ASSUME guest' = guest, hpet' = ResetHpet, due' = [NotDue EXCEPT !.left = HpetSize]
  PROVE  Punctual'
<1>1. HpetSize \in Nat /\ HpetSize >= 2 /\ 0 \in HpetValue
  BY SizeFacts DEF HpetValue
<1>2. Distance(0, 0) = HpetSize
  BY DEF Distance
<1>3. /\ hpet'.counter = 0 /\ hpet'.cmp = 0 /\ hpet'.armed = TRUE
      /\ hpet'.status = FALSE /\ hpet'.edge = FALSE /\ hpet'.periodic = FALSE
      /\ hpet'.enable = FALSE
  BY DEF ResetHpet
<1>4. due'.left = HpetSize /\ due'.rung = FALSE
  BY DEF NotDue
<1>5. Exact(hpet', due')
  BY <1>1, <1>2, <1>3, <1>4 DEF Exact, Never
<1> QED BY <1>3, <1>5 DEF Punctual, Exact

LEMMA JumpsShort ==
  ASSUME guest \in TimerGuests, "hpet" \in guest.does
  PROVE  /\ guest.ratio * HpetClocks \in HpetValue
         /\ "host" \in guest.does =>
              \A n \in 0 .. HostClocks : n * HpetClocks \in HpetValue
<1>1. HpetSize \in Nat /\ HpetClocks \in Nat \ {0}
  BY SizeFacts, HpetAssumption
<1>2. guest.ratio * HpetClocks \in HpetValue
  <2>1. guest.ratio * HpetClocks \in Nat
    BY <1>1, GuestFacts
  <2>2. guest.ratio * HpetClocks < HpetSize
    BY TimersAssumption
  <2> DEFINE x == guest.ratio * HpetClocks
  <2> HIDE DEF x
  <2>3. x \in Nat /\ x < HpetSize
    BY <2>1, <2>2 DEF x
  <2>4. x \in HpetValue
    BY <1>1, <2>3 DEF HpetValue
  <2> QED BY <2>4 DEF x
<1>3. ASSUME "host" \in guest.does, NEW n \in 0 .. HostClocks
      PROVE  n * HpetClocks \in HpetValue
  <2>1. 3 * HpetClocks < HpetSize
    BY <1>3, TimersAssumption DEF HostClocks
  <2>2. n = 0 \/ n = 1 \/ n = 2 \/ n = 3
    BY <1>3 DEF HostClocks
  <2>3. n * HpetClocks \in {0, HpetClocks, 2 * HpetClocks, 3 * HpetClocks}
    BY <1>1, <2>2
  <2> QED BY <1>1, <2>1, <2>3 DEF HpetValue
<1> QED BY <1>2, <1>3

LEMMA PunctualStep ==
  ASSUME TimersInv, Punctual, TimersNext
  PROVE  Punctual'
<1>1. guest \in TimerGuests /\ hpet \in HpetMmio /\ due \in Due
  BY DEF TimersInv, TimersTypeOK, Due
<1>2. CASE TimersStep
  <2>1. PICK p, r, d, m, rd, ord, h, u : Parts(p, r, d, m, rd, ord, h, u)
    BY <1>2, StepParts DEF TimersInv, Counted, StepHasParts
  <2>2. HpetPart(h, u) /\ Freerun(h, u, guest.ratio * HpetClocks) /\ guest' = guest
    BY <2>1 DEF Parts, ClockedStep
  <2>3. h \in HpetMmio /\ u \in Due
    BY <1>1, <2>2, HpetPartTyped
  <2>4. Exact(h, u) /\ ("hpet" \notin guest.does => ~h.enable)
    <3>1. CASE h = hpet /\ u = due
      BY <3>1 DEF Punctual
    <3>2. CASE "hpet" \in guest.does /\ Stored(h, u)
      BY <1>1, <3>2, StoreExact DEF Punctual
    <3> QED BY <2>2, <3>1, <3>2 DEF HpetPart
  <2>5. guest.ratio * HpetClocks \in Nat
    BY <1>1, GuestFacts, HpetAssumption
  <2>6. "hpet" \in guest.does => guest.ratio * HpetClocks \in HpetValue
    BY <1>1, JumpsShort
  <2> QED BY <2>2, <2>3, <2>4, <2>5, <2>6, FreerunPunctual
<1>3. CASE HostTick
  <2>1. PICK n \in (IF guest.modes = {} THEN {0} ELSE 0 .. HostClocks) :
          Freerun(hpet, due, n * HpetClocks)
    BY <1>3 DEF HostTick
  <2>2. guest' = guest /\ "host" \in guest.does
    BY <1>3 DEF HostTick
  <2>3. n \in 0 .. HostClocks
    BY DEF HostClocks
  <2>4. n * HpetClocks \in Nat
    BY <2>3, HpetAssumption DEF HostClocks
  <2>5. "hpet" \in guest.does => n * HpetClocks \in HpetValue
    BY <1>1, <2>2, <2>3, JumpsShort
  <2> QED BY <1>1, <2>1, <2>2, <2>4, <2>5, FreerunPunctual DEF Punctual
<1>4. CASE AdvanceHpet
  <2>1. PICK delta \in HpetAdvances : Freerun(hpet, due, delta)
    BY <1>4 DEF AdvanceHpet
  <2>2. guest' = guest /\ delta \in HpetValue /\ delta \in Nat
    BY <1>4, SizeFacts, TimersAssumption DEF AdvanceHpet, HpetValue
  <2> QED BY <1>1, <2>1, <2>2, FreerunPunctual DEF Punctual
<1>5. CASE HostError
  BY <1>5 DEF HostError, Punctual, Exact
<1>6. CASE MachineReset
  <2>1. guest' = guest /\ hpet' = ResetHpet /\ due' = [NotDue EXCEPT !.left = HpetSize]
    BY <1>6 DEF MachineReset, PowerOn
  <2> QED BY <2>1, PowerPunctual
<1> QED BY <1>2, <1>3, <1>4, <1>5, <1>6 DEF TimersNext

(* The HPET's event comes on the tick that reaches the comparator, once per *)
(* period, in jumps of any length below a lap of the counter and over its   *)
(* wrap, whatever the size of the counter and the clock ratio.              *)
THEOREM TimersHpetOnTime == TimersSpec => []HpetOnTime
<1>1. TimersInit => Punctual
  <2> SUFFICES ASSUME TimersInit
               PROVE  Punctual
    OBVIOUS
  <2>1. hpet = ResetHpet /\ due = [NotDue EXCEPT !.left = HpetSize]
    BY DEF TimersInit, PowerOn
  <2>2. HpetSize \in Nat /\ HpetSize >= 2 /\ 0 \in HpetValue
    BY SizeFacts DEF HpetValue
  <2>3. Distance(0, 0) = HpetSize
    BY DEF Distance
  <2>4. /\ hpet.counter = 0 /\ hpet.cmp = 0 /\ hpet.armed = TRUE
        /\ hpet.status = FALSE /\ hpet.edge = FALSE /\ hpet.periodic = FALSE
        /\ hpet.enable = FALSE
    BY <2>1 DEF ResetHpet
  <2>5. due.left = HpetSize /\ due.rung = FALSE
    BY <2>1 DEF NotDue
  <2> QED BY <2>2, <2>3, <2>4, <2>5 DEF Exact, Punctual, Never
<1>2. ASSUME TimersInv, Punctual, [TimersNext]_timerVars
      PROVE  Punctual'
  <2>1. CASE TimersNext
    BY <1>2, <2>1, PunctualStep
  <2>2. CASE UNCHANGED timerVars
    BY <1>2, <2>2 DEF timerVars, Punctual, Exact
  <2> QED BY <1>2, <2>1, <2>2
<1>3. TimersInv /\ Punctual => HpetOnTime
  <2> SUFFICES ASSUME TimersInv, Punctual, due.left # Unknown
               PROVE  /\ hpet.status = due.rung
                      /\ IrqLine(hpet) = (hpet.enable /\ hpet.intEnb /\ due.rung)
    BY DEF HpetOnTime
  <2>1. hpet \in HpetMmio /\ due \in Due
    BY DEF TimersInv, TimersTypeOK, Due
  <2>2. HpetFields(hpet) /\ due.rung \in BOOLEAN
    BY <2>1, HpetPieces DEF Due
  <2>3. (hpet.status <=> due.rung) /\ (~hpet.level => (hpet.edge <=> due.rung))
    BY DEF Punctual, Exact
  <2>4. IrqLine(hpet) <=> (hpet.enable /\ hpet.intEnb /\ due.rung)
    BY <2>2, <2>3 DEF IrqLine, HpetFields
  <2>5. IrqLine(hpet) \in BOOLEAN
    BY DEF IrqLine
  <2> QED BY <2>2, <2>3, <2>4, <2>5 DEF HpetFields
<1> QED BY <1>1, <1>2, <1>3, TimersInvHolds, PTL DEF TimersSpec

----------------------------------------------------------------------------
(* A latched count: nothing but a latch, a read and a control word touches  *)
(* it, so that what is read is what was caught.                             *)

SameLatch(b, a) == a.latched = b.latched /\ a.rphase = b.rphase /\ a.access = b.access

LEMMA TickLatch ==
  ASSUME NEW ch
  PROVE  SameLatch(ch, TickOne(ch))
<1>1. SameLatch(ch, ApplyPendingLoad(ch))
  BY DEF ApplyPendingLoad, SameLatch
<1>2. SameLatch(ch, TickCount(ch))
  BY DEF TickCount, SameLatch
<1>3. SameLatch(ch, TickRate(ch))
  BY DEF TickRate, SameLatch
<1>4. SameLatch(ch, TickSquare(ch))
  BY DEF TickSquare, SameLatch
<1>5. SameLatch(ch, TickStrobe(ch))
  BY DEF TickStrobe, SameLatch
<1>6. SameLatch(ch, ch)
  BY DEF SameLatch
<1>7. TickOne(ch) \in {ch, ApplyPendingLoad(ch), TickCount(ch), TickRate(ch),
                       TickSquare(ch), TickStrobe(ch)}
  BY Zenon DEF TickOne
<1> QED BY <1>1, <1>2, <1>3, <1>4, <1>5, <1>6, <1>7

LEMMA GateLatch ==
  ASSUME NEW ch, NEW high
  PROVE  SameLatch(ch, SetGate(ch, high))
<1>1. SameLatch(ch, ch)
  BY DEF SameLatch
<1>2. SameLatch(ch, GateFalls(ch))
  BY DEF GateFalls, SameLatch
<1>3. SameLatch(ch, GateRises(ch))
  <2> DEFINE c == [ch EXCEPT !.gate = TRUE]
             o == [c EXCEPT !.out = TRUE]
             runs == c.counting \/ c.ce > 0 \/ c.pending
  <2>1. /\ SameLatch(ch, c) /\ SameLatch(ch, o)
        /\ SameLatch(ch, ArmGateLoad(c)) /\ SameLatch(ch, ArmGateLoad(o))
        /\ SameLatch(ch, [o EXCEPT !.counting = TRUE])
    BY DEF SameLatch, ArmGateLoad
  <2>2. SameLatch(ch, [c EXCEPT !.counting = runs])
    <3> HIDE DEF runs
    <3> QED BY DEF SameLatch
  <2>3. GateRises(ch) \in
          {c, [c EXCEPT !.counting = runs], ArmGateLoad(c), ArmGateLoad(o),
           [o EXCEPT !.counting = TRUE]}
    BY DEF GateRises
  <2> HIDE DEF c, o, runs
  <2> QED BY <2>1, <2>2, <2>3
<1> QED BY <1>1, <1>2, <1>3 DEF SetGate

LEMMA WriteLatch ==
  ASSUME NEW ch, NEW b
  PROVE  SameLatch(ch, WriteData(ch, b))
<1> DEFINE l == WriteLow(ch, b)
           h == WriteHigh(ch, b)
           runs == Triggered(ch.mode) /\ ch.counting
           stopped == [l EXCEPT !.wphase = "hi", !.loaded = FALSE, !.pending = FALSE,
                                !.counting = runs]
           whole == [h EXCEPT !.null = TRUE]
           last == [h EXCEPT !.wphase = "lo"]
<1>1. SameLatch(ch, l) /\ SameLatch(ch, h)
  BY DEF WriteLow, WriteHigh, SameLatch
<1>2. \A c : SameLatch(ch, c) => SameLatch(ch, ArmCountLoaded(c))
  BY DEF ArmCountLoaded, SameLatch
<1>3. WriteData(ch, b) \in
        {ArmCountLoaded(l), ArmCountLoaded(whole), stopped, ArmCountLoaded(last)}
  BY Zenon DEF WriteData
<1> HIDE DEF l, h, runs
<1>4. SameLatch(ch, stopped) /\ SameLatch(ch, whole) /\ SameLatch(ch, last)
  BY <1>1 DEF SameLatch
<1> HIDE DEF stopped, whole, last
<1> QED BY <1>1, <1>2, <1>3, <1>4

Whole(b, rd) ==
  /\ rd.got[1] = rd.got[2]
  /\ b.latched # NoCount =>
       /\ rd.want = b.latched.count
       /\ rd.low = IF b.access = "lohi" /\ b.rphase = "hi" THEN rd.want % ByteBase ELSE -1

LEMMA WholeFrame ==
  ASSUME NEW b, NEW a, NEW rd, Whole(b, rd), SameLatch(b, a)
  PROVE  Whole(a, rd)
BY DEF Whole, SameLatch

LEMMA WholeReset == Whole(NewChannel(TRUE), NoReading) /\ Whole(NewChannel(FALSE), NoReading)
BY DEF Whole, NoReading, NewChannel

LEMMA WholeControl ==
  ASSUME NEW b, NEW mode, NEW access
  PROVE  Whole(ApplyControl(b, mode, access), NoReading)
<1>1. ApplyControl(b, mode, access).latched = NoCount
  BY DEF ApplyControl, NewChannel
<1> QED BY <1>1 DEF Whole, NoReading

LEMMA WholeLatch ==
  ASSUME NEW b \in PitChannel, NEW rd \in Reading, Whole(b, rd)
  PROVE  Whole(LatchCount(b), ReadingLatched(rd, b))
<1>1. CASE b.latched # NoCount
  BY <1>1 DEF LatchCount, ReadingLatched
<1>2. CASE b.latched = NoCount
  <2> DEFINE snap == LatchSnapshot(b)
             caught == [count |-> snap]
             first == FirstPhase(b.access)
             a == [b EXCEPT !.latched = caught, !.rphase = first]
             e == [NoReading EXCEPT !.want = snap]
  <2>1. LatchCount(b) = a
    BY <1>2 DEF LatchCount
  <2>2. ReadingLatched(rd, b) = e
    BY <1>2 DEF ReadingLatched, LatchSnapshot
  <2>3. ~(b.access = "lohi" /\ first = "hi")
    BY DEF FirstPhase
  <2> HIDE DEF snap, first
  <2>4. caught.count = snap
    OBVIOUS
  <2> HIDE DEF caught
  <2>5. a.latched = caught /\ a.rphase = first /\ a.access = b.access
    BY DEF PitChannel
  <2>6. e.want = snap /\ e.low = -1 /\ e.got = <<-1, -1>>
    BY DEF NoReading
  <2> HIDE DEF a, e
  <2> QED BY <2>1, <2>2, <2>3, <2>4, <2>5, <2>6 DEF Whole
<1> QED BY <1>1, <1>2

LEMMA WholeReadBack ==
  ASSUME NEW b \in PitChannel, NEW rd \in Reading, Whole(b, rd), NEW parts
  PROVE  Whole(ReadBack(b, parts),
               IF "count" \in parts THEN ReadingLatched(rd, b) ELSE rd)
<1> DEFINE s == IF "status" \in parts THEN LatchStatus(b) ELSE b
<1>1. s \in PitChannel
  BY LatchTyped
<1>2. /\ SameLatch(b, s) /\ s.counting = b.counting /\ s.ce = b.ce /\ s.count = b.count
  BY DEF LatchStatus, SameLatch
<1>3. ReadBack(b, parts) = IF "count" \in parts THEN LatchCount(s) ELSE s
  BY DEF ReadBack
<1> HIDE DEF s
<1>4. Whole(s, rd)
  BY <1>2, WholeFrame
<1>5. ReadingLatched(rd, b) = ReadingLatched(rd, s)
  BY <1>2, Zenon DEF ReadingLatched, SameLatch
<1>6. Whole(LatchCount(s), ReadingLatched(rd, s))
  BY <1>1, <1>4, WholeLatch
<1> QED BY <1>3, <1>4, <1>5, <1>6

LEMMA WholeRead ==
  ASSUME NEW b \in PitChannel, NEW rd \in Reading, Whole(b, rd)
  PROVE  Whole(ReadData(b), ReadingRead(rd, b))
<1> DEFINE a == ReadData(b)
           e == ReadingRead(rd, b)
           byte == ReadByte(b)
<1>1. CASE ReadsStatus(b)
  <2>1. e = rd /\ SameLatch(b, a)
    BY <1>1 DEF ReadingRead, ReadData, SameLatch
  <2> HIDE DEF a, e
  <2>2. Whole(a, e)
    BY <2>1, WholeFrame
  <2> QED BY <2>2 DEF a, e
<1>2. CASE ~ReadsStatus(b) /\ b.latched = NoCount
  <2>1. e = rd /\ a.latched = NoCount
    BY <1>2 DEF ReadingRead, ReadData, PitChannel
  <2> QED BY <2>1 DEF Whole
<1>3. CASE ~ReadsStatus(b) /\ b.latched # NoCount
  <2> DEFINE c == b.latched.count
  <2>1. /\ rd.want = c
        /\ rd.low = IF b.access = "lohi" /\ b.rphase = "hi" THEN c % ByteBase ELSE -1
        /\ ReadCount(b) = c
    BY <1>3 DEF Whole, ReadCount
  <2>2. c \in 0 .. FullCount - 1 /\ 0 \in PitByte
    BY <1>3, FullFacts DEF PitChannel, PitByte
  <2> HIDE DEF c
  <2>3. /\ c % ByteBase \in PitByte /\ c \div ByteBase \in PitByte
        /\ (c \div ByteBase) * ByteBase + (c % ByteBase) = c
    BY <2>2, CountBytes
  <2>4. /\ byte = (IF ReadsHigh(b) THEN c \div ByteBase ELSE c % ByteBase)
        /\ b.access \in {"lo", "hi", "lohi"} /\ b.rphase \in {"lo", "hi"}
    BY <2>1 DEF ReadByte, PitChannel, PitAccess
  <2> HIDE DEF byte
  <2>5. CASE b.access = "lo"
    <3>1. byte = c % ByteBase
      BY <2>4, <2>5 DEF ReadsHigh
    <3>2. e = [rd EXCEPT !.got = <<c % ByteBase, byte>>]
      BY <1>3, <2>1, <2>5 DEF ReadingRead, byte
    <3>3. e.got = <<c % ByteBase, byte>>
      BY <3>2 DEF Reading
    <3>4. a.latched = NoCount
      BY <1>3, <2>5 DEF ReadData, PitChannel
    <3> HIDE DEF a, e
    <3>5. Whole(a, e)
      BY <3>1, <3>3, <3>4 DEF Whole
    <3> QED BY <3>5 DEF a, e
  <2>6. CASE b.access = "hi"
    <3>1. byte = c \div ByteBase
      BY <2>4, <2>6 DEF ReadsHigh
    <3>2. e = [rd EXCEPT !.got = <<c \div ByteBase, byte>>]
      BY <1>3, <2>1, <2>6 DEF ReadingRead, byte
    <3>3. e.got = <<c \div ByteBase, byte>>
      BY <3>2 DEF Reading
    <3>4. a.latched = NoCount
      BY <1>3, <2>6 DEF ReadData, PitChannel
    <3> HIDE DEF a, e
    <3>5. Whole(a, e)
      BY <3>1, <3>3, <3>4 DEF Whole
    <3> QED BY <3>5 DEF a, e
  <2>7. CASE b.access = "lohi" /\ b.rphase = "lo"
    <3>1. byte = c % ByteBase
      BY <2>4, <2>7 DEF ReadsHigh
    <3>2. e = [rd EXCEPT !.low = byte]
      BY <1>3, <2>1, <2>7 DEF ReadingRead, byte
    <3>3. e.got = rd.got /\ e.want = rd.want /\ e.low = byte
      BY <3>2 DEF Reading
    <3>4. a = [b EXCEPT !.rphase = "hi"]
      BY <1>3, <2>7 DEF ReadData
    <3>5. a.latched = b.latched /\ a.rphase = "hi" /\ a.access = b.access
      BY <3>4 DEF PitChannel
    <3> HIDE DEF a, e
    <3>6. Whole(a, e)
      BY <1>3, <2>1, <2>7, <3>1, <3>3, <3>5 DEF Whole, c
    <3> QED BY <3>6 DEF a, e
  <2>8. CASE b.access = "lohi" /\ b.rphase = "hi"
    <3>1. byte = c \div ByteBase
      BY <2>4, <2>8 DEF ReadsHigh
    <3>2. rd.low = c % ByteBase /\ rd.low # -1
      BY <2>1, <2>3, <2>8, FullFacts DEF PitByte
    <3>3. e = [rd EXCEPT !.got = <<rd.want, byte * ByteBase + rd.low>>]
      BY <1>3, <2>8, <3>2 DEF ReadingRead, byte
    <3>4. e.got = <<rd.want, byte * ByteBase + rd.low>>
      BY <3>3 DEF Reading
    <3>5. byte * ByteBase + rd.low = rd.want
      BY <2>1, <2>3, <3>1, <3>2, Zenon
    <3>6. a.latched = NoCount
      BY <1>3, <2>8 DEF ReadData, PitChannel
    <3> HIDE DEF a, e
    <3>7. Whole(a, e)
      BY <3>4, <3>5, <3>6 DEF Whole
    <3> QED BY <3>7 DEF a, e
  <2> QED BY <2>4, <2>5, <2>6, <2>7, <2>8
<1> QED BY <1>1, <1>2, <1>3

LEMMA GatedChannel ==
  ASSUME guest \in TimerGuests, pit \in Pit, NEW bits \in SUBSET Port61Bits, NEW clears
  PROVE  LET c == Port61Write(pit, bits, clears).ch[guest.channel]
         IN  c = Channel \/ c = SetGate(Channel, "gate2" \in bits)
<1>1. guest.channel \in 0 .. 2
  BY GuestFacts
<1>2. guest.channel = 0 \/ guest.channel = 1 \/ guest.channel = 2
  BY <1>1
<1> QED BY <1>2, Port61Works DEF Channel

LEMMA PartWhole ==
  ASSUME guest \in TimerGuests, pit \in Pit, reading \in Reading,
         Whole(Channel, reading), NEW p, NEW m, NEW rd, PitPart(p, m, rd)
  PROVE  Whole(p.ch[guest.channel], rd)
<1>1. guest.channel \in 0 .. 2 /\ Channel \in PitChannel
  BY GuestFacts, ChannelTyped DEF Channel
<1>2. \A c \in PitChannel : WithChannel(c).ch[guest.channel] = c
  <2>1. pit.ch \in [0 .. 2 -> PitChannel]
    BY DEF Pit
  <2>2. \A c \in PitChannel : WithChannel(c).ch = [pit.ch EXCEPT ![guest.channel] = c]
    BY DEF Pit, WithChannel
  <2> QED BY <1>1, <2>1, <2>2
<1>3. CASE Untouched(p, m, rd)
  BY <1>3 DEF Untouched, Channel
<1>4. CASE Controlled(p, m, rd)
  <2>1. PICK mode \in guest.modes, access \in guest.accesses :
          /\ p = WithChannel(ApplyControl(Channel, mode, access))
          /\ m = NoMeter /\ rd = NoReading
    BY <1>4 DEF Controlled
  <2>2. ApplyControl(Channel, mode, access) \in PitChannel
    BY <1>1, GuestFacts, ControlTyped
  <2> QED BY <1>2, <2>1, <2>2, WholeControl
<1>5. CASE Written(p, m, rd)
  <2>1. PICK n \in guest.counts :
          LET ch == WriteData(Channel, DataByte(Channel, n))
          IN  p = WithChannel(ch) /\ m = DataMeter(ch) /\ rd = reading
    BY <1>5 DEF Written
  <2> DEFINE ch == WriteData(Channel, DataByte(Channel, n))
  <2>2. DataByte(Channel, n) \in PitByte
    BY GuestFacts, DataByteTyped
  <2>3. ch \in PitChannel /\ SameLatch(Channel, ch)
    BY <1>1, <2>2, WriteTyped, WriteLatch
  <2>4. p = WithChannel(ch) /\ rd = reading
    BY <2>1
  <2> HIDE DEF ch
  <2> QED BY <1>2, <2>3, <2>4, WholeFrame
<1>6. CASE Latches(p, m, rd)
  BY <1>1, <1>2, <1>6, LatchTyped, WholeLatch DEF Latches
<1>7. CASE ReadsBack(p, m, rd)
  <2>1. PICK parts :
          /\ p = ReadBackPit(pit, {guest.channel}, parts)
          /\ rd = IF "count" \in parts THEN ReadingLatched(reading, Channel) ELSE reading
    BY <1>7 DEF ReadsBack
  <2>2. p.ch[guest.channel] = ReadBack(Channel, parts)
    BY <1>1, <2>1, ReadBackPitWorks DEF Channel
  <2> QED BY <1>1, <2>1, <2>2, WholeReadBack
<1>8. CASE Reads(p, m, rd)
  BY <1>1, <1>2, <1>8, ReadDataTyped, WholeRead DEF Reads
<1>9. CASE Gated(p, m, rd)
  <2>1. PICK bits \in {{}, {"gate2"}, {"iochkEn", "parityEn"}},
             clears \in {{}, {"iochk", "parity"}} :
          p = Port61Write(pit, bits, clears) /\ rd = reading
    BY <1>9 DEF Gated
  <2>2. bits \in SUBSET Port61Bits
    BY DEF Port61Bits
  <2>3. \/ p.ch[guest.channel] = Channel
        \/ p.ch[guest.channel] = SetGate(Channel, "gate2" \in bits)
    BY <2>1, <2>2, GatedChannel
  <2> QED BY <2>1, <2>3, GateLatch, WholeFrame
<1> QED BY <1>3, <1>4, <1>5, <1>6, <1>7, <1>8, <1>9 DEF PitPart

(* The clocks of a tick move a channel by TickOne.                          *)
LEMMA ClockedChannel ==
  ASSUME guest \in Guest, NEW s \in TickState
  PROVE  LET e == AfterClock(s, TickPit1(s.pit))
             b == s.pit.ch[guest.channel]
         IN  /\ b \in PitChannel
             /\ e.pit.ch[guest.channel] = TickOne(b)
             /\ e.meter = Measured(s.meter, b, TickOne(b))
<1>1. s.pit \in Pit /\ guest.channel \in 0 .. 2
  BY DEF TickState, Guest
<1>2. TickPit1(s.pit).ch[guest.channel] = TickOne(s.pit.ch[guest.channel])
  BY <1>1, TickPitWorks
<1>3. s.pit.ch[guest.channel] \in PitChannel
  BY <1>1, ChannelTyped
<1> QED BY <1>2, <1>3 DEF AfterClock

LEMMA TickedWhole ==
  ASSUME guest \in Guest, NEW p \in Pit, NEW m \in Meter, NEW n \in Nat, NEW rd,
         Whole(p.ch[guest.channel], rd)
  PROVE  Whole(Ticked(p, m, n).pit.ch[guest.channel], rd)
<1> DEFINE S == {s \in TickState : Whole(s.pit.ch[guest.channel], rd)}
           s0 == [pit |-> p, meter |-> m, rising |-> FALSE]
<1>1. s0 \in S
  <2>1. s0 \in TickState
    BY DEF TickState
  <2>2. s0.pit = p
    OBVIOUS
  <2> HIDE DEF s0
  <2> QED BY <2>1, <2>2
<1>2. \A s \in S : AfterClock(s, TickPit1(s.pit)) \in S
  <2> TAKE s \in S
  <2> DEFINE e == AfterClock(s, TickPit1(s.pit))
             b == s.pit.ch[guest.channel]
  <2>1. s \in TickState /\ Whole(b, rd)
    OBVIOUS
  <2>2. e \in TickState /\ e.pit.ch[guest.channel] = TickOne(b)
    BY <2>1, ClockTyped, ClockedChannel
  <2>3. Whole(TickOne(b), rd)
    BY <2>1, TickLatch, WholeFrame
  <2> HIDE DEF e
  <2> QED BY <2>2, <2>3 DEF e
<1> HIDE DEF S
<1>3. Ticked(p, m, n) \in S
  BY <1>1, <1>2, TickedKeeps
<1> QED BY <1>3 DEF S

WholeNow == Whole(Channel, reading)

LEMMA WholeStep ==
  ASSUME TimersInv, WholeNow, TimersNext
  PROVE  WholeNow'
<1>1. /\ guest \in TimerGuests /\ guest \in Guest /\ guest.ratio \in Nat
      /\ pit \in Pit /\ meter \in Meter /\ reading \in Reading
      /\ Whole(Channel, reading) /\ TimersTypeOK
  BY GuestFacts DEF TimersInv, TimersTypeOK, WholeNow
<1>2. ASSUME Whole(pit'.ch[guest.channel], reading'), guest' = guest
      PROVE  WholeNow'
  BY <1>2 DEF WholeNow, Channel
<1>3. CASE TimersStep
  <2>1. PICK p, r, d, m, rd, ord, h, u : Parts(p, r, d, m, rd, ord, h, u)
    BY <1>3, StepParts DEF TimersInv, Counted, StepHasParts
  <2>2. /\ PitPart(p, m, rd) /\ guest' = guest /\ reading' = rd
        /\ Advance(p, r, d, m, Seen(r), guest.ratio, Periods, Seconds)
    BY <2>1 DEF Parts, ClockedStep, Seen
  <2>3. p \in Pit /\ m \in Meter /\ rd \in Reading
    BY <1>1, <2>2, PitPartTyped
  <2>4. Whole(p.ch[guest.channel], rd)
    BY <1>1, <2>2, PartWhole
  <2>5. pit' = Ticked(p, m, guest.ratio).pit
    BY <1>1, <2>2, <2>3, AdvanceWorks
  <2> QED BY <1>1, <1>2, <2>2, <2>3, <2>4, <2>5, TickedWhole
<1>4. CASE HostTick
  <2>1. PICK n \in (IF guest.modes = {} THEN {0} ELSE 0 .. HostClocks),
             periods \in (IF "rtc" \in guest.does THEN {0, 1} ELSE {0}),
             seconds \in (IF "rtc" \in guest.does THEN {0, 1} ELSE {0}) :
          Advance(pit, rtc, pic, meter, irq, n, periods, seconds)
    BY <1>4 DEF HostTick
  <2>2. guest' = guest /\ reading' = reading /\ n \in Nat
    BY <1>4 DEF HostTick, HostClocks
  <2>3. pit' = Ticked(pit, meter, n).pit
    BY <1>1, <2>1, <2>2, AdvanceWorks
  <2> QED BY <1>1, <1>2, <2>2, <2>3, TickedWhole DEF Channel
<1>5. CASE AdvanceHpet
  BY <1>1, <1>2, <1>5 DEF AdvanceHpet, Channel
<1>6. CASE HostError
  <2>1. guest' = guest /\ reading' = reading
    BY <1>6 DEF HostError
  <2>2. pit'.ch = pit.ch
    BY <1>1, <1>6 DEF HostError, AssertError, Pit
  <2> QED BY <1>1, <1>2, <2>1, <2>2 DEF Channel
<1>7. CASE MachineReset
  <2>1. guest' = guest /\ reading' = NoReading /\ pit' = ResetPit
    BY <1>7 DEF MachineReset, PowerOn
  <2>2. ResetPit.ch[guest.channel] \in {NewChannel(TRUE), NewChannel(FALSE)}
    BY <1>1, GuestFacts DEF ResetPit
  <2> QED BY <1>2, <2>1, <2>2, WholeReset
<1> QED BY <1>3, <1>4, <1>5, <1>6, <1>7 DEF TimersNext

(* Whatever is latched, clocked, written or read as status between a latch  *)
(* and the reads, a latched count is read back as the count it caught, in   *)
(* one byte or in two, for every width of the bytes.                        *)
THEOREM TimersCountReadWhole == TimersSpec => []CountReadWhole
<1>1. TimersInit => WholeNow
  <2> SUFFICES ASSUME TimersInit
               PROVE  WholeNow
    OBVIOUS
  <2>1. reading = NoReading /\ pit = ResetPit /\ guest \in TimerGuests
    BY DEF TimersInit, PowerOn
  <2>2. guest.channel \in 0 .. 2
    BY <2>1, GuestFacts
  <2>3. ResetPit.ch[guest.channel] \in {NewChannel(TRUE), NewChannel(FALSE)}
    BY <2>2 DEF ResetPit
  <2> QED BY <2>1, <2>3, WholeReset DEF WholeNow, Channel
<1>2. ASSUME TimersInv, WholeNow, [TimersNext]_timerVars
      PROVE  WholeNow'
  <2>1. CASE TimersNext
    BY <1>2, <2>1, WholeStep
  <2>2. CASE UNCHANGED timerVars
    BY <1>2, <2>2 DEF timerVars, WholeNow, Channel
  <2> QED BY <1>2, <2>1, <2>2
<1>3. WholeNow => CountReadWhole
  BY DEF WholeNow, Whole, CountReadWhole
<1> QED BY <1>1, <1>2, <1>3, TimersInvHolds, PTL DEF TimersSpec

----------------------------------------------------------------------------
(* The meter: OUT moves when the mode says so.  While a meter is on, the    *)
(* channel waits for its load, counts with the meter beside it, or is done. *)

Armed(b, m) == b.pending /\ m.mark = "arm" /\ m.since = 0 /\ m.low = ~b.out

Finished(b) == /\ ~b.pending /\ ~b.counting /\ ~Periodic(b.mode)
               /\ ~Triggered(b.mode) => b.ce = 0

Down(b, m) == m.since = m.n + 1 - b.ce

CountRuns(b, m) == b.ce \in 1 .. m.n /\ m.mark = "arm" /\ Down(b, m)

OneShotRuns(b, m) ==
  /\ b.ce \in 1 .. m.n /\ ~b.out
  /\ m.since = (IF m.mark = "fall" THEN m.n - b.ce ELSE m.n + 1 - b.ce)

RatePulse(b, m) == b.lowPulse /\ ~b.out /\ b.ce = m.n /\ m.mark = "fall" /\ m.since = 0
RateCounts(b, m) ==
  /\ ~b.lowPulse /\ b.ce \in 1 .. m.n /\ Down(b, m)
  /\ b.out \/ (b.ce = m.n /\ m.mark = "arm" /\ m.low)

(* The square wave: the first half, the second of a wave that began low,    *)
(* and then the low and the high halves in turn.                            *)
FirstHalf(b, m) ==
  /\ m.mark = "arm" /\ b.ce \in 1 .. (m.n + 1) \div 2 /\ b.out = ~m.low
  /\ m.since = 1 + (m.n + 1) \div 2 - b.ce
SecondHalf(b, m) ==
  /\ m.mark = "arm" /\ b.ce \in 1 .. (m.n + 1) \div 2 /\ b.out /\ m.low
  /\ m.since = 1 + 2 * ((m.n + 1) \div 2) - b.ce
LowHalf(b, m) ==
  /\ m.mark = "fall" /\ b.ce \in 1 .. m.n \div 2 /\ ~b.out
  /\ m.since = m.n \div 2 - b.ce
HighHalf(b, m) ==
  /\ m.mark = "fall" /\ b.ce \in 1 .. (m.n + 1) \div 2 /\ b.out
  /\ m.since = m.n - b.ce

StrobePulse(b, m) ==
  /\ b.lowPulse /\ ~b.out /\ b.ce = 0
  /\ m.since = (IF m.mark = "fall" THEN 0 ELSE m.n + 1)
StrobeCounts(b, m) == ~b.lowPulse /\ b.ce \in 1 .. m.n /\ m.mark = "arm" /\ Down(b, m)

Underway(b, m) ==
  /\ ~b.pending /\ b.counting
  /\ b.mode = 0 => CountRuns(b, m)
  /\ b.mode = 1 => OneShotRuns(b, m)
  /\ b.mode = 2 => RatePulse(b, m) \/ RateCounts(b, m)
  /\ b.mode = 3 => FirstHalf(b, m) \/ SecondHalf(b, m) \/ LowHalf(b, m) \/ HighHalf(b, m)
  /\ b.mode \in {4, 5} => StrobePulse(b, m) \/ StrobeCounts(b, m)

Timed(b, m) ==
  m.on =>
    /\ m.n \in 1 .. FullCount
    /\ b.pending \/ ~Triggered(b.mode) => m.n = Reload(b)
    /\ \/ Periodic(b.mode) /\ m.n = 1
       \/ /\ m.facts \subseteq Allowed(b.mode, m.n, m.low)
          /\ Armed(b, m) \/ Underway(b, m) \/ Finished(b)

SameTimer(b, a) ==
  /\ a.mode = b.mode /\ a.count = b.count /\ a.ce = b.ce /\ a.out = b.out
  /\ a.counting = b.counting /\ a.lowPulse = b.lowPulse /\ a.pending = b.pending

LEMMA TimedFrame ==
  ASSUME NEW b, NEW a, NEW m, Timed(b, m), SameTimer(b, a)
  PROVE  Timed(a, m)
<1>1. Reload(a) = Reload(b)
  BY DEF SameTimer, Reload
<1>2. /\ Armed(b, m) => Armed(a, m)
      /\ Finished(b) => Finished(a)
  BY DEF SameTimer, Armed, Finished
<1>3. /\ CountRuns(b, m) => CountRuns(a, m)
      /\ OneShotRuns(b, m) => OneShotRuns(a, m)
      /\ RatePulse(b, m) => RatePulse(a, m)
      /\ RateCounts(b, m) => RateCounts(a, m)
      /\ FirstHalf(b, m) => FirstHalf(a, m)
      /\ SecondHalf(b, m) => SecondHalf(a, m)
      /\ LowHalf(b, m) => LowHalf(a, m)
      /\ HighHalf(b, m) => HighHalf(a, m)
      /\ StrobePulse(b, m) => StrobePulse(a, m)
      /\ StrobeCounts(b, m) => StrobeCounts(a, m)
  BY DEF SameTimer, CountRuns, OneShotRuns, RatePulse, RateCounts, FirstHalf,
         SecondHalf, LowHalf, HighHalf, StrobePulse, StrobeCounts, Down
<1>4. Underway(b, m) => Underway(a, m)
  BY <1>3 DEF SameTimer, Underway
<1> QED BY <1>1, <1>2, <1>4 DEF SameTimer, Timed

(* A meter that is off, or that was just put on at a complete count.        *)
LEMMA TimedOff == \A b : Timed(b, NoMeter)
BY DEF Timed, NoMeter

LEMMA TimedArmed ==
  ASSUME NEW b \in PitChannel, b.pending
  PROVE  Timed(b, MeterArmed(b))
<1> DEFINE m == MeterArmed(b)
<1>1. Reload(b) \in 1 .. FullCount
  BY ReloadTyped
<1>2. /\ m.n = Reload(b) /\ m.facts = {} /\ m.low = ~b.out
      /\ m.mark = "arm" /\ m.since = 0
  BY DEF MeterArmed, NoMeter
<1> HIDE DEF m
<1>3. Armed(b, m)
  BY <1>2 DEF Armed
<1>4. Timed(b, m)
  BY <1>1, <1>2, <1>3 DEF Timed
<1> QED BY <1>4 DEF m

(* What a clock does to a meter that is on and not at its limit.            *)
LEMMA MeasuredWorks ==
  ASSUME NEW m \in Meter, NEW b \in PitChannel, NEW a \in PitChannel,
         m.on, Clocked(b), m.since < MeterCap
  PROVE  LET e == Measured(m, b, a)
         IN  /\ e.on /\ e.low = m.low
             /\ e.n = IF b.pending THEN Reload(b) ELSE m.n
             /\ (~b.out /\ a.out) =>
                  /\ e.mark = m.mark /\ e.since = m.since + 1
                  /\ e.facts = m.facts \cup {Interval(m, "rise")}
             /\ (b.out /\ ~a.out) =>
                  /\ e.mark = "fall" /\ e.since = 0
                  /\ e.facts = m.facts \cup {Interval(m, "fall")}
             /\ (b.out <=> a.out) =>
                  /\ e.mark = m.mark /\ e.since = m.since + 1 /\ e.facts = m.facts
<1> DEFINE n == IF b.pending THEN Reload(b) ELSE m.n
           rise == Interval(m, "rise")
           fall == Interval(m, "fall")
           since == m.since + 1
           up == [m EXCEPT !.n = n, !.since = since, !.facts = @ \cup {rise}]
           down == [m EXCEPT !.n = n, !.mark = "fall", !.since = 0,
                             !.facts = @ \cup {fall}]
           flat == [m EXCEPT !.n = n, !.since = since]
<1>1. /\ m.since \in Nat /\ MeterCap \in Nat
  BY FullFacts DEF Meter
<1>2. ~(~m.on \/ ~Clocked(b) \/ m.since >= MeterCap)
  BY <1>1
<1>3. Measured(m, b, a) = IF Rises(b, a) THEN up ELSE IF Rises(a, b) THEN down ELSE flat
  BY <1>2, Zenon DEF Measured
<1>4. /\ Rises(b, a) <=> (~b.out /\ a.out)
      /\ Rises(a, b) <=> (~a.out /\ b.out)
  BY DEF Rises
<1> HIDE DEF n, rise, fall, since
<1>5. /\ up.on = m.on /\ up.low = m.low /\ up.n = n /\ up.mark = m.mark
      /\ up.since = since /\ up.facts = m.facts \cup {rise}
  BY DEF Meter
<1>6. /\ down.on = m.on /\ down.low = m.low /\ down.n = n /\ down.mark = "fall"
      /\ down.since = 0 /\ down.facts = m.facts \cup {fall}
  BY DEF Meter
<1>7. /\ flat.on = m.on /\ flat.low = m.low /\ flat.n = n /\ flat.mark = m.mark
      /\ flat.since = since /\ flat.facts = m.facts
  BY DEF Meter
<1> HIDE DEF up, down, flat
<1> DEFINE e == Measured(m, b, a)
<1>8. /\ e.on /\ e.low = m.low /\ e.n = n
      /\ (~b.out /\ a.out) =>
           e.mark = m.mark /\ e.since = since /\ e.facts = m.facts \cup {rise}
      /\ (b.out /\ ~a.out) =>
           e.mark = "fall" /\ e.since = 0 /\ e.facts = m.facts \cup {fall}
      /\ (b.out <=> a.out) =>
           e.mark = m.mark /\ e.since = since /\ e.facts = m.facts
  BY <1>3, <1>4, <1>5, <1>6, <1>7
<1> QED BY <1>8 DEF n, rise, fall, since

LEMMA Intervals ==
  ASSUME NEW m \in Meter
  PROVE  /\ m.mark \in {"arm", "fall"}
         /\ m.mark = "arm" => /\ Interval(m, "rise") = <<"rise", m.since + 1>>
                              /\ Interval(m, "fall") = <<"fall", m.since + 1>>
         /\ m.mark = "fall" => /\ Interval(m, "rise") = <<"low", m.since + 1>>
                               /\ Interval(m, "fall") = <<"period", m.since + 1>>
BY DEF Interval, Meter

(* A channel that counts, and what a clock then does to the meter.          *)
Ready(b, m) ==
  /\ m.on /\ Clocked(b) /\ ~(Periodic(b.mode) /\ m.n = 1)
  /\ m.n \in 1 .. FullCount
  /\ b.pending \/ ~Triggered(b.mode) => m.n = Reload(b)
  /\ m.facts \subseteq Allowed(b.mode, m.n, m.low)

Moves(b, m, a, e) ==
  /\ e.low = m.low /\ e.n = m.n
  /\ (~b.out /\ a.out) =>
       /\ e.mark = m.mark /\ e.since = m.since + 1
       /\ e.facts = m.facts \cup {Interval(m, "rise")}
  /\ (b.out /\ ~a.out) =>
       /\ e.mark = "fall" /\ e.since = 0
       /\ e.facts = m.facts \cup {Interval(m, "fall")}
  /\ (b.out <=> a.out) =>
       /\ e.mark = m.mark /\ e.since = m.since + 1 /\ e.facts = m.facts

LEMMA MeterMoves ==
  ASSUME NEW m \in Meter, NEW b \in PitChannel, NEW a \in PitChannel,
         Ready(b, m), m.since < MeterCap
  PROVE  Moves(b, m, a, Measured(m, b, a))
<1> DEFINE e == Measured(m, b, a)
<1>1. /\ e.low = m.low
      /\ e.n = IF b.pending THEN Reload(b) ELSE m.n
      /\ (~b.out /\ a.out) =>
           /\ e.mark = m.mark /\ e.since = m.since + 1
           /\ e.facts = m.facts \cup {Interval(m, "rise")}
      /\ (b.out /\ ~a.out) =>
           /\ e.mark = "fall" /\ e.since = 0
           /\ e.facts = m.facts \cup {Interval(m, "fall")}
      /\ (b.out <=> a.out) =>
           /\ e.mark = m.mark /\ e.since = m.since + 1 /\ e.facts = m.facts
  BY MeasuredWorks DEF Ready
<1> HIDE DEF e
<1>2. e.n = m.n
  BY <1>1 DEF Ready
<1>3. Moves(b, m, a, e)
  BY <1>1, <1>2 DEF Moves
<1> QED BY <1>3 DEF e

Clears(b, a) ==
  /\ a.mode = b.mode /\ a.count = b.count /\ ~a.pending

LEMMA TimedOn ==
  ASSUME NEW b, NEW m, NEW a, NEW e, Ready(b, m), Clears(b, a), e.n = m.n, e.low = m.low,
         e.facts \subseteq Allowed(b.mode, m.n, m.low), Underway(a, e) \/ Finished(a)
  PROVE  Timed(a, e)
<1>1. Reload(a) = Reload(b)
  BY DEF Clears, Reload
<1> QED BY <1>1 DEF Clears, Ready, Timed

(* The load: in mode 1 OUT falls with it.                                   *)
LEMMA LoadTimed ==
  ASSUME NEW b \in PitChannel, NEW m \in Meter, Ready(b, m), Armed(b, m)
  PROVE  Timed(TickOne(b), Measured(m, b, TickOne(b)))
<1> DEFINE a == TickOne(b)
           e == Measured(m, b, a)
           out == b.out /\ b.mode # 1
           ce == IF b.mode = 3 THEN HighClks(b) ELSE Reload(b)
<1>1. a = ApplyPendingLoad(b)
  BY DEF TickOne, Ready, Armed
<1>2. ApplyPendingLoad(b) =
        [b EXCEPT !.pending = FALSE, !.null = FALSE, !.lowPulse = FALSE,
                  !.ce = ce, !.out = out]
  BY DEF ApplyPendingLoad
<1>3. m.since < MeterCap
  BY FullFacts DEF Armed
<1>4. a \in PitChannel
  BY TickTyped
<1>5. Moves(b, m, a, e)
  BY <1>3, <1>4, MeterMoves
<1>6. out <=> (b.out /\ b.mode # 1)
  OBVIOUS
<1>7. ce = IF b.mode = 3 THEN HighClks(b) ELSE Reload(b)
  OBVIOUS
<1> HIDE DEF out, ce
<1>8. /\ a.pending = FALSE /\ a.lowPulse = FALSE /\ a.ce = ce /\ a.out = out
      /\ a.mode = b.mode /\ a.count = b.count /\ a.counting = b.counting
  BY <1>1, <1>2 DEF PitChannel
<1> HIDE DEF a, e
<1> DEFINE n == m.n
           high == HighClks(b)
<1>9. /\ n \in Nat /\ n >= 1 /\ n = Reload(b) /\ b.counting
      /\ high = (n + 1) \div 2
  BY FullFacts DEF Ready, Armed, Clocked, HighClks
<1>10. high \in Nat /\ high >= 1
  BY <1>9, ReloadTyped
<1>11. m.mark = "arm" /\ m.since = 0 /\ m.low = ~b.out
  BY DEF Armed
<1>12. b.mode \in 0 .. 5 /\ b.out \in BOOLEAN /\ a.out \in BOOLEAN
  BY <1>4 DEF PitChannel, PitModes
<1>13. Clears(b, a) /\ e.n = n /\ e.low = m.low
  BY <1>5, <1>8 DEF Clears, Moves
<1>14. CASE b.mode = 1 /\ b.out
  <2>1. /\ e.mark = "fall" /\ e.since = 0
        /\ e.facts = m.facts \cup {<<"fall", 1>>}
    BY <1>5, <1>6, <1>8, <1>11, <1>14, Intervals DEF Moves
  <2>2. <<"fall", 1>> \in Allowed(1, n, m.low)
    BY DEF Allowed
  <2>3. e.facts \subseteq Allowed(b.mode, n, m.low)
    BY <1>14, <2>1, <2>2 DEF Ready
  <2>4. OneShotRuns(a, e)
    BY <1>6, <1>7, <1>8, <1>9, <1>13, <1>14, <2>1 DEF OneShotRuns
  <2>5. Underway(a, e)
    BY <1>8, <1>9, <1>14, <2>4 DEF Underway
  <2> QED BY <1>13, <2>3, <2>5, TimedOn DEF a, e
<1>15. CASE ~(b.mode = 1 /\ b.out)
  <2>1. a.out <=> b.out
    BY <1>6, <1>8, <1>15
  <2>2. e.mark = "arm" /\ e.since = 1 /\ e.facts = m.facts
    BY <1>5, <1>11, <2>1 DEF Moves
  <2>3. e.facts \subseteq Allowed(b.mode, n, m.low)
    BY <2>2 DEF Ready
  <2>4. b.mode # 3 => a.ce = n /\ e.since = e.n + 1 - a.ce /\ a.ce \in 1 .. e.n
    BY <1>7, <1>8, <1>9, <1>13, <2>2
  <2>5. b.mode = 0 => CountRuns(a, e)
    BY <2>2, <2>4 DEF CountRuns, Down
  <2>6. b.mode = 1 => OneShotRuns(a, e)
    BY <1>15, <2>1, <2>2, <2>4 DEF OneShotRuns
  <2>a. e.low <=> ~a.out
    BY <1>11, <1>13, <2>1
  <2>7. b.mode = 2 => RateCounts(a, e)
    <3>1. b.mode = 2 => a.ce = e.n /\ ~a.lowPulse /\ e.mark = "arm" /\ Down(a, e)
      BY <1>8, <1>13, <2>2, <2>4 DEF Down
    <3> QED BY <2>4, <2>a, <3>1 DEF RateCounts
  <2>8. b.mode = 3 => FirstHalf(a, e)
    <3>2. a.out = ~e.low
      BY <1>11, <1>12, <1>13, <2>a
    <3>3. b.mode = 3 => a.ce = high /\ a.ce \in 1 .. high
      BY <1>7, <1>8, <1>10
    <3> HIDE DEF high
    <3> QED BY <1>9, <1>10, <1>13, <2>2, <3>2, <3>3 DEF FirstHalf
  <2>9. b.mode \in {4, 5} => StrobeCounts(a, e)
    BY <1>8, <2>2, <2>4 DEF StrobeCounts, Down
  <2>10. Underway(a, e)
    BY <1>8, <1>9, <2>5, <2>6, <2>7, <2>8, <2>9 DEF Underway
  <2> QED BY <1>13, <2>3, <2>10, TimedOn DEF a, e
<1> QED BY <1>14, <1>15

(* Mode 0: OUT rises when the count runs out.                               *)
LEMMA CountTimed ==
  ASSUME NEW b \in PitChannel, NEW m \in Meter, Ready(b, m), Underway(b, m), b.mode = 0
  PROVE  Timed(TickOne(b), Measured(m, b, TickOne(b)))
<1> DEFINE a == TickOne(b)
           e == Measured(m, b, a)
           n == m.n
           less == b.ce - 1
<1>1. b.ce \in 1 .. n /\ m.mark = "arm" /\ m.since = n + 1 - b.ce
  BY DEF Underway, CountRuns, Down
<1>2. n \in 1 .. FullCount
  BY DEF Ready
<1>3. m.since < MeterCap
  BY <1>1, <1>2, FullFacts
<1>4. a \in PitChannel
  BY TickTyped
<1>5. Moves(b, m, a, e)
  BY <1>3, <1>4, MeterMoves
<1>6. a = IF b.ce <= 1 THEN [b EXCEPT !.ce = 0, !.out = TRUE, !.counting = FALSE]
          ELSE [b EXCEPT !.ce = less]
  BY DEF TickOne, TickCount, Ready, Underway
<1>7. less = b.ce - 1
  OBVIOUS
<1> HIDE DEF less
<1>8. /\ a.mode = 0 /\ a.count = b.count /\ a.pending = b.pending
      /\ b.ce <= 1 => a.ce = 0 /\ a.out = TRUE /\ a.counting = FALSE
      /\ ~(b.ce <= 1) => a.ce = less /\ a.out = b.out /\ a.counting = b.counting
  BY <1>6 DEF PitChannel
<1> HIDE DEF a, e
<1>9. Clears(b, a) /\ e.n = n /\ e.low = m.low
  BY <1>5, <1>8 DEF Clears, Moves, Underway
<1>10. CASE b.ce <= 1
  <2>1. b.ce = 1 /\ m.since + 1 = n + 1
    BY <1>1, <1>2, <1>10, FullFacts
  <2>2. e.facts \subseteq m.facts \cup {<<"rise", n + 1>>}
    <3>1. CASE b.out
      BY <1>5, <1>8, <1>10, <3>1 DEF Moves
    <3>2. CASE ~b.out
      <4>1. e.facts = m.facts \cup {Interval(m, "rise")}
        BY <1>5, <1>8, <1>10, <3>2 DEF Moves
      <4>2. Interval(m, "rise") = <<"rise", n + 1>>
        BY <1>1, <2>1, Intervals
      <4> QED BY <4>1, <4>2
    <3> QED BY <3>1, <3>2
  <2>3. <<"rise", n + 1>> \in Allowed(0, n, m.low)
    BY DEF Allowed
  <2>4. e.facts \subseteq Allowed(b.mode, n, m.low)
    BY <2>2, <2>3 DEF Ready
  <2>5. Finished(a)
    BY <1>8, <1>10 DEF Finished, Underway, Periodic
  <2> QED BY <1>9, <2>4, <2>5, TimedOn DEF a, e
<1>11. CASE ~(b.ce <= 1)
  <2>1. e.mark = "arm" /\ e.since = m.since + 1 /\ e.facts = m.facts
    BY <1>1, <1>5, <1>8, <1>11 DEF Moves
  <2>2. a.ce \in 1 .. n /\ e.since = n + 1 - a.ce
    BY <1>1, <1>2, <1>7, <1>8, <1>11, <2>1, FullFacts
  <2>3. CountRuns(a, e)
    BY <1>9, <2>1, <2>2 DEF CountRuns, Down
  <2>4. a.counting /\ ~a.pending /\ a.mode = 0
    BY <1>8, <1>9, <1>11 DEF Underway, Clears
  <2>5. Underway(a, e)
    BY <2>3, <2>4 DEF Underway
  <2> QED BY <1>9, <2>1, <2>5, TimedOn DEF a, e, Ready
<1> QED BY <1>10, <1>11

(* The interval that a clock adds, if OUT moves, is one that is allowed.    *)
LEMMA Edges ==
  ASSUME NEW m \in Meter, NEW b, NEW a, NEW e, Ready(b, m), Moves(b, m, a, e)
  PROVE  LET allowed == Allowed(b.mode, m.n, m.low)
         IN  /\ (b.out <=> a.out) => e.facts \subseteq allowed
             /\ (~b.out /\ a.out /\ m.mark = "arm" /\ <<"rise", m.since + 1>> \in allowed)
                  => e.facts \subseteq allowed
             /\ (~b.out /\ a.out /\ m.mark = "fall" /\ <<"low", m.since + 1>> \in allowed)
                  => e.facts \subseteq allowed
             /\ (b.out /\ ~a.out /\ m.mark = "arm" /\ <<"fall", m.since + 1>> \in allowed)
                  => e.facts \subseteq allowed
             /\ (b.out /\ ~a.out /\ m.mark = "fall" /\ <<"period", m.since + 1>> \in allowed)
                  => e.facts \subseteq allowed
<1> DEFINE allowed == Allowed(b.mode, m.n, m.low)
           next == m.since + 1
<1>1. m.facts \subseteq allowed
  BY DEF Ready
<1>2. /\ (b.out <=> a.out) => e.facts = m.facts
      /\ (~b.out /\ a.out) => e.facts = m.facts \cup {Interval(m, "rise")}
      /\ (b.out /\ ~a.out) => e.facts = m.facts \cup {Interval(m, "fall")}
  BY DEF Moves
<1>3. /\ m.mark = "arm" => /\ Interval(m, "rise") = <<"rise", next>>
                           /\ Interval(m, "fall") = <<"fall", next>>
      /\ m.mark = "fall" => /\ Interval(m, "rise") = <<"low", next>>
                            /\ Interval(m, "fall") = <<"period", next>>
  BY Intervals
<1> HIDE DEF allowed, next
<1>4. /\ (b.out <=> a.out) => e.facts \subseteq allowed
      /\ (~b.out /\ a.out /\ m.mark = "arm" /\ <<"rise", next>> \in allowed)
           => e.facts \subseteq allowed
      /\ (~b.out /\ a.out /\ m.mark = "fall" /\ <<"low", next>> \in allowed)
           => e.facts \subseteq allowed
      /\ (b.out /\ ~a.out /\ m.mark = "arm" /\ <<"fall", next>> \in allowed)
           => e.facts \subseteq allowed
      /\ (b.out /\ ~a.out /\ m.mark = "fall" /\ <<"period", next>> \in allowed)
           => e.facts \subseteq allowed
  BY <1>1, <1>2, <1>3
<1> QED BY <1>4 DEF allowed, next

(* Mode 1: the pulse is as long as the count.                               *)
LEMMA OneShotTimed ==
  ASSUME NEW b \in PitChannel, NEW m \in Meter, Ready(b, m), Underway(b, m), b.mode = 1
  PROVE  Timed(TickOne(b), Measured(m, b, TickOne(b)))
<1> DEFINE a == TickOne(b)
           e == Measured(m, b, a)
           n == m.n
           less == b.ce - 1
<1>1. /\ b.ce \in 1 .. n /\ ~b.out
      /\ m.since = (IF m.mark = "fall" THEN n - b.ce ELSE n + 1 - b.ce)
  BY DEF Underway, OneShotRuns
<1>2. n \in 1 .. FullCount /\ m.mark \in {"arm", "fall"}
  BY Intervals DEF Ready
<1>3. m.since < MeterCap
  BY <1>1, <1>2, FullFacts
<1>4. a \in PitChannel
  BY TickTyped
<1>5. Moves(b, m, a, e)
  BY <1>3, <1>4, MeterMoves
<1>6. a = IF b.ce <= 1 THEN [b EXCEPT !.ce = 0, !.out = TRUE, !.counting = FALSE]
          ELSE [b EXCEPT !.ce = less]
  BY DEF TickOne, TickCount, Ready, Underway
<1>7. less = b.ce - 1
  OBVIOUS
<1> HIDE DEF less
<1>8. /\ a.mode = 1 /\ a.count = b.count /\ a.pending = b.pending
      /\ b.ce <= 1 => a.ce = 0 /\ a.out = TRUE /\ a.counting = FALSE
      /\ ~(b.ce <= 1) => a.ce = less /\ a.out = b.out /\ a.counting = b.counting
  BY <1>6 DEF PitChannel
<1> HIDE DEF a, e
<1>9. Clears(b, a) /\ e.n = n /\ e.low = m.low
  BY <1>5, <1>8 DEF Clears, Moves, Underway
<1>10. CASE b.ce <= 1
  <2>1. /\ m.mark = "fall" => m.since + 1 = n
        /\ m.mark = "arm" => m.since + 1 = n + 1
    BY <1>1, <1>2, <1>10, FullFacts
  <2>2. <<"rise", n + 1>> \in Allowed(1, n, m.low) /\ <<"low", n>> \in Allowed(1, n, m.low)
    BY DEF Allowed
  <2>3. ~b.out /\ a.out
    BY <1>1, <1>8, <1>10
  <2>4. e.facts \subseteq Allowed(b.mode, n, m.low)
    BY <1>2, <1>5, <2>1, <2>2, <2>3, Edges
  <2>5. Finished(a)
    BY <1>8, <1>10 DEF Finished, Underway, Periodic, Triggered
  <2> QED BY <1>9, <2>4, <2>5, TimedOn DEF a, e
<1>11. CASE ~(b.ce <= 1)
  <2>1. e.mark = m.mark /\ e.since = m.since + 1 /\ e.facts = m.facts
    BY <1>1, <1>5, <1>8, <1>11 DEF Moves
  <2>2. /\ a.ce \in 1 .. n
        /\ e.since = (IF e.mark = "fall" THEN n - a.ce ELSE n + 1 - a.ce)
    BY <1>1, <1>2, <1>7, <1>8, <1>11, <2>1, FullFacts
  <2>3. OneShotRuns(a, e)
    BY <1>1, <1>8, <1>9, <1>11, <2>2 DEF OneShotRuns
  <2>4. a.counting /\ ~a.pending /\ a.mode = 1
    BY <1>8, <1>9, <1>11 DEF Underway, Clears
  <2>5. Underway(a, e)
    BY <2>3, <2>4 DEF Underway
  <2> QED BY <1>9, <2>1, <2>5, TimedOn DEF a, e, Ready
<1> QED BY <1>10, <1>11

(* Mode 2: a period is a clock longer than the count, the low pulse one.    *)
LEMMA RateTimed ==
  ASSUME NEW b \in PitChannel, NEW m \in Meter, Ready(b, m), Underway(b, m), b.mode = 2
  PROVE  Timed(TickOne(b), Measured(m, b, TickOne(b)))
<1> DEFINE a == TickOne(b)
           e == Measured(m, b, a)
           n == m.n
           less == b.ce - 1
           all == Reload(b)
           allowed == Allowed(b.mode, n, m.low)
<1>1. RatePulse(b, m) \/ RateCounts(b, m)
  BY DEF Underway
<1>2. /\ n \in 1 .. FullCount /\ n # 1 /\ n = all /\ m.mark \in {"arm", "fall"}
  BY Intervals DEF Ready, Triggered, Periodic
<1>3. /\ m.since < MeterCap
  BY <1>1, <1>2, FullFacts DEF RatePulse, RateCounts, Down
<1>4. a \in PitChannel
  BY TickTyped
<1>5. Moves(b, m, a, e)
  BY <1>3, <1>4, MeterMoves
<1>6. a = IF b.lowPulse THEN [b EXCEPT !.out = TRUE, !.lowPulse = FALSE]
          ELSE IF b.ce <= 1 THEN [b EXCEPT !.out = FALSE, !.lowPulse = TRUE, !.ce = all]
          ELSE [b EXCEPT !.out = TRUE, !.ce = less]
  BY DEF TickOne, TickRate, Ready, Underway
<1>7. less = b.ce - 1
  OBVIOUS
<1>a. /\ <<"fall", n + 1>> \in allowed /\ <<"period", n + 1>> \in allowed
      /\ <<"low", 1>> \in allowed
      /\ m.low => <<"rise", 2>> \in allowed
  BY DEF Allowed
<1> HIDE DEF less, all, allowed
<1>8. /\ a.mode = 2 /\ a.count = b.count /\ a.pending = b.pending /\ a.counting = b.counting
      /\ b.lowPulse => a.out = TRUE /\ a.lowPulse = FALSE /\ a.ce = b.ce
      /\ (~b.lowPulse /\ b.ce <= 1) => a.out = FALSE /\ a.lowPulse = TRUE /\ a.ce = all
      /\ (~b.lowPulse /\ ~(b.ce <= 1)) => a.out = TRUE /\ a.lowPulse = b.lowPulse /\ a.ce = less
  <2>1. CASE b.lowPulse
    BY <1>6, <2>1 DEF PitChannel
  <2>2. CASE ~b.lowPulse /\ b.ce <= 1
    BY <1>6, <2>2 DEF PitChannel
  <2>3. CASE ~b.lowPulse /\ ~(b.ce <= 1)
    BY <1>6, <2>3 DEF PitChannel
  <2> QED BY <2>1, <2>2, <2>3
<1> HIDE DEF a, e
<1>9. Clears(b, a) /\ e.n = n /\ e.low = m.low
  BY <1>5, <1>8 DEF Clears, Moves, Underway
<1>10. a.counting /\ ~a.pending /\ a.mode = 2
  BY <1>8, <1>9 DEF Underway, Clears
<1>11. RatePulse(a, e) \/ RateCounts(a, e) => Underway(a, e)
  BY <1>10 DEF Underway
<1>12. CASE RatePulse(b, m)
  <2>1. /\ b.lowPulse /\ ~b.out /\ b.ce = n /\ m.mark = "fall" /\ m.since = 0
    BY <1>12 DEF RatePulse
  <2>2. a.out /\ ~a.lowPulse /\ a.ce = n
    BY <1>8, <2>1
  <2>3. e.since = 1
    BY <1>5, <2>1, <2>2 DEF Moves
  <2>a. m.since + 1 = 1
    BY <2>1
  <2>4. e.facts \subseteq allowed
    BY <1>5, <1>a, <2>1, <2>2, <2>a, Edges DEF allowed
  <2>5. RateCounts(a, e)
    BY <1>2, <1>9, <2>2, <2>3, FullFacts DEF RateCounts, Down
  <2> QED BY <1>9, <1>11, <2>4, <2>5, TimedOn DEF a, e, allowed
<1>13. CASE RateCounts(b, m) /\ b.ce <= 1
  <2>1. /\ ~b.lowPulse /\ b.ce = 1 /\ m.since = n /\ m.since + 1 = n + 1
        /\ b.out
    BY <1>2, <1>13, FullFacts DEF RateCounts, Down
  <2>2. ~a.out /\ a.lowPulse /\ a.ce = n
    BY <1>2, <1>8, <1>13, <2>1
  <2>3. e.mark = "fall" /\ e.since = 0
    BY <1>5, <2>1, <2>2 DEF Moves
  <2>4. e.facts \subseteq allowed
    BY <1>2, <1>5, <1>a, <2>1, <2>2, Edges DEF allowed
  <2>5. RatePulse(a, e)
    BY <1>9, <2>2, <2>3 DEF RatePulse
  <2> QED BY <1>9, <1>11, <2>4, <2>5, TimedOn DEF a, e, allowed
<1>14. CASE RateCounts(b, m) /\ ~(b.ce <= 1)
  <2>1. /\ ~b.lowPulse /\ b.ce \in 1 .. n /\ m.since = n + 1 - b.ce
        /\ b.out \/ (b.ce = n /\ m.mark = "arm" /\ m.low)
    BY <1>14 DEF RateCounts, Down
  <2>2. a.out /\ ~a.lowPulse /\ a.ce = b.ce - 1 /\ a.ce \in 1 .. n
    BY <1>2, <1>7, <1>8, <1>14, <2>1, FullFacts
  <2>3. e.since = m.since + 1
    BY <1>5, <2>2 DEF Moves
  <2>4. e.since = n + 1 - a.ce
    BY <1>2, <2>1, <2>2, <2>3, FullFacts
  <2>5. e.facts \subseteq allowed
    <3>1. CASE b.out
      BY <1>5, <2>2, <3>1, Edges DEF allowed
    <3>2. CASE ~b.out
      <4>1. m.mark = "arm" /\ m.low /\ m.since + 1 = 2
        BY <1>2, <2>1, <3>2, FullFacts
      <4> QED BY <1>5, <1>a, <2>2, <3>2, <4>1, Edges DEF allowed
    <3> QED BY <3>1, <3>2
  <2>6. RateCounts(a, e)
    BY <1>9, <2>2, <2>4 DEF RateCounts, Down
  <2> QED BY <1>9, <1>11, <2>5, <2>6, TimedOn DEF a, e, allowed
<1> QED BY <1>1, <1>12, <1>13, <1>14

(* Mode 3: the halves of the wave, one clock apart at most.                 *)
LEMMA Halves ==
  ASSUME NEW n \in 1 .. FullCount, n # 1
  PROVE  LET high == (n + 1) \div 2
             low == n \div 2
         IN  /\ high \in Nat /\ low \in Nat /\ low >= 1 /\ high >= low
             /\ high + low = n /\ high <= low + 1
BY FullFacts

LEMMA SquareTimed ==
  ASSUME NEW b \in PitChannel, NEW m \in Meter, Ready(b, m), Underway(b, m), b.mode = 3
  PROVE  Timed(TickOne(b), Measured(m, b, TickOne(b)))
<1> DEFINE a == TickOne(b)
           e == Measured(m, b, a)
           n == m.n
           less == b.ce - 1
           high == (n + 1) \div 2
           low == n \div 2
           allowed == Allowed(b.mode, n, m.low)
<1>1. FirstHalf(b, m) \/ SecondHalf(b, m) \/ LowHalf(b, m) \/ HighHalf(b, m)
  BY DEF Underway
<1>2. /\ n \in 1 .. FullCount /\ n # 1 /\ n = Reload(b) /\ m.mark \in {"arm", "fall"}
  BY Intervals DEF Ready, Triggered, Periodic
<1>3. HighClks(b) = high /\ LowClks(b) = low
  BY <1>2 DEF HighClks, LowClks
<1>4. /\ high \in Nat /\ low \in Nat /\ low >= 1 /\ high >= low
      /\ high + low = n /\ high <= low + 1
  BY <1>2, Halves
<1>a. /\ <<"low", low>> \in allowed /\ <<"period", n>> \in allowed
      /\ m.low => <<"rise", 1 + high>> \in allowed /\ <<"fall", 1 + 2 * high>> \in allowed
      /\ ~m.low => <<"fall", 1 + high>> \in allowed
  BY DEF Allowed
<1>b. /\ FirstHalf(b, m) <=>
           /\ m.mark = "arm" /\ b.ce \in 1 .. high /\ b.out = ~m.low
           /\ m.since = 1 + high - b.ce
      /\ SecondHalf(b, m) <=>
           /\ m.mark = "arm" /\ b.ce \in 1 .. high /\ b.out /\ m.low
           /\ m.since = 1 + 2 * high - b.ce
      /\ LowHalf(b, m) <=>
           /\ m.mark = "fall" /\ b.ce \in 1 .. low /\ ~b.out /\ m.since = low - b.ce
      /\ HighHalf(b, m) <=>
           /\ m.mark = "fall" /\ b.ce \in 1 .. high /\ b.out /\ m.since = n - b.ce
  BY DEF FirstHalf, SecondHalf, LowHalf, HighHalf
<1>d. FirstHalf(b, m) => (m.low <=> ~b.out)
  BY Zenon DEF FirstHalf
<1>c. ASSUME e.n = n, e.low = m.low
      PROVE  /\ (/\ e.mark = "arm" /\ a.ce \in 1 .. high /\ a.out = ~m.low
                 /\ e.since = 1 + high - a.ce) => FirstHalf(a, e)
             /\ (/\ e.mark = "arm" /\ a.ce \in 1 .. high /\ a.out /\ m.low
                 /\ e.since = 1 + 2 * high - a.ce) => SecondHalf(a, e)
             /\ (/\ e.mark = "fall" /\ a.ce \in 1 .. low /\ ~a.out
                 /\ e.since = low - a.ce) => LowHalf(a, e)
             /\ (/\ e.mark = "fall" /\ a.ce \in 1 .. high /\ a.out
                 /\ e.since = n - a.ce) => HighHalf(a, e)
  <2> HIDE DEF a, e
  <2> QED BY <1>c DEF FirstHalf, SecondHalf, LowHalf, HighHalf
<1> HIDE DEF high, low, allowed
<1>5. m.since < MeterCap /\ b.ce \in Nat /\ b.ce >= 1
  <2>1. FullCount \in Nat /\ MeterCap = 2 * FullCount + 2 /\ n \in Nat /\ n <= FullCount
    BY <1>2, FullFacts
  <2>2. CASE FirstHalf(b, m)
    BY <1>4, <1>b, <2>1, <2>2
  <2>3. CASE SecondHalf(b, m)
    BY <1>4, <1>b, <2>1, <2>3
  <2>4. CASE LowHalf(b, m)
    BY <1>4, <1>b, <2>1, <2>4
  <2>5. CASE HighHalf(b, m)
    BY <1>4, <1>b, <2>1, <2>5
  <2> QED BY <1>1, <2>2, <2>3, <2>4, <2>5
<1>6. a \in PitChannel
  BY TickTyped
<1>7. Moves(b, m, a, e)
  BY <1>5, <1>6, MeterMoves
<1>8. a = IF b.ce > 1 THEN [b EXCEPT !.ce = less]
          ELSE IF b.out /\ low > 0 THEN [b EXCEPT !.out = FALSE, !.ce = low]
          ELSE [b EXCEPT !.out = TRUE, !.ce = high]
  BY <1>3 DEF TickOne, TickSquare, Ready, Underway
<1>9. less = b.ce - 1 /\ low > 0
  BY <1>4
<1> HIDE DEF less
<1>10. /\ a.mode = 3 /\ a.count = b.count /\ a.pending = b.pending /\ a.counting = b.counting
       /\ b.ce > 1 => a.out = b.out /\ a.ce = less
       /\ (~(b.ce > 1) /\ b.out) => a.out = FALSE /\ a.ce = low
       /\ (~(b.ce > 1) /\ ~b.out) => a.out = TRUE /\ a.ce = high
  BY <1>8, <1>9 DEF PitChannel
<1> HIDE DEF a, e
<1>11. Clears(b, a) /\ e.n = n /\ e.low = m.low
  BY <1>7, <1>10 DEF Clears, Moves, Underway
<1>12. a.counting /\ ~a.pending /\ a.mode = 3
  BY <1>10, <1>11 DEF Underway, Clears
<1>13. FirstHalf(a, e) \/ SecondHalf(a, e) \/ LowHalf(a, e) \/ HighHalf(a, e)
         => Underway(a, e)
  BY <1>12 DEF Underway
<1>14. CASE b.ce > 1
  <2>1. a.out = b.out /\ a.ce = b.ce - 1
    BY <1>9, <1>10, <1>14
  <2>2. e.mark = m.mark /\ e.since = m.since + 1 /\ e.facts = m.facts
    BY <1>7, <2>1 DEF Moves
  <2>a. e.facts \subseteq allowed
    BY <2>2 DEF Ready, allowed
  <2>3. CASE FirstHalf(b, m)
    <3>1. a.ce \in 1 .. high /\ e.since = 1 + high - a.ce
      BY <1>4, <1>14, <1>b, <2>1, <2>2, <2>3
    <3>2. FirstHalf(a, e)
      BY <1>b, <1>c, <1>11, <2>1, <2>2, <2>3, <3>1
    <3> QED BY <1>11, <1>13, <2>a, <3>2, TimedOn DEF a, e, allowed
  <2>4. CASE SecondHalf(b, m)
    <3>1. a.ce \in 1 .. high /\ e.since = 1 + 2 * high - a.ce
      BY <1>4, <1>14, <1>b, <2>1, <2>2, <2>4
    <3>2. SecondHalf(a, e)
      BY <1>b, <1>c, <1>11, <2>1, <2>2, <2>4, <3>1
    <3> QED BY <1>11, <1>13, <2>a, <3>2, TimedOn DEF a, e, allowed
  <2>5. CASE LowHalf(b, m)
    <3>1. a.ce \in 1 .. low /\ e.since = low - a.ce
      BY <1>4, <1>14, <1>b, <2>1, <2>2, <2>5
    <3>2. LowHalf(a, e)
      BY <1>b, <1>c, <1>11, <2>1, <2>2, <2>5, <3>1
    <3> QED BY <1>11, <1>13, <2>a, <3>2, TimedOn DEF a, e, allowed
  <2>6. CASE HighHalf(b, m)
    <3>1. a.ce \in 1 .. high /\ e.since = n - a.ce
      BY <1>2, <1>4, <1>14, <1>b, <2>1, <2>2, <2>6
    <3>2. HighHalf(a, e)
      BY <1>b, <1>c, <1>11, <2>1, <2>2, <2>6, <3>1
    <3> QED BY <1>11, <1>13, <2>a, <3>2, TimedOn DEF a, e, allowed
  <2> QED BY <1>1, <2>3, <2>4, <2>5, <2>6
<1>15. CASE ~(b.ce > 1) /\ b.out
  <2>1. b.ce = 1 /\ ~a.out /\ a.ce = low
    BY <1>5, <1>10, <1>15
  <2>2. e.mark = "fall" /\ e.since = 0
    BY <1>7, <1>15, <2>1 DEF Moves
  <2>3. LowHalf(a, e)
    BY <1>4, <1>c, <1>11, <2>1, <2>2
  <2>4. e.facts \subseteq allowed
    <3>1. CASE FirstHalf(b, m)
      <4>1. m.mark = "arm" /\ ~m.low /\ m.since + 1 = 1 + high
        BY <1>4, <1>15, <1>b, <1>d, <2>1, <3>1
      <4> QED BY <1>7, <1>15, <1>a, <2>1, <4>1, Edges DEF allowed
    <3>2. CASE SecondHalf(b, m)
      <4>1. m.mark = "arm" /\ m.low /\ m.since + 1 = 1 + 2 * high
        BY <1>4, <1>b, <2>1, <3>2
      <4> QED BY <1>7, <1>15, <1>a, <2>1, <4>1, Edges DEF allowed
    <3>3. CASE HighHalf(b, m)
      <4>1. m.mark = "fall" /\ m.since + 1 = n
        BY <1>2, <1>b, <2>1, <3>3
      <4> QED BY <1>7, <1>15, <1>a, <2>1, <4>1, Edges DEF allowed
    <3> QED BY <1>1, <1>15, <1>b, <3>1, <3>2, <3>3
  <2> QED BY <1>11, <1>13, <2>3, <2>4, TimedOn DEF a, e, allowed
<1>16. CASE ~(b.ce > 1) /\ ~b.out
  <2>1. b.ce = 1 /\ a.out /\ a.ce = high
    BY <1>5, <1>10, <1>16
  <2>2. e.mark = m.mark /\ e.since = m.since + 1
    BY <1>7, <1>16, <2>1 DEF Moves
  <2>3. CASE FirstHalf(b, m)
    <3>1. m.mark = "arm" /\ m.low /\ m.since + 1 = 1 + high
      BY <1>4, <1>16, <1>b, <1>d, <2>1, <2>3
    <3>2. e.facts \subseteq allowed
      BY <1>7, <1>16, <1>a, <2>1, <3>1, Edges DEF allowed
    <3>3. SecondHalf(a, e)
      BY <1>4, <1>c, <1>11, <2>1, <2>2, <3>1
    <3> QED BY <1>11, <1>13, <3>2, <3>3, TimedOn DEF a, e, allowed
  <2>4. CASE LowHalf(b, m)
    <3>1. m.mark = "fall" /\ m.since + 1 = low
      BY <1>4, <1>b, <2>1, <2>4
    <3>2. e.facts \subseteq allowed
      BY <1>7, <1>16, <1>a, <2>1, <3>1, Edges DEF allowed
    <3>3. HighHalf(a, e)
      BY <1>2, <1>4, <1>c, <1>11, <2>1, <2>2, <3>1
    <3> QED BY <1>11, <1>13, <3>2, <3>3, TimedOn DEF a, e, allowed
  <2> QED BY <1>1, <1>16, <1>b, <2>3, <2>4
<1> QED BY <1>14, <1>15, <1>16

(* Modes 4 and 5: one low clock, once the count is done.                    *)
LEMMA StrobeTimed ==
  ASSUME NEW b \in PitChannel, NEW m \in Meter, Ready(b, m), Underway(b, m),
         b.mode \in {4, 5}
  PROVE  Timed(TickOne(b), Measured(m, b, TickOne(b)))
<1> DEFINE a == TickOne(b)
           e == Measured(m, b, a)
           n == m.n
           less == b.ce - 1
           allowed == Allowed(b.mode, n, m.low)
<1>1. StrobePulse(b, m) \/ StrobeCounts(b, m)
  BY DEF Underway
<1>2. n \in 1 .. FullCount /\ m.mark \in {"arm", "fall"}
  BY Intervals DEF Ready
<1>3. m.since < MeterCap
  BY <1>1, <1>2, FullFacts DEF StrobePulse, StrobeCounts, Down
<1>4. a \in PitChannel
  BY TickTyped
<1>5. Moves(b, m, a, e)
  BY <1>3, <1>4, MeterMoves
<1>6. a = IF b.lowPulse THEN [b EXCEPT !.out = TRUE, !.lowPulse = FALSE, !.counting = FALSE]
          ELSE IF b.ce <= 1 THEN [b EXCEPT !.ce = 0, !.out = FALSE, !.lowPulse = TRUE]
          ELSE [b EXCEPT !.ce = less]
  BY DEF TickOne, TickStrobe, Ready, Underway
<1>7. less = b.ce - 1
  OBVIOUS
<1>a. /\ <<"fall", n + 1>> \in allowed /\ <<"low", 1>> \in allowed
      /\ <<"rise", n + 2>> \in allowed
  BY DEF Allowed
<1> HIDE DEF less, allowed
<1>8. /\ a.mode = b.mode /\ a.count = b.count /\ a.pending = b.pending
      /\ b.lowPulse => a.out = TRUE /\ a.lowPulse = FALSE /\ a.counting = FALSE /\ a.ce = b.ce
      /\ (~b.lowPulse /\ b.ce <= 1) =>
           a.out = FALSE /\ a.lowPulse = TRUE /\ a.ce = 0 /\ a.counting = b.counting
      /\ (~b.lowPulse /\ ~(b.ce <= 1)) =>
           a.out = b.out /\ a.lowPulse = b.lowPulse /\ a.ce = less /\ a.counting = b.counting
  BY <1>6, ZenonT(60) DEF PitChannel
<1> HIDE DEF a, e
<1>9. Clears(b, a) /\ e.n = n /\ e.low = m.low
  BY <1>5, <1>8 DEF Clears, Moves, Underway
<1>10. ~a.pending /\ a.mode \in {4, 5}
  BY <1>8, <1>9 DEF Clears
<1>11. a.counting /\ (StrobePulse(a, e) \/ StrobeCounts(a, e)) => Underway(a, e)
  BY <1>10 DEF Underway
<1>12. CASE StrobePulse(b, m)
  <2>1. /\ b.lowPulse /\ ~b.out /\ b.ce = 0
        /\ m.since = (IF m.mark = "fall" THEN 0 ELSE n + 1)
    BY <1>12 DEF StrobePulse
  <2>2. a.out /\ ~a.counting /\ a.ce = 0
    BY <1>8, <2>1
  <2>3. /\ m.mark = "fall" => m.since + 1 = 1
        /\ m.mark = "arm" => m.since + 1 = n + 2
    BY <1>2, <2>1, FullFacts
  <2>4. e.facts \subseteq allowed
    BY <1>2, <1>5, <1>a, <2>1, <2>2, <2>3, Edges DEF allowed
  <2>5. Finished(a)
    BY <1>10, <2>2 DEF Finished, Periodic
  <2> QED BY <1>9, <2>4, <2>5, TimedOn DEF a, e, allowed
<1>13. CASE StrobeCounts(b, m) /\ b.ce <= 1
  <2>1. ~b.lowPulse /\ b.ce = 1 /\ m.mark = "arm" /\ m.since = n
    BY <1>2, <1>13, FullFacts DEF StrobeCounts, Down
  <2>2. ~a.out /\ a.lowPulse /\ a.ce = 0 /\ a.counting = b.counting
    BY <1>8, <1>13, <2>1
  <2>3. a.counting
    BY <2>2 DEF Underway
  <2>4. CASE b.out
    <3>1. e.mark = "fall" /\ e.since = 0
      BY <1>5, <2>2, <2>4 DEF Moves
    <3>2. e.facts \subseteq allowed
      BY <1>5, <1>a, <2>1, <2>2, <2>4, Edges DEF allowed
    <3>3. StrobePulse(a, e)
      BY <2>2, <3>1 DEF StrobePulse
    <3> QED BY <1>9, <1>11, <2>3, <3>2, <3>3, TimedOn DEF a, e, allowed
  <2>5. CASE ~b.out
    <3>1. e.mark = "arm" /\ e.since = n + 1
      BY <1>5, <2>1, <2>2, <2>5 DEF Moves
    <3>2. e.facts \subseteq allowed
      BY <1>5, <2>2, <2>5, Edges DEF allowed
    <3>3. StrobePulse(a, e)
      BY <1>9, <2>2, <3>1 DEF StrobePulse
    <3> QED BY <1>9, <1>11, <2>3, <3>2, <3>3, TimedOn DEF a, e, allowed
  <2> QED BY <2>4, <2>5
<1>14. CASE StrobeCounts(b, m) /\ ~(b.ce <= 1)
  <2>1. ~b.lowPulse /\ b.ce \in 1 .. n /\ m.mark = "arm" /\ m.since = n + 1 - b.ce
    BY <1>14 DEF StrobeCounts, Down
  <2>2. a.out = b.out /\ ~a.lowPulse /\ a.ce = b.ce - 1 /\ a.counting = b.counting
    BY <1>7, <1>8, <1>14, <2>1
  <2>3. e.mark = "arm" /\ e.since = m.since + 1
    BY <1>5, <2>1, <2>2 DEF Moves
  <2>4. a.ce \in 1 .. n /\ e.since = n + 1 - a.ce
    BY <1>2, <1>14, <2>1, <2>2, <2>3, FullFacts
  <2>5. e.facts \subseteq allowed
    BY <1>5, <2>2, Edges DEF allowed
  <2>6. StrobeCounts(a, e)
    BY <1>9, <2>2, <2>3, <2>4 DEF StrobeCounts, Down
  <2>7. a.counting
    BY <2>2 DEF Underway
  <2> QED BY <1>9, <1>11, <2>5, <2>6, <2>7, TimedOn DEF a, e, allowed
<1> QED BY <1>1, <1>12, <1>13, <1>14

LEMMA TickProgram ==
  ASSUME NEW ch
  PROVE  TickOne(ch).mode = ch.mode /\ TickOne(ch).count = ch.count
<1>1. /\ ApplyPendingLoad(ch).mode = ch.mode /\ ApplyPendingLoad(ch).count = ch.count
      /\ TickCount(ch).mode = ch.mode /\ TickCount(ch).count = ch.count
      /\ TickRate(ch).mode = ch.mode /\ TickRate(ch).count = ch.count
      /\ TickSquare(ch).mode = ch.mode /\ TickSquare(ch).count = ch.count
      /\ TickStrobe(ch).mode = ch.mode /\ TickStrobe(ch).count = ch.count
  BY DEF ApplyPendingLoad, TickCount, TickRate, TickSquare, TickStrobe
<1>2. TickOne(ch) \in {ch, ApplyPendingLoad(ch), TickCount(ch), TickRate(ch),
                       TickSquare(ch), TickStrobe(ch)}
  BY Zenon DEF TickOne
<1> QED BY <1>1, <1>2

LEMMA MeasuredCount ==
  ASSUME NEW m \in Meter, NEW b, NEW a
  PROVE  LET e == Measured(m, b, a)
         IN  /\ e.on = m.on
             /\ e.n = m.n \/ (b.pending /\ e.n = Reload(b))
<1> DEFINE n == IF b.pending THEN Reload(b) ELSE m.n
           rise == m.facts \cup {Interval(m, "rise")}
           fall == m.facts \cup {Interval(m, "fall")}
           since == m.since + 1
           up == [m EXCEPT !.n = n, !.since = since, !.facts = rise]
           down == [m EXCEPT !.n = n, !.mark = "fall", !.since = 0, !.facts = fall]
           flat == [m EXCEPT !.n = n, !.since = since]
           e == Measured(m, b, a)
<1>1. e \in {m, up, down, flat}
  BY DEF Measured
<1>2. n = m.n \/ (b.pending /\ n = Reload(b))
  OBVIOUS
<1> HIDE DEF n, rise, fall, since, e
<1>3. \A x \in {up, down, flat} : x.on = m.on /\ x.n = n
  BY DEF Meter
<1> HIDE DEF up, down, flat
<1>4. e.on = m.on /\ (e.n = m.n \/ (b.pending /\ e.n = Reload(b)))
  BY <1>1, <1>2, <1>3
<1> QED BY <1>4 DEF e

LEMMA TimedTick ==
  ASSUME NEW b \in PitChannel, NEW m \in Meter, Timed(b, m)
  PROVE  Timed(TickOne(b), Measured(m, b, TickOne(b)))
<1>1. CASE ~m.on
  BY <1>1 DEF Measured, Timed
<1>2. CASE ~Clocked(b)
  BY <1>2 DEF Measured, TickOne
<1>3. CASE m.on /\ Clocked(b) /\ Periodic(b.mode) /\ m.n = 1
  <2> DEFINE a == TickOne(b)
             e == Measured(m, b, a)
  <2>1. a.mode = b.mode /\ a.count = b.count
    BY TickProgram
  <2>2. m.n \in 1 .. FullCount /\ m.n = Reload(b) /\ ~Triggered(b.mode)
    BY <1>3 DEF Timed, Periodic, Triggered
  <2>3. e.n = m.n
    BY <2>2, MeasuredCount
  <2> HIDE DEF a, e
  <2>4. Reload(a) = Reload(b)
    BY <2>1 DEF Reload
  <2>5. Timed(a, e)
    BY <1>3, <2>1, <2>2, <2>3, <2>4 DEF Timed
  <2> QED BY <2>5 DEF a, e
<1>4. CASE m.on /\ Clocked(b) /\ ~(Periodic(b.mode) /\ m.n = 1)
  <2>1. Ready(b, m) /\ (Armed(b, m) \/ Underway(b, m) \/ Finished(b))
    BY <1>4 DEF Timed, Ready
  <2>2. ~Finished(b)
    BY <1>4 DEF Clocked, Finished
  <2>3. b.mode = 0 \/ b.mode = 1 \/ b.mode = 2 \/ b.mode = 3 \/ b.mode \in {4, 5}
    BY DEF PitChannel, PitModes
  <2>4. CASE Armed(b, m)
    BY <2>1, <2>4, LoadTimed
  <2>5. CASE Underway(b, m)
    BY <2>1, <2>3, <2>5, CountTimed, OneShotTimed, RateTimed, SquareTimed, StrobeTimed
  <2> QED BY <2>1, <2>2, <2>4, <2>5
<1> QED BY <1>1, <1>2, <1>3, <1>4

(* A count written to a channel that a gate edge starts leaves the count    *)
(* under way alone.                                                         *)
LEMMA TriggeredTimed ==
  ASSUME NEW b, NEW a, NEW m, Timed(b, m), Triggered(b.mode), ~b.pending,
         a.mode = b.mode, ~a.pending, a.out = b.out, a.counting = b.counting,
         a.lowPulse = b.lowPulse, b.counting => a.ce = b.ce
  PROVE  Timed(a, m)
<1>1. ~Armed(b, m) /\ ~Periodic(b.mode)
  BY DEF Armed, Periodic, Triggered
<1>2. Finished(b) => Finished(a)
  BY DEF Finished
<1>3. Underway(b, m) => Underway(a, m)
  <2>1. b.mode = 1 \/ b.mode = 5
    BY DEF Triggered
  <2>2. b.counting =>
          /\ OneShotRuns(b, m) => OneShotRuns(a, m)
          /\ StrobePulse(b, m) => StrobePulse(a, m)
          /\ StrobeCounts(b, m) => StrobeCounts(a, m)
    BY DEF OneShotRuns, StrobePulse, StrobeCounts, Down
  <2> QED BY <2>1, <2>2 DEF Underway
<1> QED BY <1>1, <1>2, <1>3 DEF Timed

SameCounter(b, c) ==
  /\ c.mode = b.mode /\ c.ce = b.ce /\ c.out = b.out /\ c.counting = b.counting
  /\ c.lowPulse = b.lowPulse /\ c.pending = b.pending

LEMMA WriteWorks ==
  ASSUME NEW b \in PitChannel, NEW y \in PitByte
  PROVE  LET a == WriteData(b, y)
         IN  /\ a.mode = b.mode
             /\ (a.loaded /\ ~Triggered(b.mode)) => a.pending
             /\ Triggered(b.mode) =>
                  /\ ~a.pending /\ a.out = b.out /\ a.counting = b.counting
                  /\ a.lowPulse = b.lowPulse
                  /\ b.counting => a.ce = b.ce
<1> DEFINE Written1(a) ==
             /\ a.mode = b.mode
             /\ (a.loaded /\ ~Triggered(b.mode)) => a.pending
             /\ Triggered(b.mode) =>
                  /\ ~a.pending /\ a.out = b.out /\ a.counting = b.counting
                  /\ a.lowPulse = b.lowPulse
                  /\ b.counting => a.ce = b.ce
           l == WriteLow(b, y)
           h == WriteHigh(b, y)
           runs == Triggered(b.mode) /\ b.counting
           stopped == [l EXCEPT !.wphase = "hi", !.loaded = FALSE, !.pending = FALSE,
                                !.counting = runs]
           whole == [h EXCEPT !.null = TRUE]
           last == [h EXCEPT !.wphase = "lo"]
<1>1. l \in PitChannel /\ h \in PitChannel
  BY WriteByteTyped
<1>2. SameCounter(b, l) /\ SameCounter(b, h)
  BY DEF WriteLow, WriteHigh, SameCounter
<1>3. WriteData(b, y) \in
        {ArmCountLoaded(l), ArmCountLoaded(whole), stopped, ArmCountLoaded(last)}
  BY Zenon DEF WriteData
<1> HIDE DEF l, h
<1>4. SameCounter(b, whole) /\ SameCounter(b, last)
  BY <1>2 DEF SameCounter
<1>5. whole \in PitChannel /\ last \in PitChannel
  BY <1>1 DEF PitChannel
<1>6. Written1(stopped)
  <2>1. Triggered(b.mode) => runs = b.counting
    BY DEF PitChannel
  <2> HIDE DEF runs
  <2>2. /\ stopped.mode = l.mode /\ stopped.loaded = FALSE /\ stopped.pending = FALSE
        /\ stopped.out = l.out /\ stopped.ce = l.ce /\ stopped.lowPulse = l.lowPulse
        /\ stopped.counting = runs
    BY <1>1 DEF PitChannel
  <2> HIDE DEF stopped
  <2> QED BY <1>2, <2>1, <2>2 DEF SameCounter
<1>7. \A c \in PitChannel : SameCounter(b, c) => Written1(ArmCountLoaded(c))
  <2> SUFFICES ASSUME NEW c \in PitChannel, SameCounter(b, c)
               PROVE  Written1(ArmCountLoaded(c))
    OBVIOUS
  <2> DEFINE a == ArmCountLoaded(c)
             all == Reload(c)
  <2>1. c.mode = b.mode
    BY DEF SameCounter
  <2>2. CASE Triggered(b.mode) /\ c.counting
    <3>1. a = [c EXCEPT !.loaded = TRUE, !.pending = FALSE]
      BY <2>1, <2>2 DEF ArmCountLoaded
    <3>2. /\ a.mode = c.mode /\ a.pending = FALSE /\ a.out = c.out /\ a.ce = c.ce
          /\ a.counting = c.counting /\ a.lowPulse = c.lowPulse
      BY <3>1 DEF PitChannel
    <3> HIDE DEF a
    <3>3. Written1(a)
      BY <2>2, <3>2 DEF SameCounter
    <3> QED BY <3>3 DEF a
  <2>3. CASE Triggered(b.mode) /\ ~c.counting
    <3>1. a = [c EXCEPT !.loaded = TRUE, !.pending = FALSE, !.ce = all, !.null = FALSE]
      BY <2>1, <2>3 DEF ArmCountLoaded
    <3> HIDE DEF all
    <3>2. /\ a.mode = c.mode /\ a.pending = FALSE /\ a.out = c.out
          /\ a.counting = c.counting /\ a.lowPulse = c.lowPulse
      BY <3>1 DEF PitChannel
    <3>3. ~b.counting
      BY <2>3 DEF SameCounter
    <3> HIDE DEF a
    <3>4. Written1(a)
      BY <2>3, <3>2, <3>3 DEF SameCounter
    <3> QED BY <3>4 DEF a
  <2>4. CASE ~Triggered(b.mode)
    <3>1. a = [c EXCEPT !.loaded = TRUE, !.pending = TRUE, !.null = TRUE,
                        !.lowPulse = FALSE, !.counting = c.gate]
      BY <2>1, <2>4 DEF ArmCountLoaded
    <3>2. a.mode = c.mode /\ a.pending = TRUE
      BY <3>1 DEF PitChannel
    <3> HIDE DEF a
    <3>3. Written1(a)
      BY <2>1, <2>4, <3>2
    <3> QED BY <3>3 DEF a
  <2> QED BY <2>2, <2>3, <2>4
<1> HIDE DEF stopped, whole, last, runs, Written1
<1>8. Written1(WriteData(b, y))
  BY <1>1, <1>2, <1>3, <1>4, <1>5, <1>6, <1>7
<1> QED BY <1>8 DEF Written1

LEMMA WriteTimed ==
  ASSUME NEW b \in PitChannel, NEW m, NEW y \in PitByte, Timed(b, m)
  PROVE  LET a == WriteData(b, y)
         IN  Timed(a, IF a.loaded /\ ~Triggered(a.mode) THEN MeterArmed(a)
                      ELSE IF Triggered(a.mode) /\ ~b.pending THEN m ELSE NoMeter)
<1> DEFINE a == WriteData(b, y)
<1>1. /\ a.mode = b.mode
      /\ (a.loaded /\ ~Triggered(b.mode)) => a.pending
      /\ Triggered(b.mode) =>
           /\ ~a.pending /\ a.out = b.out /\ a.counting = b.counting
           /\ a.lowPulse = b.lowPulse
           /\ b.counting => a.ce = b.ce
  BY WriteWorks
<1>2. a \in PitChannel
  BY WriteTyped
<1> HIDE DEF a
<1>3. CASE a.loaded /\ ~Triggered(a.mode)
  <2>1. Timed(a, MeterArmed(a))
    BY <1>1, <1>2, <1>3, TimedArmed
  <2> QED BY <1>3, <2>1 DEF a
<1>4. CASE ~(a.loaded /\ ~Triggered(a.mode)) /\ Triggered(a.mode) /\ ~b.pending
  <2>1. Timed(a, m)
    BY <1>1, <1>4, TriggeredTimed
  <2> QED BY <1>4, <2>1 DEF a
<1>5. CASE ~(a.loaded /\ ~Triggered(a.mode)) /\ ~(Triggered(a.mode) /\ ~b.pending)
  BY <1>5, TimedOff DEF a
<1> QED BY <1>3, <1>4, <1>5

(* A gate edge starts a count anew in four of the modes, lets the other two *)
(* go on, and stops a periodic count.                                       *)
LEMMA RisesWorks ==
  ASSUME NEW b \in PitChannel, ~b.gate
  PROVE  LET a == GateRises(b)
         IN  /\ a.gate /\ a.loaded = b.loaded /\ a.mode = b.mode /\ a.count = b.count
             /\ (b.loaded /\ b.mode \notin {0, 4}) => a.pending
             /\ (~b.loaded \/ b.mode \in {0, 4}) =>
                  /\ a.ce = b.ce /\ a.out = b.out /\ a.lowPulse = b.lowPulse
                  /\ a.pending = b.pending
             /\ ~b.loaded => a.counting = b.counting
             /\ b.mode \in {0, 4} /\ b.loaded =>
                  (a.counting <=> b.counting \/ b.ce > 0 \/ b.pending)
<1> DEFINE Risen(a) ==
             /\ a.gate /\ a.loaded = b.loaded /\ a.mode = b.mode /\ a.count = b.count
             /\ (b.loaded /\ b.mode \notin {0, 4}) => a.pending
             /\ (~b.loaded \/ b.mode \in {0, 4}) =>
                  /\ a.ce = b.ce /\ a.out = b.out /\ a.lowPulse = b.lowPulse
                  /\ a.pending = b.pending
             /\ ~b.loaded => a.counting = b.counting
             /\ b.mode \in {0, 4} /\ b.loaded =>
                  (a.counting <=> b.counting \/ b.ce > 0 \/ b.pending)
           c == [b EXCEPT !.gate = TRUE]
           o == [c EXCEPT !.out = TRUE]
           runs == c.counting \/ c.ce > 0 \/ c.pending
           on == [c EXCEPT !.counting = runs]
           goes == [o EXCEPT !.counting = TRUE]
<1>1. /\ c \in PitChannel /\ c.gate = TRUE /\ c.loaded = b.loaded /\ c.mode = b.mode
      /\ c.count = b.count /\ c.ce = b.ce /\ c.out = b.out /\ c.lowPulse = b.lowPulse
      /\ c.pending = b.pending /\ c.counting = b.counting
  BY DEF PitChannel
<1>2. /\ GateRises(b) =
           CASE ~c.loaded -> c
             [] c.loaded /\ c.mode \in {0, 4} -> on
             [] c.loaded /\ c.mode = 1 -> ArmGateLoad(c)
             [] c.loaded /\ c.mode = 5 -> ArmGateLoad(o)
             [] OTHER -> IF c.pending THEN goes ELSE ArmGateLoad(o)
  BY Zenon DEF GateRises
<1>3. runs <=> (b.counting \/ b.ce > 0 \/ b.pending)
  BY <1>1
<1> HIDE DEF c, runs
<1>4. /\ o \in PitChannel /\ o.gate = c.gate /\ o.loaded = c.loaded /\ o.mode = c.mode
      /\ o.count = c.count /\ o.pending = c.pending
  BY <1>1 DEF PitChannel
<1> HIDE DEF o
<1>5. /\ on.gate = c.gate /\ on.loaded = c.loaded /\ on.mode = c.mode /\ on.count = c.count
      /\ on.ce = c.ce /\ on.out = c.out /\ on.lowPulse = c.lowPulse
      /\ on.pending = c.pending /\ on.counting = runs
  BY <1>1 DEF PitChannel
<1>6. /\ goes.gate = o.gate /\ goes.loaded = o.loaded /\ goes.mode = o.mode
      /\ goes.count = o.count /\ goes.pending = o.pending
  BY <1>4 DEF PitChannel
<1>7. \A x \in PitChannel :
        /\ ArmGateLoad(x).gate = x.gate /\ ArmGateLoad(x).loaded = x.loaded
        /\ ArmGateLoad(x).mode = x.mode /\ ArmGateLoad(x).count = x.count
        /\ ArmGateLoad(x).pending = TRUE
  BY DEF ArmGateLoad, PitChannel
<1> HIDE DEF on, goes
<1>8. CASE ~b.loaded
  <2>1. GateRises(b) = c
    BY <1>1, <1>2, <1>8
  <2>2. Risen(c)
    BY <1>1, <1>8
  <2> QED BY <2>1, <2>2
<1>9. CASE b.loaded /\ b.mode \in {0, 4}
  <2>1. GateRises(b) = on
    BY <1>1, <1>2, <1>9
  <2>2. Risen(on)
    BY <1>1, <1>3, <1>5, <1>9
  <2> QED BY <2>1, <2>2
<1>10. CASE b.loaded /\ b.mode \notin {0, 4}
  <2>1. \/ GateRises(b) \in {ArmGateLoad(c), ArmGateLoad(o)}
        \/ c.pending /\ GateRises(b) = goes
    BY <1>1, <1>2, <1>10
  <2>2. Risen(ArmGateLoad(c)) /\ Risen(ArmGateLoad(o))
    BY <1>1, <1>4, <1>7, <1>10
  <2>3. c.pending => Risen(goes)
    BY <1>1, <1>4, <1>6, <1>10
  <2> HIDE DEF Risen
  <2>4. Risen(GateRises(b))
    BY <2>1, <2>2, <2>3
  <2> QED BY <2>4 DEF Risen
<1> QED BY <1>8, <1>9, <1>10

LEMMA GateTimed ==
  ASSUME NEW b \in PitChannel, NEW m, NEW high \in BOOLEAN, Timed(b, m)
  PROVE  LET a == SetGate(b, high)
         IN  Timed(a, IF a.gate /\ ~b.gate /\ a.loaded /\ a.mode \notin {0, 4}
                      THEN MeterArmed(a)
                      ELSE IF ~a.gate /\ Periodic(a.mode) THEN NoMeter ELSE m)
<1> DEFINE a == SetGate(b, high)
<1>1. a \in PitChannel
  BY GateTyped
<1>2. CASE b.gate = high
  <2>1. a = b
    BY <1>2 DEF SetGate
  <2> QED BY <2>1, TimedOff
<1>3. CASE b.gate # high /\ ~high
  <2>1. a = GateFalls(b) /\ b.gate
    BY <1>3 DEF SetGate, PitChannel
  <2>2. ~a.gate /\ a.mode = b.mode
    BY <2>1 DEF GateFalls, PitChannel
  <2>3. CASE Periodic(a.mode)
    <3> HIDE DEF a
    <3>1. Timed(a, NoMeter)
      BY TimedOff
    <3> QED BY <2>2, <2>3, <3>1 DEF a
  <2>4. CASE ~Periodic(a.mode)
    <3>1. a = [b EXCEPT !.gate = FALSE]
      BY <2>1, <2>2, <2>4 DEF GateFalls
    <3>2. SameTimer(b, a)
      BY <3>1 DEF SameTimer, PitChannel
    <3> HIDE DEF a
    <3>3. Timed(a, m)
      BY <3>2, TimedFrame
    <3> QED BY <2>2, <2>4, <3>3 DEF a
  <2> QED BY <2>3, <2>4
<1>4. CASE b.gate # high /\ high
  <2>1. a = GateRises(b) /\ ~b.gate
    BY <1>4 DEF SetGate, PitChannel
  <2>2. /\ a.gate /\ a.loaded = b.loaded /\ a.mode = b.mode /\ a.count = b.count
        /\ (b.loaded /\ b.mode \notin {0, 4}) => a.pending
        /\ (~b.loaded \/ b.mode \in {0, 4}) =>
             /\ a.ce = b.ce /\ a.out = b.out /\ a.lowPulse = b.lowPulse
             /\ a.pending = b.pending
        /\ ~b.loaded => a.counting = b.counting
        /\ b.mode \in {0, 4} /\ b.loaded =>
             (a.counting <=> b.counting \/ b.ce > 0 \/ b.pending)
    BY <2>1, RisesWorks
  <2> HIDE DEF a
  <2>3. CASE b.loaded /\ b.mode \notin {0, 4}
    <3>1. Timed(a, MeterArmed(a))
      BY <1>1, <2>2, <2>3, TimedArmed
    <3> QED BY <2>1, <2>2, <2>3, <3>1 DEF a
  <2>4. CASE ~b.loaded
    <3>1. SameTimer(b, a)
      BY <2>2, <2>4 DEF SameTimer
    <3>2. Timed(a, m)
      BY <3>1, TimedFrame
    <3> QED BY <2>2, <2>4, <3>2 DEF a
  <2>5. CASE b.loaded /\ b.mode \in {0, 4}
    <3>1. Timed(a, m)
      <4>1. CASE ~m.on
        BY <4>1 DEF Timed
      <4>2. CASE m.on /\ Armed(b, m)
        <5>1. Armed(a, m) /\ Reload(a) = Reload(b) /\ ~Periodic(a.mode)
          <6>1. a.pending = b.pending /\ a.out = b.out /\ a.count = b.count
            BY <2>2, <2>5
          <6>2. a.mode \in {0, 4}
            BY <2>2, <2>5
          <6>3. Armed(a, m)
            BY <4>2, <6>1, Zenon DEF Armed
          <6> QED BY <6>1, <6>2, <6>3 DEF Reload, Periodic
        <5> QED BY <2>2, <2>5, <4>2, <5>1 DEF Timed
      <4>3. CASE m.on /\ (Underway(b, m) \/ Finished(b))
        <5>1. a.counting <=> b.counting
          <6>1. Underway(b, m) => b.counting
            BY DEF Underway
          <6>2. Finished(b) => ~b.counting /\ b.ce = 0 /\ ~b.pending
            BY <2>5 DEF Finished, Triggered
          <6>3. 0 > 0 <=> FALSE
            OBVIOUS
          <6> QED BY <2>2, <2>5, <4>3, <6>1, <6>2, <6>3
        <5>2. a.counting \in BOOLEAN /\ b.counting \in BOOLEAN
          BY <1>1 DEF PitChannel
        <5>3. SameTimer(b, a)
          BY <2>2, <2>5, <5>1, <5>2 DEF SameTimer
        <5> QED BY <5>3, TimedFrame
      <4>4. m.on => Armed(b, m) \/ Underway(b, m) \/ Finished(b)
        BY <2>5 DEF Timed, Periodic
      <4> QED BY <4>1, <4>2, <4>3, <4>4
    <3> QED BY <2>2, <2>5, <3>1 DEF a
  <2> QED BY <2>3, <2>4, <2>5
<1> QED BY <1>2, <1>3, <1>4

LEMMA LatchTimer ==
  ASSUME NEW b \in PitChannel
  PROVE  /\ SameTimer(b, LatchCount(b))
         /\ \A parts : SameTimer(b, ReadBack(b, parts))
         /\ SameTimer(b, ReadData(b))
<1>1. \A c \in PitChannel : SameTimer(c, LatchCount(c)) /\ SameTimer(c, LatchStatus(c))
  BY DEF LatchCount, LatchStatus, SameTimer
<1>2. SameTimer(b, ReadData(b))
  BY DEF ReadData, SameTimer
<1>3. ASSUME NEW parts
      PROVE  SameTimer(b, ReadBack(b, parts))
  <2> DEFINE s == IF "status" \in parts THEN LatchStatus(b) ELSE b
  <2>1. s \in PitChannel /\ SameTimer(b, s)
    BY <1>1, LatchTyped DEF SameTimer
  <2>2. ReadBack(b, parts) = IF "count" \in parts THEN LatchCount(s) ELSE s
    BY DEF ReadBack
  <2> HIDE DEF s
  <2>3. SameTimer(b, LatchCount(s))
    BY <1>1, <2>1 DEF SameTimer
  <2> QED BY <2>1, <2>2, <2>3
<1> QED BY <1>1, <1>2, <1>3

LEMMA PartTimed ==
  ASSUME guest \in TimerGuests, pit \in Pit, Timed(Channel, meter),
         NEW p, NEW m, NEW rd, PitPart(p, m, rd)
  PROVE  Timed(p.ch[guest.channel], m)
<1>1. guest.channel \in 0 .. 2 /\ Channel \in PitChannel
  BY GuestFacts, ChannelTyped DEF Channel
<1>2. \A c \in PitChannel : WithChannel(c).ch[guest.channel] = c
  <2>1. pit.ch \in [0 .. 2 -> PitChannel]
    BY DEF Pit
  <2>2. \A c \in PitChannel : WithChannel(c).ch = [pit.ch EXCEPT ![guest.channel] = c]
    BY DEF Pit, WithChannel
  <2> QED BY <1>1, <2>1, <2>2
<1>3. CASE Untouched(p, m, rd)
  BY <1>3 DEF Untouched, Channel
<1>4. CASE Controlled(p, m, rd)
  <2>1. m = NoMeter
    BY <1>4 DEF Controlled
  <2> QED BY <2>1, TimedOff
<1>5. CASE Written(p, m, rd)
  <2>1. PICK n \in guest.counts :
          LET ch == WriteData(Channel, DataByte(Channel, n))
          IN  p = WithChannel(ch) /\ m = DataMeter(ch)
    BY <1>5 DEF Written
  <2> DEFINE y == DataByte(Channel, n)
             ch == WriteData(Channel, y)
  <2>2. y \in PitByte
    BY GuestFacts, DataByteTyped
  <2>3. p = WithChannel(ch) /\ m = DataMeter(ch)
    BY <2>1
  <2> HIDE DEF y
  <2>4. ch \in PitChannel
    BY <1>1, <2>2, WriteTyped
  <2>5. Timed(ch, DataMeter(ch))
    BY <1>1, <2>2, WriteTimed DEF DataMeter
  <2> HIDE DEF ch
  <2> QED BY <1>2, <2>3, <2>4, <2>5
<1>6. CASE Latches(p, m, rd)
  BY <1>1, <1>2, <1>6, LatchTyped, LatchTimer, TimedFrame DEF Latches
<1>7. CASE ReadsBack(p, m, rd)
  <2>1. PICK parts : p = ReadBackPit(pit, {guest.channel}, parts) /\ m = meter
    BY <1>7 DEF ReadsBack
  <2>2. p.ch[guest.channel] = ReadBack(Channel, parts)
    BY <1>1, <2>1, ReadBackPitWorks DEF Channel
  <2> QED BY <1>1, <2>1, <2>2, LatchTimer, TimedFrame
<1>8. CASE Reads(p, m, rd)
  BY <1>1, <1>2, <1>8, ReadDataTyped, LatchTimer, TimedFrame DEF Reads
<1>9. CASE Gated(p, m, rd)
  <2>1. PICK bits \in {{}, {"gate2"}, {"iochkEn", "parityEn"}},
             clears \in {{}, {"iochk", "parity"}} :
          p = Port61Write(pit, bits, clears) /\ m = GateMeter(p.ch[guest.channel])
    BY <1>9 DEF Gated
  <2> DEFINE high == "gate2" \in bits
             a == SetGate(Channel, high)
  <2>2. bits \in SUBSET Port61Bits /\ high \in BOOLEAN
    BY DEF Port61Bits
  <2>3. p.ch[guest.channel] = Channel \/ p.ch[guest.channel] = a
    BY <2>1, <2>2, GatedChannel
  <2>4. Timed(a, GateMeter(a))
    BY <1>1, <2>2, GateTimed DEF GateMeter
  <2>5. Timed(Channel, GateMeter(Channel))
    BY TimedOff DEF GateMeter
  <2> HIDE DEF high, a
  <2> QED BY <2>1, <2>3, <2>4, <2>5
<1> QED BY <1>3, <1>4, <1>5, <1>6, <1>7, <1>8, <1>9 DEF PitPart

LEMMA TickedTimed ==
  ASSUME guest \in Guest, NEW p \in Pit, NEW m \in Meter, NEW n \in Nat,
         Timed(p.ch[guest.channel], m)
  PROVE  Timed(Ticked(p, m, n).pit.ch[guest.channel], Ticked(p, m, n).meter)
<1> DEFINE S == {s \in TickState : Timed(s.pit.ch[guest.channel], s.meter)}
           s0 == [pit |-> p, meter |-> m, rising |-> FALSE]
<1>1. s0 \in S
  <2>1. s0 \in TickState
    BY DEF TickState
  <2>2. s0.pit = p /\ s0.meter = m
    OBVIOUS
  <2> HIDE DEF s0
  <2> QED BY <2>1, <2>2
<1>2. \A s \in S : AfterClock(s, TickPit1(s.pit)) \in S
  <2> TAKE s \in S
  <2> DEFINE e == AfterClock(s, TickPit1(s.pit))
             b == s.pit.ch[guest.channel]
  <2>1. s \in TickState /\ s.meter \in Meter /\ Timed(b, s.meter)
    BY DEF TickState
  <2>2. /\ e \in TickState /\ b \in PitChannel
        /\ e.pit.ch[guest.channel] = TickOne(b)
        /\ e.meter = Measured(s.meter, b, TickOne(b))
    BY <2>1, ClockTyped, ClockedChannel
  <2>3. Timed(TickOne(b), Measured(s.meter, b, TickOne(b)))
    BY <2>1, <2>2, TimedTick
  <2> HIDE DEF e, b
  <2> QED BY <2>2, <2>3 DEF e
<1> HIDE DEF S
<1>3. Ticked(p, m, n) \in S
  BY <1>1, <1>2, TickedKeeps
<1> QED BY <1>3 DEF S

TimedNow == Timed(Channel, meter)

LEMMA TimedStep ==
  ASSUME TimersInv, TimedNow, TimersNext
  PROVE  TimedNow'
<1>1. /\ guest \in TimerGuests /\ guest \in Guest /\ guest.ratio \in Nat
      /\ pit \in Pit /\ meter \in Meter /\ Timed(Channel, meter) /\ TimersTypeOK
  BY GuestFacts DEF TimersInv, TimersTypeOK, TimedNow
<1>2. ASSUME Timed(pit'.ch[guest.channel], meter'), guest' = guest
      PROVE  TimedNow'
  BY <1>2 DEF TimedNow, Channel
<1>3. CASE TimersStep
  <2>1. PICK p, r, d, m, rd, ord, h, u : Parts(p, r, d, m, rd, ord, h, u)
    BY <1>3, StepParts DEF TimersInv, Counted, StepHasParts
  <2>2. /\ PitPart(p, m, rd) /\ guest' = guest
        /\ Advance(p, r, d, m, Seen(r), guest.ratio, Periods, Seconds)
    BY <2>1 DEF Parts, ClockedStep, Seen
  <2>3. p \in Pit /\ m \in Meter
    BY <1>1, <2>2, PitPartTyped DEF TimersTypeOK
  <2>4. Timed(p.ch[guest.channel], m)
    BY <1>1, <2>2, PartTimed
  <2>5. pit' = Ticked(p, m, guest.ratio).pit /\ meter' = Ticked(p, m, guest.ratio).meter
    BY <1>1, <2>2, <2>3, AdvanceWorks
  <2> QED BY <1>1, <1>2, <2>2, <2>3, <2>4, <2>5, TickedTimed
<1>4. CASE HostTick
  <2>1. PICK n \in (IF guest.modes = {} THEN {0} ELSE 0 .. HostClocks),
             periods \in (IF "rtc" \in guest.does THEN {0, 1} ELSE {0}),
             seconds \in (IF "rtc" \in guest.does THEN {0, 1} ELSE {0}) :
          Advance(pit, rtc, pic, meter, irq, n, periods, seconds)
    BY <1>4 DEF HostTick
  <2>2. guest' = guest /\ n \in Nat
    BY <1>4 DEF HostTick, HostClocks
  <2>3. pit' = Ticked(pit, meter, n).pit /\ meter' = Ticked(pit, meter, n).meter
    BY <1>1, <2>1, <2>2, AdvanceWorks
  <2> QED BY <1>1, <1>2, <2>2, <2>3, TickedTimed DEF Channel
<1>5. CASE AdvanceHpet
  BY <1>1, <1>2, <1>5 DEF AdvanceHpet, Channel
<1>6. CASE HostError
  <2>1. guest' = guest /\ meter' = meter
    BY <1>6 DEF HostError
  <2>2. pit'.ch = pit.ch
    BY <1>1, <1>6 DEF HostError, AssertError, Pit
  <2> QED BY <1>1, <1>2, <2>1, <2>2 DEF Channel
<1>7. CASE MachineReset
  <2>1. guest' = guest /\ meter' = NoMeter
    BY <1>7 DEF MachineReset
  <2> QED BY <1>2, <2>1, TimedOff
<1> QED BY <1>3, <1>4, <1>5, <1>6, <1>7 DEF TimersNext

(* OUT moves on the clock its mode and its count say, in all six modes,     *)
(* whatever is latched, read or written and however the gate moves between, *)
(* for every width of the bytes and so for every length of a count.         *)
THEOREM TimersOutOnTime == TimersSpec => []OutOnTime
<1>1. TimersInit => TimedNow
  <2> SUFFICES ASSUME TimersInit
               PROVE  TimedNow
    OBVIOUS
  <2>1. meter = NoMeter
    BY DEF TimersInit
  <2> QED BY <2>1, TimedOff DEF TimedNow
<1>2. ASSUME TimersInv, TimedNow, [TimersNext]_timerVars
      PROVE  TimedNow'
  <2>1. CASE TimersNext
    BY <1>2, <2>1, TimedStep
  <2>2. CASE UNCHANGED timerVars
    <3>1. Channel' = Channel /\ meter' = meter
      BY <2>2 DEF timerVars, Channel
    <3> QED BY <1>2, <3>1 DEF TimedNow
  <2> QED BY <1>2, <2>1, <2>2
<1>3. TimedNow => OutOnTime
  BY DEF TimedNow, Timed, OutOnTime
<1> QED BY <1>1, <1>2, <1>3, TimersInvHolds, PTL DEF TimersSpec

----------------------------------------------------------------------------
(* The clock's fields: what is encoded is decoded, and counts up to its     *)
(* maximum.                                                                 *)
LEMMA BcdDigits ==
  ASSUME NEW n \in 0 .. 99
  PROVE  /\ BinToBcd(n) = (n \div 10) * 16 + (n % 10)
         /\ BinToBcd(n) % 16 = n % 10 /\ BinToBcd(n) \div 16 = n \div 10
<1>1. n % 100 = n
  OBVIOUS
<1> QED BY <1>1 DEF BinToBcd

LEMMA Decoded ==
  ASSUME NEW n \in 0 .. 99, NEW binary \in BOOLEAN
  PROVE  /\ DecodeField(EncodeField(n, binary), binary) = n
         /\ binary \/ IsBcd(EncodeField(n, binary))
<1>1. CASE binary
  <2>1. n % 100 = n
    OBVIOUS
  <2> QED BY <1>1, <2>1 DEF DecodeField, EncodeField
<1>2. CASE ~binary
  <2>1. IsBcd(BinToBcd(n))
    BY BcdDigits DEF IsBcd
  <2>2. BcdToBin(BinToBcd(n)) = n
    BY BcdDigits DEF BcdToBin
  <2> QED BY <1>2, <2>1, <2>2 DEF DecodeField, EncodeField
<1> QED BY <1>1, <1>2

LEMMA Incremented ==
  ASSUME NEW max \in {23, 59, 99}, NEW n \in 0 .. max, NEW binary \in BOOLEAN
  PROVE  /\ FieldWraps(EncodeField(n, binary), max, binary) <=> n = max
         /\ FieldInc(EncodeField(n, binary), max, binary)
              = EncodeField(IF n = max THEN 0 ELSE n + 1, binary)
<1>1. n \in 0 .. 99 /\ max \in 0 .. 99 /\ (n < max => n + 1 \in 0 .. 99)
  OBVIOUS
<1>2. CASE binary
  <2>1. n % 100 = n /\ 0 % 100 = 0 /\ (n < max => (n + 1) % 100 = n + 1)
    BY <1>1
  <2> QED BY <1>1, <1>2, <2>1 DEF FieldWraps, FieldInc, EncodeField
<1>3. CASE ~binary
  <2> DEFINE b == BinToBcd(n)
             c == BcdNext(b)
  <2>1. /\ b = (n \div 10) * 16 + (n % 10)
        /\ b % 16 = n % 10 /\ b \div 16 = n \div 10
    BY <1>1, BcdDigits
  <2> HIDE DEF b
  <2>2. n # 99 => c = BinToBcd(n + 1)
    <3>1. ASSUME n # 99
          PROVE  n + 1 \in 0 .. 99
      BY <1>1, <3>1
    <3>2. ASSUME n # 99
          PROVE  BinToBcd(n + 1) = ((n + 1) \div 10) * 16 + ((n + 1) % 10)
      BY <3>1, <3>2, BcdDigits
    <3>3. CASE n % 10 = 9
      <4>1. c = ((n \div 10 + 1) * 16) % 256
        BY <2>1, <3>3 DEF BcdNext
      <4>2. (n + 1) \div 10 = n \div 10 + 1 /\ (n + 1) % 10 = 0
        BY <1>1, <3>3
      <4>3. n # 99 => n \div 10 + 1 \in 0 .. 9
        BY <1>1, <3>3
      <4> QED BY <1>1, <3>2, <4>1, <4>2, <4>3
    <3>4. CASE n % 10 # 9
      <4>1. n % 10 \in 0 .. 8
        BY <1>1, <3>4
      <4>2. c = b + 1
        BY <2>1, <4>1 DEF BcdNext
      <4>3. (n + 1) \div 10 = n \div 10 /\ (n + 1) % 10 = (n % 10) + 1
        BY <1>1, <4>1
      <4> QED BY <1>1, <2>1, <3>2, <4>2, <4>3
    <3> QED BY <3>3, <3>4
  <2>3. n = 99 => c = 160
    BY <2>1 DEF BcdNext
  <2>4. c > BinToBcd(max) <=> n = max
    <3>1. BinToBcd(max) = (max \div 10) * 16 + (max % 10)
      BY <1>1, BcdDigits
    <3>2. n # 99 => BinToBcd(n + 1) = ((n + 1) \div 10) * 16 + ((n + 1) % 10)
      BY <1>1, BcdDigits
    <3> HIDE DEF c
    <3>3. CASE n = 99
      BY <2>3, <3>1, <3>3
    <3>4. CASE n # 99
      <4>1. c = ((n + 1) \div 10) * 16 + ((n + 1) % 10)
        BY <2>2, <3>2, <3>4
      <4> QED BY <1>1, <3>1, <4>1
    <3> QED BY <3>3, <3>4
  <2>5. FieldWraps(b, max, binary) <=> n = max
    BY <1>3, <2>4 DEF FieldWraps
  <2>6. FieldInc(b, max, binary) = IF n = max THEN 0 ELSE c
    BY <1>3, <2>5 DEF FieldInc
  <2>7. n # max => n # 99
    BY <1>1
  <2>8. BinToBcd(0) = 0
    BY BcdDigits
  <2> HIDE DEF c
  <2>9. EncodeField(n, binary) = b /\ \A k : EncodeField(k, binary) = BinToBcd(k)
    BY <1>3 DEF EncodeField, b
  <2> QED BY <2>2, <2>5, <2>6, <2>7, <2>8, <2>9
<1> QED BY <1>2, <1>3

LEMMA EncodedSmall ==
  ASSUME NEW n \in 0 .. 99, NEW binary \in BOOLEAN
  PROVE  /\ EncodeField(n, binary) \in 0 .. 153
         /\ n <= 59 => EncodeField(n, binary) < DontCare
         /\ n <= 12 => EncodeField(n, binary) <= 18
         /\ EncodeField(n, binary) = 0 <=> n = 0
<1>1. n % 100 = n
  OBVIOUS
<1> QED BY <1>1, BcdDigits DEF EncodeField, DontCare

(* The hour's register in either form and format.                           *)
HourCode(h, h24, binary) ==
  IF h24 THEN EncodeField(h, binary)
  ELSE WithPm(EncodeField(((h + 11) % 12) + 1, binary), h >= 12)

TwelveOf(h) == ((h + 11) % 12) + 1

LEMMA TwelveFacts ==
  ASSUME NEW h \in 0 .. 23
  PROVE  /\ TwelveOf(h) \in 1 .. 12
         /\ TwelveOf(h) = 12 <=> h \in {0, 12}
         /\ TwelveOf(h) = 11 <=> h \in {11, 23}
         /\ (TwelveOf(h) % 12) + (IF h >= 12 THEN 12 ELSE 0) = h
         /\ h \notin {11, 23} =>
              TwelveOf(h + 1) = (TwelveOf(h) % 12) + 1 /\ (h + 1 >= 12 <=> h >= 12)
         /\ TwelveOf(12) = 12 /\ TwelveOf(0) = 12
BY DEF TwelveOf

LEMMA HourForms ==
  ASSUME NEW e \in 0 .. 18, NEW pm \in BOOLEAN
  PROVE  /\ WithPm(e, pm) \in 0 .. 146 /\ HourBits(WithPm(e, pm)) = e
         /\ IsPm(WithPm(e, pm)) <=> pm
BY DEF WithPm, HourBits, IsPm, Pm

LEMMA TwelveHour ==
  ASSUME NEW h \in 0 .. 23, NEW binary \in BOOLEAN, NEW b,
         b = HourCode(h, FALSE, binary)
  PROVE  /\ b \in 0 .. 146
         /\ HourBits(b) = EncodeField(TwelveOf(h), binary)
         /\ IsPm(b) <=> h >= 12
         /\ DecodeField(HourBits(b), binary) = TwelveOf(h)
         /\ binary \/ IsBcd(HourBits(b))
<1> DEFINE t == TwelveOf(h)
           e == EncodeField(t, binary)
<1>1. t \in 1 .. 12
  BY TwelveFacts
<1>2. b = WithPm(e, h >= 12)
  BY DEF HourCode, TwelveOf
<1> HIDE DEF t
<1>3. t \in 0 .. 99 /\ t <= 12
  BY <1>1
<1>4. e \in 0 .. 18
  <2>1. e \in 0 .. 153 /\ e <= 18
    BY <1>3, EncodedSmall
  <2> HIDE DEF e
  <2> QED BY <2>1
<1>5. DecodeField(e, binary) = t /\ (binary \/ IsBcd(e))
  BY <1>3, Decoded
<1> HIDE DEF e
<1> DEFINE pm == h >= 12
<1>6. pm \in BOOLEAN
  OBVIOUS
<1> HIDE DEF pm
<1>7. WithPm(e, pm) \in 0 .. 146 /\ HourBits(WithPm(e, pm)) = e /\ (IsPm(WithPm(e, pm)) <=> pm)
  BY <1>4, <1>6, HourForms
<1> QED BY <1>2, <1>5, <1>7 DEF e, t, pm

LEMMA HourRead ==
  ASSUME NEW r \in Rtc, NEW h \in 0 .. 23
  PROVE  /\ HourOf(r, HourCode(h, r.h24, r.binary)) = h
         /\ HourCode(h, r.h24, r.binary) \in 0 .. DontCare - 1
<1>1. r.h24 \in BOOLEAN /\ r.binary \in BOOLEAN
  BY DEF Rtc
<1>2. CASE r.h24
  <2>1. HourCode(h, r.h24, r.binary) = EncodeField(h, r.binary)
    BY <1>2 DEF HourCode
  <2>2. h \in 0 .. 99 /\ h <= 59
    OBVIOUS
  <2> DEFINE e == EncodeField(h, r.binary)
  <2>3. DecodeField(e, r.binary) = h
    BY <1>1, <2>2, Decoded
  <2>4. e \in 0 .. 153 /\ e < DontCare
    BY <1>1, <2>2, EncodedSmall
  <2> HIDE DEF e
  <2>5. HourOf(r, e) = h
    BY <1>2, <2>3 DEF HourOf
  <2>6. e \in 0 .. DontCare - 1
    BY <2>4 DEF DontCare
  <2> QED BY <2>1, <2>5, <2>6 DEF e
<1>3. CASE ~r.h24
  <2> DEFINE b == HourCode(h, FALSE, r.binary)
  <2>1. HourCode(h, r.h24, r.binary) = b
    BY <1>1, <1>3 DEF HourCode
  <2>2. /\ b \in 0 .. 146 /\ DecodeField(HourBits(b), r.binary) = TwelveOf(h)
        /\ IsPm(b) <=> h >= 12
    BY <1>1, TwelveHour
  <2> HIDE DEF b
  <2>3. HourOf(r, b) = (TwelveOf(h) % 12) + (IF h >= 12 THEN 12 ELSE 0)
    BY <1>3, <2>2 DEF HourOf
  <2> QED BY <2>1, <2>2, <2>3, TwelveFacts DEF DontCare
<1> QED BY <1>2, <1>3

LEMMA HourAdvances ==
  ASSUME NEW r \in Rtc, NEW h \in 0 .. 23, r.hour = HourCode(h, r.h24, r.binary)
  PROVE  /\ HourWraps(r) <=> h = 23
         /\ HourInc(r) = HourCode(IF h = 23 THEN 0 ELSE h + 1, r.h24, r.binary)
<1>1. r.h24 \in BOOLEAN /\ r.binary \in BOOLEAN
  BY DEF Rtc
<1>2. CASE r.h24
  <2>1. r.hour = EncodeField(h, r.binary)
    BY <1>2 DEF HourCode
  <2>2. /\ FieldWraps(r.hour, 23, r.binary) <=> h = 23
        /\ FieldInc(r.hour, 23, r.binary) = EncodeField(IF h = 23 THEN 0 ELSE h + 1, r.binary)
    BY <1>1, <2>1, Incremented
  <2> QED BY <1>2, <2>2 DEF HourWraps, HourInc, HourCode
<1>3. CASE ~r.h24
  <2> DEFINE b == r.hour
             t == TwelveOf(h)
             n == IF h = 23 THEN 0 ELSE h + 1
  <2>1. b = HourCode(h, FALSE, r.binary)
    BY <1>3 DEF HourCode
  <2>2. /\ DecodeField(HourBits(b), r.binary) = t
        /\ IsPm(b) <=> h >= 12
        /\ r.binary \/ IsBcd(HourBits(b))
    BY <1>1, <2>1, TwelveHour
  <2>3. /\ t \in 1 .. 12
        /\ t = 11 <=> h \in {11, 23}
        /\ h \notin {11, 23} => TwelveOf(h + 1) = (t % 12) + 1 /\ (h + 1 >= 12 <=> h >= 12)
        /\ TwelveOf(12) = 12 /\ TwelveOf(0) = 12
    BY TwelveFacts
  <2>4. HourCode(n, r.h24, r.binary)
          = WithPm(EncodeField(TwelveOf(n), r.binary), n >= 12)
    BY <1>3 DEF HourCode, TwelveOf
  <2> HIDE DEF b, t
  <2>5. Hour12Wraps(b, r.binary) <=> h = 23
    BY <2>2, <2>3 DEF Hour12Wraps
  <2>6. Hour12Inc(b, r.binary) = WithPm(EncodeField(TwelveOf(n), r.binary), n >= 12)
    <3>1. CASE h \in {11, 23}
      <4>1. Hour12Inc(b, r.binary) = WithPm(EncodeField(12, r.binary), ~IsPm(b))
        BY <2>2, <2>3, <3>1 DEF Hour12Inc
      <4>2. TwelveOf(n) = 12 /\ (n >= 12 <=> ~IsPm(b))
        BY <2>2, <2>3, <3>1
      <4> QED BY <4>1, <4>2 DEF WithPm
    <3>2. CASE h \notin {11, 23}
      <4>1. Hour12Inc(b, r.binary) = WithPm(EncodeField((t % 12) + 1, r.binary), IsPm(b))
        BY <2>2, <2>3, <3>2 DEF Hour12Inc
      <4>2. TwelveOf(n) = (t % 12) + 1 /\ (n >= 12 <=> IsPm(b))
        BY <2>2, <2>3, <3>2
      <4> QED BY <4>1, <4>2 DEF WithPm
    <3> QED BY <3>1, <3>2
  <2> QED BY <1>3, <2>4, <2>5, <2>6 DEF HourWraps, HourInc, b
<1> QED BY <1>2, <1>3

LEMMA HourConverted ==
  ASSUME NEW h \in 0 .. 23, NEW binary \in BOOLEAN, NEW to24 \in BOOLEAN
  PROVE  ConvertHour(HourCode(h, ~to24, binary), binary, to24) = HourCode(h, to24, binary)
<1>1. CASE to24
  <2> DEFINE b == HourCode(h, FALSE, binary)
  <2>1. HourCode(h, ~to24, binary) = b
    BY <1>1 DEF HourCode
  <2>2. DecodeField(HourBits(b), binary) = TwelveOf(h) /\ (IsPm(b) <=> h >= 12)
    BY TwelveHour
  <2>3. TwelveOf(h) \in 1 .. 12 /\ (TwelveOf(h) % 12) + (IF h >= 12 THEN 12 ELSE 0) = h
    BY TwelveFacts
  <2> HIDE DEF b
  <2>4. To24(b, binary) = EncodeField(h, binary)
    BY <2>2, <2>3 DEF To24
  <2> QED BY <1>1, <2>1, <2>4 DEF ConvertHour, HourCode
<1>2. CASE ~to24
  <2> DEFINE b == EncodeField(h, binary)
  <2>1. HourCode(h, ~to24, binary) = b
    BY <1>2 DEF HourCode
  <2>2. h \in 0 .. 99
    OBVIOUS
  <2>3. DecodeField(b, binary) = h /\ (binary \/ IsBcd(b))
    BY <2>2, Decoded
  <2> HIDE DEF b
  <2>4. To12(b, binary) = WithPm(EncodeField(((h + 11) % 12) + 1, binary), h >= 12)
    BY <2>3 DEF To12
  <2> QED BY <1>2, <2>1, <2>4 DEF ConvertHour, HourCode
<1> QED BY <1>1, <1>2

----------------------------------------------------------------------------
(* The days of the calendar.                                                *)

(* How many days a month of the year has, and how many come before it.      *)
LEMMA LeapDays ==
  ASSUME NEW y \in 0 .. 9999
  PROVE  /\ y \div 4 = ((y - 1) \div 4) + (IF y % 4 = 0 THEN 1 ELSE 0)
         /\ y \div 100 = ((y - 1) \div 100) + (IF y % 100 = 0 THEN 1 ELSE 0)
         /\ y \div 400 = ((y - 1) \div 400) + (IF y % 400 = 0 THEN 1 ELSE 0)
         /\ y % 400 = 0 => y % 100 = 0
         /\ y % 100 = 0 => y % 4 = 0
<1>1. y \div 4 = ((y - 1) \div 4) + (IF y % 4 = 0 THEN 1 ELSE 0)
  OBVIOUS
<1>2. y \div 100 = ((y - 1) \div 100) + (IF y % 100 = 0 THEN 1 ELSE 0)
  OBVIOUS
<1>3. y \div 400 = ((y - 1) \div 400) + (IF y % 400 = 0 THEN 1 ELSE 0)
  OBVIOUS
<1>4. ASSUME y % 400 = 0
      PROVE  y % 100 = 0
  <2> DEFINE q == y \div 400
             k == y \div 100
             r == y % 100
  <2>1. y = 400 * q /\ y = 100 * k + r /\ r \in 0 .. 99 /\ q \in Int /\ k \in Int
    BY <1>4
  <2> HIDE DEF q, k, r
  <2>2. r = 100 * (4 * q - k)
    BY <2>1
  <2>3. r = 0
    BY <2>1, <2>2
  <2> QED BY <2>3 DEF r
<1>5. ASSUME y % 100 = 0
      PROVE  y % 4 = 0
  <2> DEFINE q == y \div 100
             k == y \div 4
             r == y % 4
  <2>1. y = 100 * q /\ y = 4 * k + r /\ r \in 0 .. 3 /\ q \in Int /\ k \in Int
    BY <1>5
  <2> HIDE DEF q, k, r
  <2>2. r = 4 * (25 * q - k)
    BY <2>1
  <2>3. r = 0
    BY <2>1, <2>2
  <2> QED BY <2>3 DEF r
<1> QED BY <1>1, <1>2, <1>3, <1>4, <1>5

YearStart(y) == 365 * (y - 1) + (y - 1) \div 4 - (y - 1) \div 100 + (y - 1) \div 400

MonthStart(m) == <<0, 31, 59, 90, 120, 151, 181, 212, 243, 273, 304, 334>>[m]

LEMMA MonthStarts ==
  /\ MonthStart(1) = 0 /\ MonthStart(2) = 31 /\ MonthStart(3) = 59
  /\ MonthStart(4) = 90 /\ MonthStart(5) = 120 /\ MonthStart(6) = 151
  /\ MonthStart(7) = 181 /\ MonthStart(8) = 212 /\ MonthStart(9) = 243
  /\ MonthStart(10) = 273 /\ MonthStart(11) = 304 /\ MonthStart(12) = 334
BY DEF MonthStart

LEMMA Months ==
  ASSUME NEW m \in 1 .. 12
  PROVE  m = 1 \/ m = 2 \/ m = 3 \/ m = 4 \/ m = 5 \/ m = 6 \/ m = 7 \/ m = 8 \/ m = 9
         \/ m = 10 \/ m = 11 \/ m = 12
OBVIOUS

LEMMA MonthStartTyped ==
  ASSUME NEW m \in 1 .. 12
  PROVE  MonthStart(m) \in 0 .. 334 /\ (m # 12 => MonthStart(m) <= 304)
BY Months, MonthStarts

LEMMA MonthLengths ==
  ASSUME NEW m \in Int, NEW y
  PROVE  /\ m \in {4, 6, 9, 11} => MonthLength(m, y) = 30
         /\ m = 2 => MonthLength(m, y) = IF IsLeap(y) THEN 29 ELSE 28
         /\ m \notin {2, 4, 6, 9, 11} => MonthLength(m, y) = 31
         /\ MonthLength(m, y) \in 28 .. 31
BY DEF MonthLength

LeapDay(m, y) == IF IsLeap(y) /\ m > 2 THEN 1 ELSE 0

LEMMA DaysTyped ==
  ASSUME NEW y \in Years, NEW m \in 1 .. 12
  PROVE  /\ YearStart(y) \in Int /\ MonthStart(m) \in Int /\ LeapDay(m, y) \in Int
         /\ MonthStart(m) \in 0 .. 334 /\ LeapDay(m, y) \in 0 .. 1
<1>1. YearStart(y) \in Int
  BY DEF YearStart, Years
<1>2. LeapDay(m, y) \in 0 .. 1
  BY DEF LeapDay
<1> QED BY <1>1, <1>2, MonthStartTyped

DayNumber(y, m, d) == YearStart(y) + MonthStart(m) + LeapDay(m, y) + d - 1

LEMMA DaysAre ==
  ASSUME NEW y \in Years, NEW m \in 1 .. 12, NEW d \in Int
  PROVE  DaysBefore(y, m, d) = DayNumber(y, m, d)
<1>1. <<0, 31, 59, 90, 120, 151, 181, 212, 243, 273, 304, 334>>[m] = MonthStart(m)
  BY DEF MonthStart
<1>4. IsLeap(y) <=> (y % 4 = 0 /\ y % 100 # 0) \/ y % 400 = 0
  BY LeapDays DEF IsLeap, Years
<1>5. LeapDay(m, y)
        = IF ((y % 4 = 0 /\ y % 100 # 0) \/ y % 400 = 0) /\ m > 2 THEN 1 ELSE 0
  BY <1>4, Zenon DEF LeapDay
<1>6. MonthStart(m) \in Int /\ YearStart(y) \in Int /\ LeapDay(m, y) \in Int
  BY DaysTyped
<1> QED BY <1>1, <1>5, <1>6 DEF DaysBefore, DayNumber, YearStart

(* A month follows on a month, a year on a year.                            *)
LEMMA MonthEnds ==
  ASSUME NEW y \in Years, NEW m \in 1 .. 11
  PROVE  DaysBefore(y, m + 1, 1) = DaysBefore(y, m, MonthLength(m, y)) + 1
<1>1. MonthLength(m, y) \in 28 .. 31
  BY MonthLengths
<1>3. m + 1 \in 1 .. 12 /\ m \in 1 .. 12
  OBVIOUS
<1>2. MonthStart(m + 1) + LeapDay(m + 1, y) = MonthStart(m) + LeapDay(m, y) + MonthLength(m, y)
  <2>1. CASE m = 2
    BY <2>1, MonthLengths, MonthStarts DEF LeapDay
  <2>2. CASE m = 1
    BY <2>2, MonthLengths, MonthStarts DEF LeapDay
  <2>3. CASE m \in {4, 6, 9, 11}
    <3>1. LeapDay(m + 1, y) = LeapDay(m, y) /\ MonthLength(m, y) = 30 /\ LeapDay(m, y) \in Int
      BY <2>3, MonthLengths DEF LeapDay
    <3>2. MonthStart(m + 1) = MonthStart(m) + 30
      BY <2>3, MonthStarts
    <3>3. MonthStart(m) \in Int
      BY <1>3, MonthStartTyped
    <3> QED BY <3>1, <3>2, <3>3
  <2>4. CASE m \in {3, 5, 7, 8, 10}
    <3>1. LeapDay(m + 1, y) = LeapDay(m, y) /\ MonthLength(m, y) = 31 /\ LeapDay(m, y) \in Int
      BY <2>4, MonthLengths DEF LeapDay
    <3>2. MonthStart(m + 1) = MonthStart(m) + 31
      BY <2>4, MonthStarts
    <3>3. MonthStart(m) \in Int
      BY <1>3, MonthStartTyped
    <3> QED BY <3>1, <3>2, <3>3
  <2> QED BY <2>1, <2>2, <2>3, <2>4, <1>3, Months
<1>7. MonthLength(m, y) \in Int /\ 1 \in Int
  BY <1>1
<1>4. DaysBefore(y, m + 1, 1) = DayNumber(y, m + 1, 1)
  BY <1>3, <1>7, DaysAre, Zenon
<1>5. DaysBefore(y, m, MonthLength(m, y)) = DayNumber(y, m, MonthLength(m, y))
  BY <1>3, <1>7, DaysAre, Zenon
<1>6. YearStart(y) \in Int /\ MonthStart(m) \in Int /\ MonthStart(m + 1) \in Int
      /\ LeapDay(m, y) \in Int /\ LeapDay(m + 1, y) \in Int
  BY <1>3, DaysTyped, Zenon
<1>8. DayNumber(y, m + 1, 1) = DayNumber(y, m, MonthLength(m, y)) + 1
  BY <1>1, <1>2, <1>6, SMTT(30) DEF DayNumber
<1> QED BY <1>4, <1>5, <1>8

LEMMA YearEnds ==
  ASSUME NEW y \in Years, y # 9999
  PROVE  DaysBefore(y + 1, 1, 1) = DaysBefore(y, 12, 31) + 1
<1>0. y \in 0 .. 9998
  BY DEF Years
<1>1. /\ y + 1 \in Years /\ (y + 1) - 1 = y
      /\ 1 \in 1 .. 12 /\ 12 \in 1 .. 12 /\ 1 \in Int /\ 31 \in Int
  BY <1>0 DEF Years
<1>2. YearStart(y + 1) = YearStart(y) + 365 + (IF IsLeap(y) THEN 1 ELSE 0)
  <2>1. YearStart(y + 1) = 365 * y + y \div 4 - y \div 100 + y \div 400
    BY <1>1 DEF YearStart
  <2>2. YearStart(y) = 365 * (y - 1) + (y - 1) \div 4 - (y - 1) \div 100 + (y - 1) \div 400
    BY DEF YearStart
  <2> DEFINE a == (y - 1) \div 4
             b == (y - 1) \div 100
             c == (y - 1) \div 400
             e == y \div 4
             f == y \div 100
             g == y \div 400
  <2>3. a \in Int /\ b \in Int /\ c \in Int /\ e \in Int /\ f \in Int /\ g \in Int
    BY <1>0
  <2>4. /\ e = a + (IF y % 4 = 0 THEN 1 ELSE 0)
        /\ f = b + (IF y % 100 = 0 THEN 1 ELSE 0)
        /\ g = c + (IF y % 400 = 0 THEN 1 ELSE 0)
        /\ y % 400 = 0 => y % 100 = 0
        /\ y % 100 = 0 => y % 4 = 0
    BY <1>0, LeapDays
  <2> HIDE DEF a, b, c, e, f, g
  <2>5. e - f + g = a - b + c + (IF IsLeap(y) THEN 1 ELSE 0)
    BY <1>0, <2>3, <2>4 DEF IsLeap
  <2>6. YearStart(y + 1) = 365 * y + e - f + g
    BY <2>1 DEF e, f, g
  <2>7. YearStart(y) = 365 * (y - 1) + a - b + c
    BY <2>2 DEF a, b, c
  <2> QED BY <1>0, <2>3, <2>5, <2>6, <2>7
<1>3. DaysBefore(y + 1, 1, 1) = DayNumber(y + 1, 1, 1)
  BY <1>1, DaysAre
<1>4. DaysBefore(y, 12, 31) = DayNumber(y, 12, 31)
  BY <1>1, DaysAre
<1>7. LeapDay(1, y + 1) = 0 /\ LeapDay(12, y) = IF IsLeap(y) THEN 1 ELSE 0
  BY DEF LeapDay
<1>5. MonthStart(1) = 0 /\ MonthStart(12) = 334
  BY MonthStarts
<1>6. YearStart(y) \in Int
  BY DaysTyped
<1> QED BY <1>2, <1>3, <1>4, <1>5, <1>6, <1>7 DEF DayNumber

FirstDay == DaysBefore(0, 1, 1)
LastDay == DaysBefore(9999, 12, 31)

(* 10000 years are a number of weeks.                                       *)
LEMMA EndsOfCalendar == FirstDay = -366 /\ LastDay = 3652058
<1>0. /\ 0 \in Years /\ 9999 \in Years
      /\ 1 \in 1 .. 12 /\ 12 \in 1 .. 12 /\ 1 \in Int /\ 31 \in Int
  BY DEF Years
<1>1. FirstDay = DayNumber(0, 1, 1)
  BY <1>0, DaysAre DEF FirstDay
<1>2. LastDay = DayNumber(9999, 12, 31)
  BY <1>0, DaysAre DEF LastDay
<1>3. \A y \in 0 .. 9999 : y = 0 => YearStart(y) = -366
  <2> TAKE y \in 0 .. 9999
  <2> DEFINE a == (y - 1) \div 4
             b == (y - 1) \div 100
             c == (y - 1) \div 400
  <2>1. /\ y \div 4 = a + (IF y % 4 = 0 THEN 1 ELSE 0)
        /\ y \div 100 = b + (IF y % 100 = 0 THEN 1 ELSE 0)
        /\ y \div 400 = c + (IF y % 400 = 0 THEN 1 ELSE 0)
    BY LeapDays
  <2>2. a \in Int /\ b \in Int /\ c \in Int /\ YearStart(y) = 365 * (y - 1) + a - b + c
    BY DEF YearStart
  <2>3. y = 0 => /\ y \div 4 = 0 /\ y \div 100 = 0 /\ y \div 400 = 0
                 /\ y % 4 = 0 /\ y % 100 = 0 /\ y % 400 = 0
    OBVIOUS
  <2> HIDE DEF a, b, c
  <2>4. y = 0 => a = -1 /\ b = -1 /\ c = -1
    BY <2>1, <2>2, <2>3
  <2> QED BY <2>2, <2>4
<1>4. \A y \in 0 .. 9999 : y = 9999 => YearStart(y) = 3651694 /\ ~IsLeap(y)
  BY DEF YearStart, IsLeap
<1>5. YearStart(0) = -366 /\ YearStart(9999) = 3651694 /\ ~IsLeap(9999)
  BY <1>3, <1>4
<1>6. LeapDay(1, 0) = 0 /\ LeapDay(12, 9999) = 0
  BY <1>5 DEF LeapDay
<1> QED BY <1>1, <1>2, <1>5, <1>6, MonthStarts DEF DayNumber

(* The calendar's last day is the last by number.                           *)
LEMMA OnlyLast ==
  ASSUME NEW y \in Years, NEW m \in 1 .. 12, NEW d \in 1 .. MonthLength(m, y)
  PROVE  DaysBefore(y, m, d) = LastDay <=> y = 9999 /\ m = 12 /\ d = 31
<1>1. d \in 1 .. 31 /\ d \in Int
  BY MonthLengths
<1>2. DaysBefore(y, m, d) = DayNumber(y, m, d)
  BY <1>1, DaysAre
<1>3. YearStart(y) \in Int /\ MonthStart(m) \in 0 .. 334 /\ LeapDay(m, y) \in 0 .. 1
  BY DaysTyped
<1>4. CASE y # 9999
  <2> DEFINE a == (y - 1) \div 4
             b == (y - 1) \div 100
             c == (y - 1) \div 400
             f == y \div 100
             g == y \div 400
             k == y % 100
             l == y % 400
  <2>0. y \in 0 .. 9998
    BY <1>4 DEF Years
  <2>4. a \in Int /\ a <= 2499
    BY <2>0
  <2>5. y = 100 * f + k /\ f \in Int /\ k \in 0 .. 99 /\ b \in Int
    BY <2>0
  <2>6. y = 400 * g + l /\ g \in Int /\ l \in 0 .. 399 /\ c \in Int
    BY <2>0
  <2>11. f = b + (IF k = 0 THEN 1 ELSE 0) /\ g = c + (IF l = 0 THEN 1 ELSE 0)
    BY LeapDays DEF Years
  <2>2. YearStart(y) = 365 * (y - 1) + a - b + c
    BY DEF YearStart
  <2> HIDE DEF a, b, c, f, g, k, l
  <2>1. c <= b
    <3>1. 100 * f + k = 400 * g + l
      BY <2>5, <2>6
    <3>2. g >= 0
      BY <2>0, <2>6
    <3>3. f >= 4 * g /\ (k = 0 /\ l # 0 => f > 4 * g)
      BY <2>5, <2>6, <3>1
    <3>4. f >= g /\ (k = 0 /\ l # 0 => f > g)
      BY <2>5, <2>6, <3>2, <3>3
    <3> QED BY <2>5, <2>6, <2>11, <3>4
  <2> DEFINE start == YearStart(y)
             month == MonthStart(m)
             leap == LeapDay(m, y)
  <2>7. month \in 0 .. 334 /\ leap \in 0 .. 1 /\ start \in Int
    BY <1>3
  <2>8. start = 365 * (y - 1) + a - b + c
    BY <2>2
  <2> HIDE DEF start, month, leap
  <2>9. start <= 3651404
    BY <2>0, <2>1, <2>4, <2>5, <2>6, <2>7, <2>8
  <2>10. start + month + leap + d - 1 < 3652058
    BY <1>1, <2>7, <2>9
  <2>3. DaysBefore(y, m, d) < 3652058
    BY <1>2, <2>10 DEF DayNumber, start, month, leap
  <2> QED BY <1>4, <2>3, EndsOfCalendar
<1>5. CASE y = 9999
  <2>1. YearStart(y) = 3651694 /\ ~IsLeap(y)
    BY <1>5 DEF YearStart, IsLeap, Years
  <2>2. LeapDay(m, y) = 0
    BY <2>1 DEF LeapDay
  <2>3. m # 12 => MonthStart(m) <= 304
    BY MonthStartTyped
  <2>4. m = 12 => MonthStart(m) = 334
    BY MonthStarts
  <2> QED BY <1>1, <1>2, <1>3, <1>5, <2>1, <2>2, <2>3, <2>4, EndsOfCalendar DEF DayNumber
<1> QED BY <1>4, <1>5

----------------------------------------------------------------------------
(* A day after a day, and its weekday.  A clock that was never set counts   *)
(* the days of a month 0 first, of which no weekday goes with the January   *)
(* of the year 0 that follows.                                              *)

Dated(y, m, d, w) ==
  \/ m \in 1 .. 12 /\ d \in 1 .. MonthLength(m, y) /\ w \in 1 .. 7
  \/ m = 0 /\ y = 0 /\ d \in 0 .. 31 /\ w = IF d = 0 THEN 0 ELSE ((d - 1) % 7) + 1

Proper(y, m, d, w) == m # 0 /\ w = (DaysBefore(y, m, d) % 7) + 1

NextDow(w) == IF w \in 1 .. 6 THEN w + 1 ELSE 1
NextYear(y) == IF y = 9999 THEN 0 ELSE y + 1
NextDay(n) == IF n = LastDay THEN FirstDay ELSE n + 1

MonthDone(y, m, d) == d >= MonthLength(m, y)
YearAfter(y, m, d) == IF MonthDone(y, m, d) /\ m = 12 THEN NextYear(y) ELSE y
MonthAfter(y, m, d) ==
  IF ~MonthDone(y, m, d) THEN m ELSE IF m \in 1 .. 11 THEN m + 1 ELSE 1
DayAfter(y, m, d) == IF MonthDone(y, m, d) THEN 1 ELSE d + 1

LEMMA Weekdays ==
  ASSUME NEW n \in Int, NEW w \in 1 .. 7
  PROVE  /\ NextDow(w) \in 1 .. 7
         /\ NextDow(w) = ((n + 1) % 7) + 1 <=> w = (n % 7) + 1
<1> DEFINE a == n % 7
           b == (n + 1) % 7
<1>1. a \in 0 .. 6 /\ b \in 0 .. 6
  OBVIOUS
<1>2. b = IF a = 6 THEN 0 ELSE a + 1
  OBVIOUS
<1> HIDE DEF a, b
<1>3. NextDow(w) = b + 1 <=> w = a + 1
  BY <1>1, <1>2 DEF NextDow
<1> QED BY <1>3 DEF NextDow, a, b

LEMMA WeekOfEnds == FirstDay % 7 = 5 /\ (LastDay + 1) % 7 = 5
<1> DEFINE first == FirstDay
           next == LastDay + 1
<1>1. first = -366 /\ next = 3652059
  BY EndsOfCalendar
<1> HIDE DEF first, next
<1>2. \A n \in Int : n = 7 * (n \div 7) + (n % 7) /\ n % 7 \in 0 .. 6 /\ n \div 7 \in Int
  OBVIOUS
<1>3. first \in Int /\ next \in Int
  BY <1>1
<1> DEFINE i == first \div 7
           j == next \div 7
           k == first % 7
           l == next % 7
<1>4. first = 7 * i + k /\ k \in 0 .. 6 /\ i \in Int
  BY <1>2, <1>3
<1>5. next = 7 * j + l /\ l \in 0 .. 6 /\ j \in Int
  BY <1>2, <1>3
<1> HIDE DEF i, j, k, l
<1>6. k = 5
  BY <1>1, <1>4
<1>7. l = 5
  BY <1>1, <1>5
<1> QED BY <1>6, <1>7 DEF k, l, first, next

LEMMA DaysWhole ==
  ASSUME NEW y \in Years, NEW m \in 1 .. 12, NEW d \in Int
  PROVE  DaysBefore(y, m, d) \in Int
<1>1. DaysBefore(y, m, d) = DayNumber(y, m, d)
  BY DaysAre, Zenon
<1>2. YearStart(y) \in Int /\ MonthStart(m) \in Int /\ LeapDay(m, y) \in Int
  BY DaysTyped
<1> QED BY <1>1, <1>2 DEF DayNumber

(* The day after is numbered next, and the weekdays go on with it.          *)
LEMMA NumberedNext ==
  ASSUME NEW y \in Years, NEW m \in 1 .. 12, NEW d \in 1 .. MonthLength(m, y)
  PROVE  /\ YearAfter(y, m, d) \in Years
         /\ MonthAfter(y, m, d) \in 1 .. 12
         /\ DayAfter(y, m, d) \in 1 .. MonthLength(MonthAfter(y, m, d), YearAfter(y, m, d))
         /\ DaysBefore(YearAfter(y, m, d), MonthAfter(y, m, d), DayAfter(y, m, d))
              = NextDay(DaysBefore(y, m, d))
<1>1. /\ MonthLength(m, y) \in 28 .. 31 /\ d \in 1 .. 31 /\ d \in Int /\ d + 1 \in Int
      /\ 1 \in 1 .. 12 /\ m \in Int
  BY MonthLengths
<1>2. \A z : \A k \in Int : MonthLength(k, z) \in 28 .. 31
  BY MonthLengths
<1>3. DaysBefore(y, m, d) = LastDay <=> y = 9999 /\ m = 12 /\ d = 31
  BY OnlyLast
<1>4. CASE ~MonthDone(y, m, d)
  <2>1. YearAfter(y, m, d) = y /\ MonthAfter(y, m, d) = m /\ DayAfter(y, m, d) = d + 1
    BY <1>4, Zenon DEF YearAfter, MonthAfter, DayAfter
  <2>2. d + 1 \in 1 .. MonthLength(m, y) /\ d # 31
    BY <1>1, <1>4 DEF MonthDone
  <2>3. DaysBefore(y, m, d + 1) = DaysBefore(y, m, d) + 1
    <3>1. DaysBefore(y, m, d + 1) = DayNumber(y, m, d + 1)
      BY <1>1, DaysAre, Zenon
    <3>2. DaysBefore(y, m, d) = DayNumber(y, m, d)
      BY <1>1, DaysAre, Zenon
    <3>3. YearStart(y) \in Int /\ MonthStart(m) \in Int /\ LeapDay(m, y) \in Int
      BY DaysTyped, Zenon
    <3>4. DayNumber(y, m, d + 1) = DayNumber(y, m, d) + 1
      BY <1>1, <3>3 DEF DayNumber
    <3> QED BY <3>1, <3>2, <3>4, Zenon
  <2>4. DaysBefore(y, m, d) # LastDay
    BY <1>3, <2>2
  <2> QED BY <2>1, <2>2, <2>3, <2>4 DEF NextDay
<1>5. CASE MonthDone(y, m, d) /\ m # 12
  <2>1. d = MonthLength(m, y)
    BY <1>1, <1>5 DEF MonthDone
  <2>2. m \in 1 .. 11 /\ m + 1 \in 1 .. 12 /\ m + 1 \in Int
    BY <1>5
  <2>3. YearAfter(y, m, d) = y /\ MonthAfter(y, m, d) = m + 1 /\ DayAfter(y, m, d) = 1
    BY <1>5, <2>2, Zenon DEF YearAfter, MonthAfter, DayAfter
  <2>4. DaysBefore(y, m + 1, 1) = DaysBefore(y, m, d) + 1
    BY <2>1, <2>2, MonthEnds, Zenon
  <2>5. DaysBefore(y, m, d) # LastDay
    BY <1>3, <1>5
  <2>6. MonthLength(m + 1, y) \in 28 .. 31
    BY <1>2, <2>2, Zenon
  <2>7. 1 \in 1 .. MonthLength(m + 1, y)
    BY <2>6
  <2> QED BY <2>2, <2>3, <2>4, <2>5, <2>7 DEF NextDay
<1>6. CASE MonthDone(y, m, d) /\ m = 12
  <2>1. d = 31
    <3>1. MonthLength(12, y) = 31
      BY MonthLengths
    <3> QED BY <1>1, <1>6, <3>1 DEF MonthDone
  <2>2. YearAfter(y, m, d) = NextYear(y) /\ MonthAfter(y, m, d) = 1 /\ DayAfter(y, m, d) = 1
    BY <1>6 DEF YearAfter, MonthAfter, DayAfter
  <2>3. NextYear(y) \in Years
    <3>1. CASE y = 9999
      BY <3>1 DEF NextYear, Years
    <3>2. CASE y # 9999
      <4>1. NextYear(y) = y + 1
        BY <3>2 DEF NextYear
      <4> QED BY <3>2, <4>1 DEF Years
    <3> QED BY <3>1, <3>2
  <2>4. 1 \in 1 .. MonthLength(1, NextYear(y))
    <3>1. MonthLength(1, NextYear(y)) \in 28 .. 31
      BY <1>1, <1>2
    <3> QED BY <3>1
  <2>5. DaysBefore(NextYear(y), 1, 1) = NextDay(DaysBefore(y, m, d))
    <3>1. CASE y = 9999
      <4>1. DaysBefore(y, m, d) = LastDay
        BY <1>3, <1>6, <2>1, <3>1
      <4>2. NextYear(y) = 0
        BY <3>1 DEF NextYear
      <4> QED BY <4>1, <4>2 DEF NextDay, FirstDay
    <3>2. CASE y # 9999
      <4>1. DaysBefore(y + 1, 1, 1) = DaysBefore(y, 12, 31) + 1
        BY <3>2, YearEnds
      <4>2. DaysBefore(y, m, d) # LastDay
        BY <1>3, <3>2
      <4>3. NextYear(y) = y + 1
        BY <3>2 DEF NextYear
      <4> QED BY <1>6, <2>1, <4>1, <4>2, <4>3 DEF NextDay
    <3> QED BY <3>1, <3>2
  <2> QED BY <1>1, <2>2, <2>3, <2>4, <2>5
<1> QED BY <1>4, <1>5, <1>6

LEMMA DatedNext ==
  ASSUME NEW y \in Years, NEW m \in 0 .. 12, NEW d, NEW w, Dated(y, m, d, w)
  PROVE  LET z == YearAfter(y, m, d)
             n == MonthAfter(y, m, d)
             e == DayAfter(y, m, d)
         IN  /\ z \in Years /\ n \in 0 .. 12
             /\ Dated(z, n, e, NextDow(w))
             /\ Proper(z, n, e, NextDow(w)) <=> Proper(y, m, d, w)
             /\ Proper(y, m, d, w) => DaysBefore(z, n, e) = NextDay(DaysBefore(y, m, d))
<1> DEFINE z == YearAfter(y, m, d)
           n == MonthAfter(y, m, d)
           e == DayAfter(y, m, d)
<1>1. CASE m # 0
  <2>1. m \in 1 .. 12 /\ d \in 1 .. MonthLength(m, y) /\ w \in 1 .. 7
    BY <1>1 DEF Dated
  <2>2. /\ z \in Years /\ n \in 1 .. 12 /\ e \in 1 .. MonthLength(n, z)
        /\ DaysBefore(z, n, e) = NextDay(DaysBefore(y, m, d))
    BY <2>1, NumberedNext, Zenon
  <2> HIDE DEF z, n, e
  <2>3. d \in Int
    BY <2>1
  <2>4. DaysBefore(y, m, d) \in Int
    BY <2>1, <2>3, DaysWhole, Zenon
  <2>5. NextDow(w) \in 1 .. 7
    BY <2>1, <2>4, Weekdays
  <2>6. NextDow(w) = (NextDay(DaysBefore(y, m, d)) % 7) + 1 <=> w = (DaysBefore(y, m, d) % 7) + 1
    <3> DEFINE k == DaysBefore(y, m, d)
    <3>1. NextDow(w) = ((k + 1) % 7) + 1 <=> w = (k % 7) + 1
      BY <2>1, <2>4, Weekdays, Zenon
    <3> HIDE DEF k
    <3>2. NextDay(k) % 7 = (k + 1) % 7
      BY WeekOfEnds DEF NextDay
    <3> QED BY <3>1, <3>2 DEF k
  <2>7. Proper(z, n, e, NextDow(w)) <=> NextDow(w) = (NextDay(DaysBefore(y, m, d)) % 7) + 1
    BY <2>2 DEF Proper
  <2>8. Proper(y, m, d, w) <=> w = (DaysBefore(y, m, d) % 7) + 1
    BY <1>1 DEF Proper
  <2>9. Dated(z, n, e, NextDow(w))
    BY <2>2, <2>5 DEF Dated
  <2>10. n \in 0 .. 12
    BY <2>2
  <2> QED BY <2>2, <2>6, <2>7, <2>8, <2>9, <2>10 DEF z, n, e
<1>2. CASE m = 0
  <2>1. y = 0 /\ d \in 0 .. 31 /\ w = IF d = 0 THEN 0 ELSE ((d - 1) % 7) + 1
    BY <1>2 DEF Dated
  <2>2. MonthLength(0, y) = 31
    BY MonthLengths
  <2>3. ~Proper(y, m, d, w)
    BY <1>2 DEF Proper
  <2>4. CASE d # 31
    <3>1. ~MonthDone(y, m, d)
      BY <1>2, <2>1, <2>2, <2>4 DEF MonthDone
    <3>2. z = y /\ n = 0 /\ e = d + 1
      BY <1>2, <3>1 DEF YearAfter, MonthAfter, DayAfter
    <3> HIDE DEF z, n, e
    <3>3. e \in 0 .. 31 /\ e # 0
      BY <2>1, <2>4, <3>2
    <3>4. NextDow(w) = ((e - 1) % 7) + 1
      <4>1. CASE d = 0
        BY <2>1, <3>2, <4>1 DEF NextDow
      <4>2. CASE d # 0
        <5> DEFINE k == d - 1
        <5>1. w = (k % 7) + 1 /\ k \in Int /\ e - 1 = k + 1
          BY <2>1, <3>2, <4>2
        <5> HIDE DEF k
        <5>2. w \in 1 .. 7
          BY <5>1
        <5> QED BY <5>1, <5>2, Weekdays
      <4> QED BY <4>1, <4>2
    <3>5. Dated(z, n, e, NextDow(w))
      BY <2>1, <3>2, <3>3, <3>4 DEF Dated
    <3>6. ~Proper(z, n, e, NextDow(w))
      BY <3>2 DEF Proper
    <3> QED BY <2>3, <3>2, <3>5, <3>6 DEF z, n, e
  <2>5. CASE d = 31
    <3>1. MonthDone(y, m, d)
      BY <1>2, <2>2, <2>5 DEF MonthDone
    <3>2. z = 0 /\ n = 1 /\ e = 1
      BY <1>2, <2>1, <3>1 DEF YearAfter, MonthAfter, DayAfter
    <3>3. w = 3
      <4>1. \A k \in Int : k = 31 => ((k - 1) % 7) + 1 = 3
        OBVIOUS
      <4> QED BY <2>1, <2>5, <4>1
    <3>4. NextDow(w) = 4
      BY <3>3 DEF NextDow
    <3> HIDE DEF z, n, e
    <3>5. ~Proper(z, n, e, NextDow(w))
      BY <3>2, <3>4, WeekOfEnds DEF Proper, FirstDay
    <3>6. MonthLength(n, z) \in 28 .. 31
      BY <3>2, MonthLengths
    <3>7. Dated(z, n, e, NextDow(w))
      BY <3>2, <3>4, <3>6 DEF Dated
    <3> QED BY <2>1, <2>3, <3>2, <3>5, <3>7 DEF z, n, e
  <2> QED BY <2>4, <2>5
<1> QED BY <1>1, <1>2
----------------------------------------------------------------------------
(* The registers of a clock: what they show, and how it advances.           *)

DateShows(r, y, m, d) ==
  /\ r.century = EncodeField(y \div 100, r.binary)
  /\ r.year = EncodeField(y % 100, r.binary)
  /\ r.month = EncodeField(m, r.binary)
  /\ r.day = EncodeField(d, r.binary)

TimeShows(r, h, i, s) ==
  /\ r.hour = HourCode(h, r.h24, r.binary)
  /\ r.min = EncodeField(i, r.binary)
  /\ r.sec = EncodeField(s, r.binary)

SameTime(r, e) == e.hour = r.hour /\ e.min = r.min /\ e.sec = r.sec

SameModes(r, e) ==
  /\ e.binary = r.binary /\ e.h24 = r.h24 /\ e.set = r.set
  /\ e.aSec = r.aSec /\ e.aMin = r.aMin /\ e.aHour = r.aHour

SameDate(r, e) ==
  /\ e.century = r.century /\ e.year = r.year /\ e.month = r.month /\ e.day = r.day
  /\ e.dow = r.dow

LEMMA Century ==
  ASSUME NEW y \in Years
  PROVE  /\ y \div 100 \in 0 .. 99 /\ y % 100 \in 0 .. 99
         /\ (y \div 100) * 100 + (y % 100) = y
         /\ y % 100 # 99 => /\ NextYear(y) \div 100 = y \div 100
                            /\ NextYear(y) % 100 = (y % 100) + 1
         /\ y % 100 = 99 => /\ NextYear(y) \div 100 = ((y \div 100) + 1) % 100
                            /\ NextYear(y) % 100 = 0
<1> DEFINE q == y \div 100
           k == y % 100
<1>1. y \in 0 .. 9999
  BY DEF Years
<1>0. \A n \in Int : n = 100 * (n \div 100) + (n % 100) /\ n % 100 \in 0 .. 99
                       /\ n \div 100 \in Int
  OBVIOUS
<1>10. y \in Int
  BY <1>1
<1>11. y = 100 * q + k /\ k \in 0 .. 99 /\ q \in Int
  BY <1>0, <1>10
<1> HIDE DEF q, k
<1>2. q \in 0 .. 99 /\ k \in 0 .. 99 /\ y = 100 * q + k
  BY <1>1, <1>11
<1>3. CASE y = 9999
  <2>1. q = 99 /\ k = 99
    BY <1>2, <1>3
  <2>2. NextYear(y) = 0
    BY <1>3 DEF NextYear
  <2> QED BY <1>2, <2>1, <2>2 DEF q, k
<1>4. CASE y # 9999
  <2>1. NextYear(y) = 100 * q + k + 1
    BY <1>2, <1>4 DEF NextYear
  <2> DEFINE n == NextYear(y)
             f == n \div 100
             g == n % 100
  <2>2. n = 100 * f + g /\ f \in Int /\ g \in 0 .. 99
    <3>1. n \in Int
      BY <1>10 DEF NextYear
    <3> HIDE DEF n
    <3> QED BY <1>0, <3>1
  <2> HIDE DEF n, f, g
  <2>3. n = 100 * q + k + 1
    BY <2>1 DEF n
  <2>4. CASE k # 99
    <3>1. f = q /\ g = k + 1
      BY <1>2, <2>2, <2>3, <2>4
    <3> QED BY <1>2, <2>4, <3>1 DEF q, k, f, g, n
  <2>5. CASE k = 99
    <3>1. f = q + 1 /\ g = 0
      BY <1>2, <2>2, <2>3, <2>5
    <3>2. q # 99
      BY <1>2, <1>4, <2>5
    <3>3. (q + 1) % 100 = q + 1
      BY <1>2, <3>2
    <3> QED BY <1>2, <2>5, <3>1, <3>3 DEF q, k, f, g, n
  <2> QED BY <2>4, <2>5
<1> QED BY <1>3, <1>4

LEMMA YearShows ==
  ASSUME NEW r \in Rtc, NEW y \in Years,
         r.century = EncodeField(y \div 100, r.binary), r.year = EncodeField(y % 100, r.binary)
  PROVE  LET e == AdvanceYear(r)
         IN  /\ FullYear(r) = y
             /\ e.century = EncodeField(NextYear(y) \div 100, r.binary)
             /\ e.year = EncodeField(NextYear(y) % 100, r.binary)
             /\ e.month = r.month /\ e.day = r.day /\ e.dow = r.dow
             /\ SameTime(r, e) /\ SameModes(r, e)
<1> DEFINE q == y \div 100
           k == y % 100
           year == FieldInc(r.year, 99, r.binary)
           century == IF FieldWraps(r.year, 99, r.binary)
                      THEN EncodeField((DecodeField(r.century, r.binary) + 1) % 100, r.binary)
                      ELSE r.century
           e == AdvanceYear(r)
<1>1. r.binary \in BOOLEAN
  BY DEF Rtc
<1>2. /\ q \in 0 .. 99 /\ k \in 0 .. 99 /\ q * 100 + k = y
      /\ k # 99 => NextYear(y) \div 100 = q /\ NextYear(y) % 100 = k + 1
      /\ k = 99 => NextYear(y) \div 100 = (q + 1) % 100 /\ NextYear(y) % 100 = 0
  BY Century
<1>3. r.century = EncodeField(q, r.binary) /\ r.year = EncodeField(k, r.binary)
  OBVIOUS
<1>4. e = [r EXCEPT !.year = year, !.century = century]
  BY DEF AdvanceYear
<1> HIDE DEF q, k
<1>5. DecodeField(r.century, r.binary) = q /\ DecodeField(r.year, r.binary) = k
  BY <1>1, <1>2, <1>3, Decoded
<1>6. FullYear(r) = y
  BY <1>2, <1>5 DEF FullYear
<1>7. /\ FieldWraps(r.year, 99, r.binary) <=> k = 99
      /\ year = EncodeField(IF k = 99 THEN 0 ELSE k + 1, r.binary)
  BY <1>1, <1>2, <1>3, Incremented
<1>8. year = EncodeField(NextYear(y) % 100, r.binary)
  BY <1>2, <1>7
<1>9. century = EncodeField(NextYear(y) \div 100, r.binary)
  BY <1>2, <1>3, <1>5, <1>7
<1> HIDE DEF year, century, e
<1>10. e.year = year /\ e.century = century
  BY <1>4 DEF Rtc
<1>11. /\ e.month = r.month /\ e.day = r.day /\ e.dow = r.dow
       /\ SameTime(r, e) /\ SameModes(r, e)
  BY <1>4 DEF Rtc, SameTime, SameModes
<1> QED BY <1>6, <1>8, <1>9, <1>10, <1>11 DEF e

LEMMA MonthShows ==
  ASSUME NEW r \in Rtc, NEW y \in Years, NEW m \in 0 .. 12, NEW d, DateShows(r, y, m, d)
  PROVE  LET e == AdvanceMonth(r)
         IN  /\ DateShows(e, IF m = 12 THEN NextYear(y) ELSE y,
                          IF m \in 1 .. 11 THEN m + 1 ELSE 1, d)
             /\ e.dow = r.dow /\ SameTime(r, e) /\ SameModes(r, e)
<1> DEFINE n == IF m \in 1 .. 11 THEN m + 1 ELSE 1
           z == IF m = 12 THEN NextYear(y) ELSE y
           code == EncodeField(n, r.binary)
           f == IF m = 12 THEN AdvanceYear(r) ELSE r
           e == AdvanceMonth(r)
<1>1. r.binary \in BOOLEAN /\ m \in 0 .. 99
  BY DEF Rtc
<1>2. DecodeField(r.month, r.binary) = m
  BY <1>1, Decoded DEF DateShows
<1>3. e = [f EXCEPT !.month = code]
  BY <1>2 DEF AdvanceMonth
<1>4. f \in Rtc
  BY YearTyped
<1>5. /\ f.century = EncodeField(z \div 100, r.binary)
      /\ f.year = EncodeField(z % 100, r.binary)
      /\ f.day = r.day /\ f.dow = r.dow /\ SameTime(r, f) /\ SameModes(r, f)
  <2>1. CASE m = 12
    <3>1. /\ r.century = EncodeField(y \div 100, r.binary)
          /\ r.year = EncodeField(y % 100, r.binary)
      BY DEF DateShows
    <3>2. LET a == AdvanceYear(r)
          IN  /\ FullYear(r) = y
              /\ a.century = EncodeField(NextYear(y) \div 100, r.binary)
              /\ a.year = EncodeField(NextYear(y) % 100, r.binary)
              /\ a.month = r.month /\ a.day = r.day /\ a.dow = r.dow
              /\ SameTime(r, a) /\ SameModes(r, a)
      BY <3>1, YearShows, Zenon
    <3> QED BY <2>1, <3>2
  <2>2. CASE m # 12
    BY <2>2, Zenon DEF DateShows, SameTime, SameModes
  <2> QED BY <2>1, <2>2
<1> HIDE DEF f, code, e
<1>6. /\ e.century = f.century /\ e.year = f.year /\ e.month = code /\ e.day = f.day
      /\ e.dow = f.dow /\ SameTime(f, e) /\ SameModes(f, e)
  BY <1>3, <1>4 DEF Rtc, SameTime, SameModes
<1>7. e.binary = r.binary
  BY <1>5, <1>6 DEF SameModes
<1>8. DateShows(e, z, n, d)
  BY <1>5, <1>6, <1>7, Zenon DEF DateShows, code
<1>9. e.dow = r.dow /\ SameTime(r, e) /\ SameModes(r, e)
  BY <1>5, <1>6 DEF SameTime, SameModes
<1> QED BY <1>8, <1>9 DEF e

LEMMA DayShows ==
  ASSUME NEW r \in Rtc, NEW y \in Years, NEW m \in 0 .. 12, NEW d,
         DateShows(r, y, m, d), Dated(y, m, d, r.dow)
  PROVE  LET e == AdvanceDay(r)
         IN  /\ DateShows(e, YearAfter(y, m, d), MonthAfter(y, m, d), DayAfter(y, m, d))
             /\ e.dow = NextDow(r.dow) /\ SameTime(r, e) /\ SameModes(r, e)
<1> DEFINE w == NextDow(r.dow)
           t == [r EXCEPT !.dow = w]
           next == EncodeField(d + 1, r.binary)
           first == EncodeField(1, r.binary)
           f == [t EXCEPT !.day = first]
           g == [t EXCEPT !.day = next]
           e == AdvanceDay(r)
<1>1. r.binary \in BOOLEAN /\ r.dow \in CmosByte
  BY DEF Rtc
<1>2. w \in CmosByte
  BY <1>1 DEF NextDow, CmosByte
<1>3. d \in 0 .. 31 /\ d \in 0 .. 99 /\ m \in 0 .. 99
  BY MonthLengths DEF Dated
<1>4. e = AdvanceDate(t)
  BY DEF AdvanceDay, NextDow
<1> HIDE DEF w
<1>5. t \in Rtc
  BY <1>2, ZenonT(60) DEF Rtc
<1>6. /\ t.century = r.century /\ t.year = r.year /\ t.month = r.month /\ t.day = r.day
      /\ t.dow = w /\ SameTime(r, t) /\ SameModes(r, t)
  BY DEF Rtc, SameTime, SameModes
<1>7. t.binary = r.binary
  BY <1>6 DEF SameModes
<1>8. DateShows(t, y, m, d)
  BY <1>6, <1>7, Zenon DEF DateShows
<1> HIDE DEF t
<1>9. /\ DecodeField(t.month, t.binary) = m /\ DecodeField(t.day, t.binary) = d
      /\ t.binary \/ IsBcd(t.day)
  BY <1>1, <1>3, <1>7, <1>8, Decoded DEF DateShows
<1>10. FullYear(t) = y
  BY <1>5, <1>8, YearShows DEF DateShows
<1>11. e = IF d < MonthLength(m, y) THEN g ELSE AdvanceMonth(f)
  BY <1>4, <1>7, <1>9, <1>10 DEF AdvanceDate
<1>12. first \in CmosByte
  BY <1>1, EncodedByte
<1> HIDE DEF first, next
<1>13. f \in Rtc
  BY <1>5, <1>12, ZenonT(60) DEF Rtc
<1>14. /\ f.century = t.century /\ f.year = t.year /\ f.month = t.month /\ f.day = first
       /\ f.dow = t.dow /\ SameTime(t, f) /\ SameModes(t, f)
  BY <1>5 DEF Rtc, SameTime, SameModes
<1>15. /\ g.century = t.century /\ g.year = t.year /\ g.month = t.month /\ g.day = next
       /\ g.dow = t.dow /\ SameTime(t, g) /\ SameModes(t, g)
  BY <1>5 DEF Rtc, SameTime, SameModes
<1>16. f.binary = r.binary /\ g.binary = r.binary
  BY <1>7, <1>14, <1>15 DEF SameModes
<1>17. DateShows(f, y, m, 1) /\ DateShows(g, y, m, d + 1)
  BY <1>7, <1>8, <1>14, <1>15, <1>16, Zenon DEF DateShows, first, next
<1>18. MonthLength(m, y) \in Int
  BY <1>3, MonthLengths
<1> HIDE DEF e, f, g
<1>19. CASE ~MonthDone(y, m, d)
  <2>1. d < MonthLength(m, y)
    BY <1>3, <1>18, <1>19 DEF MonthDone
  <2>2. e = g
    BY <1>11, <2>1
  <2>3. YearAfter(y, m, d) = y /\ MonthAfter(y, m, d) = m /\ DayAfter(y, m, d) = d + 1
    BY <1>19, Zenon DEF YearAfter, MonthAfter, DayAfter
  <2> QED BY <1>6, <1>15, <1>17, <2>2, <2>3 DEF SameTime, SameModes, e, w
<1>20. CASE MonthDone(y, m, d)
  <2>1. ~(d < MonthLength(m, y))
    BY <1>3, <1>18, <1>20 DEF MonthDone
  <2>2. e = AdvanceMonth(f)
    BY <1>11, <2>1
  <2>3. /\ YearAfter(y, m, d) = IF m = 12 THEN NextYear(y) ELSE y
        /\ MonthAfter(y, m, d) = IF m \in 1 .. 11 THEN m + 1 ELSE 1
        /\ DayAfter(y, m, d) = 1
    BY <1>20 DEF YearAfter, MonthAfter, DayAfter
  <2>4. /\ DateShows(e, IF m = 12 THEN NextYear(y) ELSE y,
                     IF m \in 1 .. 11 THEN m + 1 ELSE 1, 1)
        /\ e.dow = f.dow /\ SameTime(f, e) /\ SameModes(f, e)
    BY <1>13, <1>17, <2>2, MonthShows
  <2>5. DateShows(e, YearAfter(y, m, d), MonthAfter(y, m, d), DayAfter(y, m, d))
    BY <2>3, <2>4, Zenon
  <2>6. e.dow = w /\ SameTime(r, e) /\ SameModes(r, e)
    BY <1>6, <1>14, <2>4 DEF SameTime, SameModes
  <2> QED BY <2>5, <2>6 DEF e, w
<1> QED BY <1>19, <1>20
----------------------------------------------------------------------------
(* A second of the registers, and the time and the alarm they hold.         *)

SecAfter(s) == IF s = 59 THEN 0 ELSE s + 1
MinAfter(i, s) == IF s # 59 THEN i ELSE IF i = 59 THEN 0 ELSE i + 1
HourAfter(h, i, s) ==
  IF s # 59 \/ i # 59 THEN h ELSE IF h = 23 THEN 0 ELSE h + 1

EndOfDay(h, i, s) == h = 23 /\ i = 59 /\ s = 59

LEMMA CalendarShows ==
  ASSUME NEW r \in Rtc, NEW y \in Years, NEW m \in 0 .. 12, NEW d,
         NEW h \in 0 .. 23, NEW i \in 0 .. 59, NEW s \in 0 .. 59,
         DateShows(r, y, m, d), TimeShows(r, h, i, s), Dated(y, m, d, r.dow)
  PROVE  LET e == AdvanceCalendar(r)
         IN  /\ TimeShows(e, HourAfter(h, i, s), MinAfter(i, s), SecAfter(s))
             /\ SameModes(r, e)
             /\ ~EndOfDay(h, i, s) => SameDate(r, e)
             /\ EndOfDay(h, i, s) =>
                  /\ DateShows(e, YearAfter(y, m, d), MonthAfter(y, m, d), DayAfter(y, m, d))
                  /\ e.dow = NextDow(r.dow)
<1> DEFINE sec == FieldInc(r.sec, 59, r.binary)
           min == FieldInc(r.min, 59, r.binary)
           a == [r EXCEPT !.sec = sec]
           b == [a EXCEPT !.min = min]
           hour == HourInc(b)
           c == [b EXCEPT !.hour = hour]
           e == AdvanceCalendar(r)
<1>1. r.binary \in BOOLEAN /\ r.h24 \in BOOLEAN /\ 59 \in {23, 59, 99}
  BY DEF Rtc
<1>2. /\ r.hour = HourCode(h, r.h24, r.binary)
      /\ r.min = EncodeField(i, r.binary) /\ r.sec = EncodeField(s, r.binary)
  BY DEF TimeShows
<1>3. /\ FieldWraps(r.sec, 59, r.binary) <=> s = 59
      /\ sec = EncodeField(SecAfter(s), r.binary)
  BY <1>1, <1>2, Incremented DEF SecAfter
<1>4. /\ FieldWraps(r.min, 59, r.binary) <=> i = 59
      /\ min = EncodeField(IF i = 59 THEN 0 ELSE i + 1, r.binary)
  BY <1>1, <1>2, Incremented
<1>5. sec \in CmosByte /\ min \in CmosByte
  <2>1. SecAfter(s) \in Int /\ (IF i = 59 THEN 0 ELSE i + 1) \in Int
    BY DEF SecAfter
  <2> QED BY <1>1, <1>3, <1>4, <2>1, EncodedByte
<1> HIDE DEF sec, min
<1>6. a \in Rtc
  BY <1>5, ZenonT(60) DEF Rtc
<1>7. /\ SameModes(r, a) /\ SameDate(r, a) /\ a.hour = r.hour /\ a.min = r.min /\ a.sec = sec
  BY DEF Rtc, SameModes, SameDate
<1>8. b \in Rtc
  <2> HIDE DEF a
  <2> QED BY <1>5, <1>6, ZenonT(60) DEF Rtc
<1>9. /\ SameModes(a, b) /\ SameDate(a, b) /\ b.hour = a.hour /\ b.min = min /\ b.sec = a.sec
  <2> HIDE DEF a
  <2> QED BY <1>6 DEF Rtc, SameModes, SameDate
<1>10. e = IF s # 59 THEN a
           ELSE IF i # 59 THEN b
           ELSE IF HourWraps(b) THEN AdvanceDay(c) ELSE c
  BY <1>3, <1>4 DEF AdvanceCalendar, AdvanceHour, sec, min
<1> HIDE DEF a, b
<1>11. SameModes(r, b) /\ SameDate(r, b) /\ b.hour = r.hour /\ b.min = min /\ b.sec = sec
  BY <1>7, <1>9 DEF SameModes, SameDate
<1>12. b.binary = r.binary /\ b.h24 = r.h24 /\ a.binary = r.binary /\ a.h24 = r.h24
  BY <1>7, <1>11 DEF SameModes
<1>13. CASE s # 59
  <2>1. e = a /\ ~EndOfDay(h, i, s)
    BY <1>10, <1>13 DEF EndOfDay
  <2>2. TimeShows(a, h, i, SecAfter(s))
    BY <1>2, <1>3, <1>7, <1>12 DEF TimeShows
  <2>3. HourAfter(h, i, s) = h /\ MinAfter(i, s) = i
    BY <1>13 DEF HourAfter, MinAfter
  <2> HIDE DEF e
  <2> QED BY <1>7, <2>1, <2>2, <2>3 DEF e
<1>14. CASE s = 59 /\ i # 59
  <2>1. e = b /\ ~EndOfDay(h, i, s)
    BY <1>10, <1>14 DEF EndOfDay
  <2>2. MinAfter(i, s) = i + 1 /\ HourAfter(h, i, s) = h
    BY <1>14 DEF HourAfter, MinAfter
  <2>3. TimeShows(b, h, i + 1, SecAfter(s))
    BY <1>2, <1>3, <1>4, <1>11, <1>12, <1>14 DEF TimeShows
  <2> HIDE DEF e
  <2> QED BY <1>11, <2>1, <2>2, <2>3 DEF e
<1>15. CASE s = 59 /\ i = 59
  <2> DEFINE n == IF h = 23 THEN 0 ELSE h + 1
  <2>1. n \in 0 .. 23
    OBVIOUS
  <2>2. b.hour = HourCode(h, b.h24, b.binary)
    BY <1>2, <1>11, <1>12
  <2>3. (HourWraps(b) <=> h = 23) /\ hour = HourCode(n, r.h24, r.binary)
    BY <1>8, <1>12, <2>2, HourAdvances
  <2>4. HourAfter(h, i, s) = n /\ MinAfter(i, s) = 0
    BY <1>15 DEF HourAfter, MinAfter
  <2> HIDE DEF n, hour
  <2>5. hour \in CmosByte
    <3>1. r.h24 \in BOOLEAN /\ HourCode(n, r.h24, r.binary) \in 0 .. DontCare - 1
      BY <1>1, <2>1, HourRead
    <3> QED BY <2>3, <3>1 DEF DontCare, CmosByte
  <2>6. c \in Rtc
    BY <1>8, <2>5, ZenonT(60) DEF Rtc
  <2>7. SameModes(b, c) /\ SameDate(b, c) /\ c.hour = hour /\ c.min = b.min /\ c.sec = b.sec
    BY <1>8 DEF Rtc, SameModes, SameDate
  <2>8. e = IF h = 23 THEN AdvanceDay(c) ELSE c
    BY <1>10, <1>15, <2>3
  <2> HIDE DEF c, e
  <2>9. SameModes(r, c) /\ SameDate(r, c) /\ c.min = min /\ c.sec = sec
    BY <1>11, <2>7 DEF SameModes, SameDate
  <2>10. c.binary = r.binary /\ c.h24 = r.h24
    BY <2>9 DEF SameModes
  <2>11. TimeShows(c, n, 0, SecAfter(s))
    BY <1>3, <1>4, <1>15, <2>3, <2>7, <2>9, <2>10 DEF TimeShows
  <2>12. CASE h # 23
    <3>1. e = c /\ ~EndOfDay(h, i, s)
      BY <2>8, <2>12 DEF EndOfDay
    <3> QED BY <2>4, <2>9, <2>11, <3>1 DEF e
  <2>13. CASE h = 23
    <3>1. e = AdvanceDay(c) /\ EndOfDay(h, i, s)
      BY <1>15, <2>8, <2>13 DEF EndOfDay
    <3>2. DateShows(c, y, m, d) /\ Dated(y, m, d, c.dow) /\ c.dow = r.dow
      BY <2>9, <2>10, Zenon DEF SameDate, DateShows
    <3>3. /\ DateShows(e, YearAfter(y, m, d), MonthAfter(y, m, d), DayAfter(y, m, d))
          /\ e.dow = NextDow(c.dow) /\ SameTime(c, e) /\ SameModes(c, e)
      BY <2>6, <3>1, <3>2, DayShows, Zenon
    <3>4. SameModes(r, e)
      BY <2>9, <3>3 DEF SameModes
    <3>5. TimeShows(e, n, 0, SecAfter(s))
      BY <2>11, <3>3 DEF TimeShows, SameTime, SameModes
    <3> QED BY <2>4, <3>1, <3>2, <3>3, <3>4, <3>5 DEF e
  <2> QED BY <2>12, <2>13
<1> QED BY <1>13, <1>14, <1>15

(* The registers show a time, and hold an alarm.                            *)
Shows(r, y, m, d, h, i, s) ==
  DateShows(r, y, m, d) /\ TimeShows(r, h, i, s) /\ Dated(y, m, d, r.dow)

InDay(h, i, s) == h * 3600 + i * 60 + s
At(y, m, d, h, i, s) == [day |-> DaysBefore(y, m, d), second |-> InDay(h, i, s)]

LEMMA TimeIs ==
  ASSUME NEW r \in Rtc, NEW y \in Years, NEW m \in 0 .. 12, NEW d,
         NEW h \in 0 .. 23, NEW i \in 0 .. 59, NEW s \in 0 .. 59,
         Shows(r, y, m, d, h, i, s)
  PROVE  TimeOf(r) = IF ~r.set /\ Proper(y, m, d, r.dow) THEN At(y, m, d, h, i, s) ELSE NoTime
<1>1. /\ r.binary \in BOOLEAN /\ r.h24 \in BOOLEAN /\ m \in 0 .. 99
      /\ i \in 0 .. 99 /\ s \in 0 .. 99
  BY DEF Rtc
<1>2. /\ r.century = EncodeField(y \div 100, r.binary)
      /\ r.year = EncodeField(y % 100, r.binary)
      /\ r.month = EncodeField(m, r.binary) /\ r.day = EncodeField(d, r.binary)
      /\ r.hour = HourCode(h, r.h24, r.binary)
      /\ r.min = EncodeField(i, r.binary) /\ r.sec = EncodeField(s, r.binary)
      /\ Dated(y, m, d, r.dow)
  BY DEF Shows, DateShows, TimeShows
<1>3. d \in 0 .. 99
  BY <1>2, MonthLengths DEF Dated
<1>4. FullYear(r) = y
  BY <1>2, YearShows, Zenon
<1>5. DecodeField(r.month, r.binary) = m /\ (r.month = 0 <=> m = 0)
  BY <1>1, <1>2, Decoded, EncodedSmall
<1>6. DecodeField(r.day, r.binary) = d
  BY <1>1, <1>2, <1>3, Decoded
<1>7. HourOf(r, r.hour) = h
  BY <1>2, HourRead
<1>8. DecodeField(r.min, r.binary) = i /\ DecodeField(r.sec, r.binary) = s
  BY <1>1, <1>2, Decoded
<1>9. DayOf(r) = DaysBefore(y, m, d)
  BY <1>4, <1>5, <1>6 DEF DayOf
<1>10. IsSet(r) <=> ~r.set /\ Proper(y, m, d, r.dow)
  BY <1>5, <1>9, Zenon DEF IsSet, Proper
<1>11. HourOf(r, r.hour) * 3600 + DecodeField(r.min, r.binary) * 60
         + DecodeField(r.sec, r.binary) = InDay(h, i, s)
  BY <1>7, <1>8 DEF InDay
<1> QED BY <1>9, <1>10, <1>11 DEF TimeOf, At

(* Two fields show the same if and only if they are the same.               *)
LEMMA SameCode ==
  ASSUME NEW n \in 0 .. 59, NEW k \in 0 .. 59, NEW binary \in BOOLEAN
  PROVE  /\ EncodeField(n, binary) = EncodeField(k, binary) <=> n = k
         /\ ~(EncodeField(n, binary) >= DontCare)
<1>1. n \in 0 .. 99 /\ k \in 0 .. 99 /\ n <= 59 /\ DontCare \in Int
  BY DEF DontCare
<1>2. /\ DecodeField(EncodeField(n, binary), binary) = n
      /\ DecodeField(EncodeField(k, binary), binary) = k
  BY <1>1, Decoded
<1>3. EncodeField(n, binary) \in 0 .. 153 /\ EncodeField(n, binary) < DontCare
  BY <1>1, EncodedSmall
<1>4. ~(EncodeField(n, binary) >= DontCare)
  BY <1>1, <1>3
<1> QED BY <1>2, <1>4, Zenon

HoldsHour(r) ==
  \/ r.aHour >= DontCare
  \/ \E q \in 0 .. 23 : r.aHour = HourCode(q, r.h24, r.binary)

HoldsAlarm(r) ==
  /\ \E n \in 0 .. 59 : r.aSec = EncodeField(n, r.binary)
  /\ \E k \in 0 .. 59 : r.aMin = EncodeField(k, r.binary)
  /\ HoldsHour(r)

HourPart(t) == t \div 3600
MinPart(t) == (t \div 60) % 60
SecPart(t) == t % 60

LEMMA SecondOfDay ==
  ASSUME NEW h \in 0 .. 23, NEW i \in 0 .. 59, NEW s \in 0 .. 59
  PROVE  /\ HourPart(InDay(h, i, s)) = h /\ MinPart(InDay(h, i, s)) = i
         /\ SecPart(InDay(h, i, s)) = s
<1> DEFINE t == InDay(h, i, s)
           u == h * 60 + i
<1>0. t = h * 3600 + i * 60 + s
  BY DEF InDay
<1> HIDE DEF t
<1>1. u \in Int /\ t = 60 * u + s /\ t \in Int /\ u = 60 * h + i
  BY <1>0
<1>2. t \div 3600 = h
  BY <1>0
<1> HIDE DEF u
<1>3. t % 60 = s /\ t \div 60 = u
  BY <1>1
<1>4. u % 60 = i
  BY <1>1
<1>5. (t \div 60) % 60 = i
  BY <1>3, <1>4
<1>6. t % 60 = s
  BY <1>3
<1> QED BY <1>2, <1>5, <1>6 DEF t, HourPart, MinPart, SecPart

LEMMA SecondNext ==
  ASSUME NEW h \in 0 .. 23, NEW i \in 0 .. 59, NEW s \in 0 .. 59
  PROVE  /\ InDay(h, i, s) = Wall!SecondsPerDay - 1 <=> EndOfDay(h, i, s)
         /\ ~EndOfDay(h, i, s) =>
              InDay(h, i, s) + 1 = InDay(HourAfter(h, i, s), MinAfter(i, s), SecAfter(s))
<1>1. InDay(h, i, s) = Wall!SecondsPerDay - 1 <=> EndOfDay(h, i, s)
  <2>1. InDay(h, i, s) = 86399 <=> EndOfDay(h, i, s)
    BY DEF EndOfDay, InDay
  <2>2. Wall!SecondsPerDay - 1 = 86399
    BY DEF Wall!SecondsPerDay
  <2> QED BY <2>1, <2>2
<1>2. ASSUME ~EndOfDay(h, i, s)
      PROVE  InDay(h, i, s) + 1 = InDay(HourAfter(h, i, s), MinAfter(i, s), SecAfter(s))
  BY <1>2 DEF InDay, EndOfDay, HourAfter, MinAfter, SecAfter
<1> QED BY <1>1, <1>2

LEMMA AlarmIs ==
  ASSUME NEW r \in Rtc, NEW y \in Years, NEW m \in 0 .. 12, NEW d,
         NEW h \in 0 .. 23, NEW i \in 0 .. 59, NEW s \in 0 .. 59,
         Shows(r, y, m, d, h, i, s), HoldsAlarm(r), TimeOf(r) # NoTime
  PROVE  AlarmMatches(r) <=> Wall!Rings(AlarmOf(r), TimeOf(r))
<1>1. r.binary \in BOOLEAN /\ r.aHour \in Int /\ DontCare \in Int
  BY DEF Rtc, CmosByte, DontCare
<1>2. TimeOf(r) = At(y, m, d, h, i, s)
  BY TimeIs
<1>3. /\ r.hour = HourCode(h, r.h24, r.binary)
      /\ r.min = EncodeField(i, r.binary) /\ r.sec = EncodeField(s, r.binary)
  BY DEF Shows, TimeShows
<1> DEFINE t == InDay(h, i, s)
<1>4. TimeOf(r).second = t
  BY <1>2 DEF At
<1>5. HourPart(t) = h /\ MinPart(t) = i /\ SecPart(t) = s
  BY SecondOfDay, Zenon
<1> HIDE DEF t
<1>6. AlarmOf(r).second \in {-1, s} <=> Matches(r.aSec, r.sec)
  <2>1. PICK n \in 0 .. 59 : r.aSec = EncodeField(n, r.binary)
    BY DEF HoldsAlarm
  <2>2. /\ r.aSec = r.sec <=> n = s
        /\ ~(r.aSec >= DontCare)
    BY <1>1, <1>3, <2>1, SameCode
  <2>3. DecodeField(r.aSec, r.binary) = n
    BY <1>1, <2>1, Decoded
  <2>4. AlarmOf(r).second = n
    BY <2>2, <2>3 DEF AlarmOf, AlarmField
  <2>5. n \in {-1, s} <=> n = s
    OBVIOUS
  <2> QED BY <2>2, <2>4, <2>5, Zenon DEF Matches
<1>7. AlarmOf(r).minute \in {-1, i} <=> Matches(r.aMin, r.min)
  <2>1. PICK n \in 0 .. 59 : r.aMin = EncodeField(n, r.binary)
    BY DEF HoldsAlarm
  <2>2. /\ r.aMin = r.min <=> n = i
        /\ ~(r.aMin >= DontCare)
    BY <1>1, <1>3, <2>1, SameCode
  <2>3. DecodeField(r.aMin, r.binary) = n
    BY <1>1, <2>1, Decoded
  <2>4. AlarmOf(r).minute = n
    BY <2>2, <2>3 DEF AlarmOf, AlarmField
  <2>5. n \in {-1, i} <=> n = i
    OBVIOUS
  <2> QED BY <2>2, <2>4, <2>5, Zenon DEF Matches
<1>8. AlarmOf(r).hour \in {-1, h} <=> Matches(r.aHour, r.hour)
  <2>1. CASE r.aHour >= DontCare
    BY <2>1 DEF AlarmOf, Matches
  <2>2. CASE ~(r.aHour >= DontCare)
    <3>1. PICK q \in 0 .. 23 : r.aHour = HourCode(q, r.h24, r.binary)
      BY <2>2 DEF HoldsAlarm, HoldsHour
    <3>2. HourOf(r, r.aHour) = q /\ HourOf(r, r.hour) = h
      BY <1>3, <3>1, HourRead
    <3>3. r.aHour = r.hour <=> q = h
      BY <1>3, <3>1, <3>2, Zenon
    <3>4. AlarmOf(r).hour = q
      BY <2>2, <3>2 DEF AlarmOf
    <3>5. q \in {-1, h} <=> q = h
      OBVIOUS
    <3> QED BY <2>2, <3>3, <3>4, <3>5, Zenon DEF Matches
  <2> QED BY <2>1, <2>2
<1>9. Wall!Rings(AlarmOf(r), TimeOf(r)) <=>
        /\ AlarmOf(r).hour \in {-1, h} /\ AlarmOf(r).minute \in {-1, i}
        /\ AlarmOf(r).second \in {-1, s}
  BY <1>4, <1>5 DEF Wall!Rings, HourPart, MinPart, SecPart
<1> QED BY <1>6, <1>7, <1>8, <1>9, Zenon DEF AlarmMatches
----------------------------------------------------------------------------
(* The steps of the clock as WallClock sees them.                           *)

Keeps(r) ==
  /\ r \in Rtc /\ HoldsAlarm(r)
  /\ \E y \in Years, m \in 0 .. 12, d \in 0 .. 31, h \in 0 .. 23, i \in 0 .. 59, s \in 0 .. 59 :
       Shows(r, y, m, d, h, i, s)

SameClock(r, e) == SameTime(r, e) /\ SameDate(r, e) /\ SameModes(r, e)

SameShown(r, e) ==
  SameTime(r, e) /\ SameDate(r, e) /\ e.binary = r.binary /\ e.h24 = r.h24

SameAlarm(r, e) == e.aSec = r.aSec /\ e.aMin = r.aMin /\ e.aHour = r.aHour

LEMMA ShownSame ==
  ASSUME NEW r, NEW e, SameShown(r, e)
  PROVE  /\ e.set = r.set => TimeOf(e) = TimeOf(r)
         /\ SameAlarm(r, e) => AlarmOf(e) = AlarmOf(r) /\ (HoldsAlarm(r) => HoldsAlarm(e))
         /\ e \in Rtc /\ HoldsAlarm(e) /\ Keeps(r) => Keeps(e)
<1>1. /\ e.century = r.century /\ e.year = r.year /\ e.month = r.month /\ e.day = r.day
      /\ e.dow = r.dow /\ e.hour = r.hour /\ e.min = r.min /\ e.sec = r.sec
      /\ e.binary = r.binary /\ e.h24 = r.h24
  BY Zenon DEF SameShown, SameTime, SameDate
<1>2. FullYear(e) = FullYear(r)
  BY <1>1, Zenon DEF FullYear
<1>3. DayOf(e) = DayOf(r)
  BY <1>1, <1>2, Zenon DEF DayOf
<1>4. HourOf(e, e.hour) = HourOf(r, r.hour)
  BY <1>1, Zenon DEF HourOf
<1>5. e.set = r.set => (IsSet(e) <=> IsSet(r))
  BY <1>1, <1>3, Zenon DEF IsSet
<1>6. e.set = r.set => TimeOf(e) = TimeOf(r)
  BY <1>1, <1>3, <1>4, <1>5 DEF TimeOf
<1>7. ASSUME SameAlarm(r, e)
      PROVE  AlarmOf(e) = AlarmOf(r) /\ (HoldsAlarm(r) => HoldsAlarm(e))
  <2>1. e.aSec = r.aSec /\ e.aMin = r.aMin /\ e.aHour = r.aHour
    BY <1>7 DEF SameAlarm
  <2>2. AlarmOf(e) = AlarmOf(r)
    BY <1>1, <2>1, Zenon DEF AlarmOf, AlarmField, HourOf
  <2>3. HoldsAlarm(r) => HoldsAlarm(e)
    BY <1>1, <2>1, Zenon DEF HoldsAlarm, HoldsHour
  <2> QED BY <2>2, <2>3
<1>8. ASSUME NEW y, NEW m, NEW d, NEW h, NEW i, NEW s, Shows(r, y, m, d, h, i, s)
      PROVE  Shows(e, y, m, d, h, i, s)
  BY <1>1, <1>8, Zenon DEF Shows, DateShows, TimeShows
<1>9. ASSUME e \in Rtc, HoldsAlarm(e), Keeps(r)
      PROVE  Keeps(e)
  <2>1. PICK y \in Years, m \in 0 .. 12, d \in 0 .. 31, h \in 0 .. 23, i \in 0 .. 59,
             s \in 0 .. 59 : Shows(r, y, m, d, h, i, s)
    BY <1>9, Zenon DEF Keeps
  <2>2. Shows(e, y, m, d, h, i, s)
    BY <1>8, <2>1, Zenon
  <2> QED BY <1>9, <2>1, <2>2, Zenon DEF Keeps
<1> QED BY <1>6, <1>7, <1>9

LEMMA ClockSame ==
  ASSUME NEW r, NEW e, SameClock(r, e)
  PROVE  /\ TimeOf(e) = TimeOf(r) /\ AlarmOf(e) = AlarmOf(r)
         /\ AlarmMatches(e) <=> AlarmMatches(r)
         /\ e \in Rtc /\ Keeps(r) => Keeps(e)
<1>1. SameShown(r, e) /\ SameAlarm(r, e) /\ e.set = r.set
  BY Zenon DEF SameClock, SameModes, SameShown, SameAlarm
<1>2. AlarmMatches(e) <=> AlarmMatches(r)
  BY <1>1, Zenon DEF AlarmMatches, SameShown, SameTime, SameAlarm
<1>3. Keeps(r) => HoldsAlarm(r)
  BY DEF Keeps
<1> QED BY <1>1, <1>2, <1>3, ShownSame

LEMMA FlaggedRings ==
  ASSUME NEW r \in Rtc, NEW sources \in SUBSET {"P", "U"}
  PROVE  LET e == Flagged(r, sources)
         IN  e \in Rtc /\ SameClock(r, e) /\ ("A" \in e.flags <=> "A" \in r.flags \/ AlarmMatches(r))
<1> DEFINE f == r.flags \cup sources \cup (IF AlarmMatches(r) THEN {"A"} ELSE {})
           b == [r EXCEPT !.flags = f]
           q == b.flags \cap b.enables # {}
           e == Flagged(r, sources)
<1>1. f \in SUBSET Sources
  BY DEF Rtc, Sources
<1>2. "A" \in f <=> "A" \in r.flags \/ AlarmMatches(r)
  OBVIOUS
<1>3. e = [b EXCEPT !.irqf = q]
  BY DEF Flagged, RecomputeIrqf
<1> HIDE DEF f
<1>4. b \in Rtc
  BY <1>1, ZenonT(60) DEF Rtc
<1>5. SameClock(r, b) /\ b.flags = f
  BY DEF Rtc, SameClock, SameTime, SameDate, SameModes
<1> HIDE DEF b, q
<1>6. SameClock(b, e) /\ e.flags = b.flags
  <2> HIDE DEF e
  <2> QED BY <1>3, <1>4 DEF Rtc, SameClock, SameTime, SameDate, SameModes
<1>7. e \in Rtc
  BY FlaggedTyped DEF Sources
<1> HIDE DEF e
<1>8. SameClock(r, e)
  BY <1>5, <1>6, Zenon DEF SameClock, SameTime, SameDate, SameModes
<1> QED BY <1>2, <1>5, <1>6, <1>7, <1>8 DEF e

LEMMA PeriodsRing ==
  ASSUME NEW r \in Rtc, NEW n \in Nat
  PROVE  LET e == RtcPeriods(r, n)
         IN  e \in Rtc /\ SameClock(r, e) /\ ("A" \in e.flags <=> "A" \in r.flags \/ AlarmMatches(r))
<1> DEFINE sources == (IF r.periodic THEN {"P"} ELSE {}) \cup (IF r.set THEN {} ELSE {"U"})
           f == Flagged(r, sources)
           hold == IF f.hold > n THEN f.hold - n ELSE 0
           uip == f.uip /\ (f.hold = 0 \/ f.hold > n)
           e == [f EXCEPT !.hold = hold, !.uip = uip]
<1>1. sources \in SUBSET {"P", "U"}
  OBVIOUS
<1>2. RtcPeriods(r, n) = e
  BY DEF RtcPeriods, DecayUip
<1> HIDE DEF sources
<1>3. f \in Rtc /\ SameClock(r, f) /\ ("A" \in f.flags <=> "A" \in r.flags \/ AlarmMatches(r))
  BY <1>1, FlaggedRings
<1> HIDE DEF f, hold, uip
<1>4. SameClock(f, e) /\ e.flags = f.flags
  BY <1>3 DEF Rtc, SameClock, SameTime, SameDate, SameModes
<1>5. e \in Rtc
  BY <1>2, PeriodsTyped
<1> HIDE DEF e
<1>6. SameClock(r, e)
  BY <1>3, <1>4, Zenon DEF SameClock, SameTime, SameDate, SameModes
<1> QED BY <1>2, <1>3, <1>4, <1>5, <1>6

LEMMA SecondRings ==
  ASSUME NEW r \in Rtc, ~r.set
  PROVE  LET c == AdvanceCalendar(r)
             e == RtcSecond(r)
         IN  /\ c \in Rtc /\ e \in Rtc /\ SameClock(c, e)
             /\ "A" \in e.flags <=> "A" \in r.flags \/ AlarmMatches(c)
<1> DEFINE c == AdvanceCalendar(r)
           f == Flagged(c, {"U"})
           e == [f EXCEPT !.uip = TRUE, !.hold = UipWindow]
<1>1. RtcSecond(r) = e
  BY DEF RtcSecond
<1>2. c \in Rtc /\ c.flags = r.flags
  BY CalendarTyped, CalendarFlags DEF SameFlags
<1> HIDE DEF c
<1>3. f \in Rtc /\ SameClock(c, f) /\ ("A" \in f.flags <=> "A" \in c.flags \/ AlarmMatches(c))
  BY <1>2, FlaggedRings
<1> HIDE DEF f
<1>4. SameClock(f, e) /\ e.flags = f.flags
  BY <1>3 DEF Rtc, SameClock, SameTime, SameDate, SameModes
<1>5. e \in Rtc
  BY <1>1, SecondTyped
<1> HIDE DEF e
<1>6. SameClock(c, e)
  BY <1>3, <1>4, Zenon DEF SameClock, SameTime, SameDate, SameModes
<1> QED BY <1>1, <1>2, <1>3, <1>4, <1>5, <1>6 DEF c

LEMMA Afterwards ==
  ASSUME NEW h \in 0 .. 23, NEW i \in 0 .. 59, NEW s \in 0 .. 59
  PROVE  /\ HourAfter(h, i, s) \in 0 .. 23 /\ MinAfter(i, s) \in 0 .. 59
         /\ SecAfter(s) \in 0 .. 59
         /\ EndOfDay(h, i, s) => HourAfter(h, i, s) = 0 /\ MinAfter(i, s) = 0 /\ SecAfter(s) = 0
BY DEF HourAfter, MinAfter, SecAfter, EndOfDay

LEMMA NoSuchTime ==
  ASSUME NEW y, NEW m, NEW d, NEW h \in 0 .. 23, NEW i \in 0 .. 59, NEW s \in 0 .. 59
  PROVE  At(y, m, d, h, i, s) # NoTime
<1> DEFINE t == InDay(h, i, s)
<1>1. t # -1
  BY DEF InDay
<1> HIDE DEF t
<1>2. At(y, m, d, h, i, s).second = t
  BY DEF At, t
<1>3. NoTime.second = -1
  BY DEF NoTime
<1> QED BY <1>1, <1>2, <1>3, Zenon

LEMMA SecondPasses ==
  ASSUME NEW r, Keeps(r)
  PROVE  LET e == AdvanceCalendar(r)
         IN  /\ Keeps(e) /\ AlarmOf(e) = AlarmOf(r)
             /\ TimeOf(e) = IF TimeOf(r) = NoTime THEN NoTime ELSE Wall!Later(TimeOf(r))
<1> DEFINE e == AdvanceCalendar(r)
<1>1. r \in Rtc /\ HoldsAlarm(r) /\ e \in Rtc
  BY CalendarTyped DEF Keeps
<1>2. PICK y \in Years, m \in 0 .. 12, d \in 0 .. 31, h \in 0 .. 23, i \in 0 .. 59, s \in 0 .. 59 :
        Shows(r, y, m, d, h, i, s)
  BY Zenon DEF Keeps
<1> DEFINE k == HourAfter(h, i, s)
           l == MinAfter(i, s)
           o == SecAfter(s)
           z == YearAfter(y, m, d)
           n == MonthAfter(y, m, d)
           q == DayAfter(y, m, d)
           t == InDay(h, i, s)
<1>3. /\ DateShows(r, y, m, d) /\ TimeShows(r, h, i, s) /\ Dated(y, m, d, r.dow)
  BY <1>2 DEF Shows
<1>4. /\ TimeShows(e, k, l, o) /\ SameModes(r, e)
      /\ ~EndOfDay(h, i, s) => SameDate(r, e)
      /\ EndOfDay(h, i, s) => DateShows(e, z, n, q) /\ e.dow = NextDow(r.dow)
  BY <1>1, <1>3, CalendarShows, Zenon
<1>5. k \in 0 .. 23 /\ l \in 0 .. 59 /\ o \in 0 .. 59
      /\ (EndOfDay(h, i, s) => k = 0 /\ l = 0 /\ o = 0)
  BY Afterwards
<1>6. /\ z \in Years /\ n \in 0 .. 12 /\ Dated(z, n, q, NextDow(r.dow))
      /\ Proper(z, n, q, NextDow(r.dow)) <=> Proper(y, m, d, r.dow)
      /\ Proper(y, m, d, r.dow) => DaysBefore(z, n, q) = NextDay(DaysBefore(y, m, d))
  BY <1>3, DatedNext, Zenon
<1>7. /\ t = Wall!SecondsPerDay - 1 <=> EndOfDay(h, i, s)
      /\ ~EndOfDay(h, i, s) => t + 1 = InDay(k, l, o)
  BY SecondNext, Zenon
<1>8. TimeOf(r) = IF ~r.set /\ Proper(y, m, d, r.dow) THEN At(y, m, d, h, i, s) ELSE NoTime
  BY <1>1, <1>2, TimeIs, Zenon
<1>9. At(y, m, d, h, i, s) # NoTime
  BY NoSuchTime
<1>10. At(y, m, d, h, i, s) = [day |-> DaysBefore(y, m, d), second |-> t]
  BY DEF At
<1> HIDE DEF e, k, l, o, z, n, q, t
<1>11. AlarmOf(e) = AlarmOf(r) /\ HoldsAlarm(e)
  BY <1>1, <1>4, Zenon DEF SameModes, AlarmOf, AlarmField, HourOf, HoldsAlarm, HoldsHour
<1>12. e.set = r.set /\ e.binary = r.binary
  BY <1>4 DEF SameModes
<1>13. CASE ~EndOfDay(h, i, s)
  <2>1. Shows(e, y, m, d, k, l, o) /\ e.dow = r.dow
    BY <1>3, <1>4, <1>12, <1>13, Zenon DEF Shows, DateShows, SameDate
  <2>2. TimeOf(e) = IF ~e.set /\ Proper(y, m, d, e.dow) THEN At(y, m, d, k, l, o) ELSE NoTime
    BY <1>1, <1>5, <2>1, TimeIs, Zenon
  <2>3. At(y, m, d, k, l, o) = [day |-> DaysBefore(y, m, d), second |-> t + 1]
    BY <1>7, <1>13 DEF At
  <2>4. Wall!Later(At(y, m, d, h, i, s)) = At(y, m, d, k, l, o)
    BY <1>7, <1>10, <1>13, <2>3 DEF Wall!Later
  <2>5. Keeps(e)
    BY <1>1, <1>5, <1>11, <2>1, Zenon DEF Keeps
  <2>6. TimeOf(e) = IF TimeOf(r) = NoTime THEN NoTime ELSE Wall!Later(TimeOf(r))
    BY <1>8, <1>9, <1>12, <2>1, <2>2, <2>4, Zenon
  <2> QED BY <1>11, <2>5, <2>6 DEF e
<1>14. CASE EndOfDay(h, i, s)
  <2>1. e.dow = NextDow(r.dow) /\ Shows(e, z, n, q, k, l, o)
    BY <1>4, <1>6, <1>14, Zenon DEF Shows
  <2>2. TimeOf(e) = IF ~e.set /\ Proper(z, n, q, e.dow) THEN At(z, n, q, k, l, o) ELSE NoTime
    BY <1>1, <1>5, <1>6, <2>1, TimeIs, Zenon
  <2>3. At(z, n, q, k, l, o) = [day |-> DaysBefore(z, n, q), second |-> 0]
    BY <1>5, <1>14 DEF At, InDay
  <2>4. Proper(y, m, d, r.dow) => Wall!Later(At(y, m, d, h, i, s)) = At(z, n, q, k, l, o)
    BY <1>6, <1>7, <1>10, <1>14, <2>3 DEF Wall!Later, NextDay, FirstDay, LastDay
  <2>5. q \in 0 .. 31
    BY <1>6, MonthLengths DEF Dated
  <2>6. Keeps(e)
    BY <1>1, <1>5, <1>6, <1>11, <2>1, <2>5, Zenon DEF Keeps
  <2>7. TimeOf(e) = IF TimeOf(r) = NoTime THEN NoTime ELSE Wall!Later(TimeOf(r))
    BY <1>6, <1>8, <1>9, <1>12, <2>1, <2>2, <2>4, Zenon
  <2> QED BY <1>11, <2>6, <2>7 DEF e
<1> QED BY <1>13, <1>14

LEMMA MatchesRings ==
  ASSUME NEW r, Keeps(r), TimeOf(r) # NoTime
  PROVE  AlarmMatches(r) <=> Wall!Rings(AlarmOf(r), TimeOf(r))
<1>1. PICK y \in Years, m \in 0 .. 12, d \in 0 .. 31, h \in 0 .. 23, i \in 0 .. 59, s \in 0 .. 59 :
        Shows(r, y, m, d, h, i, s)
  BY Zenon DEF Keeps
<1>2. r \in Rtc /\ HoldsAlarm(r)
  BY DEF Keeps
<1> QED BY <1>1, <1>2, AlarmIs, Zenon

LEMMA StoppedStays ==
  ASSUME NEW r, Keeps(r), r.set
  PROVE  TimeOf(r) = NoTime
BY DEF TimeOf, IsSet

(* The ticks of a step.                                                     *)
Moved(r, periods, seconds) == Updated(Passed(r, periods), seconds)

LEMMA ClockMoves ==
  ASSUME NEW r, Keeps(r), NEW periods \in Nat, NEW seconds \in Nat
  PROVE  LET e == Moved(r, periods, seconds)
         IN  /\ Keeps(e) /\ AlarmOf(e) = AlarmOf(r)
             /\ \/ TimeOf(e) = TimeOf(r)
                \/ TimeOf(r) # NoTime /\ TimeOf(e) = Wall!Later(TimeOf(r))
             /\ "A" \in r.flags => "A" \in e.flags
             /\ "A" \in e.flags /\ "A" \notin r.flags =>
                  \/ TimeOf(e) = NoTime
                  \/ Wall!Rings(AlarmOf(r), TimeOf(r)) \/ Wall!Rings(AlarmOf(r), TimeOf(e))
             /\ TimeOf(e) # TimeOf(r) /\ Wall!Rings(AlarmOf(r), TimeOf(e)) => "A" \in e.flags
<1> DEFINE p == Passed(r, periods)
           c == AdvanceCalendar(p)
           e == Moved(r, periods, seconds)
<1>1. r \in Rtc
  BY DEF Keeps
<1>2. \/ p = r
      \/ p \in Rtc /\ SameClock(r, p) /\ ("A" \in p.flags <=> "A" \in r.flags \/ AlarmMatches(r))
  BY <1>1, PeriodsRing DEF Passed
<1> HIDE DEF p
<1>3. Keeps(p) /\ TimeOf(p) = TimeOf(r) /\ AlarmOf(p) = AlarmOf(r)
  BY <1>2, ClockSame
<1>4. /\ "A" \in r.flags => "A" \in p.flags
      /\ "A" \in p.flags /\ "A" \notin r.flags => AlarmMatches(r)
  BY <1>2
<1>5. TimeOf(r) # NoTime => (AlarmMatches(r) <=> Wall!Rings(AlarmOf(r), TimeOf(r)))
  BY MatchesRings
<1>6. CASE e = p
  <2> HIDE DEF e
  <2> QED BY <1>3, <1>4, <1>5, <1>6 DEF e
<1>7. CASE e # p
  <2>1. ~p.set /\ e = RtcSecond(p)
    BY <1>7 DEF Moved, Updated, RtcSecond, p
  <2>2. p \in Rtc
    BY <1>3 DEF Keeps
  <2>3. /\ c \in Rtc /\ e \in Rtc /\ SameClock(c, e)
        /\ "A" \in e.flags <=> "A" \in p.flags \/ AlarmMatches(c)
    BY <2>1, <2>2, SecondRings
  <2>4. /\ Keeps(c) /\ AlarmOf(c) = AlarmOf(p)
        /\ TimeOf(c) = IF TimeOf(p) = NoTime THEN NoTime ELSE Wall!Later(TimeOf(p))
    BY <1>3, SecondPasses
  <2> HIDE DEF c, e
  <2>5. Keeps(e) /\ TimeOf(e) = TimeOf(c) /\ AlarmOf(e) = AlarmOf(c)
    BY <2>3, <2>4, ClockSame
  <2>6. TimeOf(c) # NoTime => (AlarmMatches(c) <=> Wall!Rings(AlarmOf(c), TimeOf(c)))
    BY <2>4, MatchesRings
  <2>7. /\ Keeps(e) /\ AlarmOf(e) = AlarmOf(r)
        /\ TimeOf(e) = IF TimeOf(r) = NoTime THEN NoTime ELSE Wall!Later(TimeOf(r))
    BY <1>3, <2>4, <2>5
  <2>8. /\ "A" \in r.flags => "A" \in e.flags
        /\ "A" \in e.flags /\ "A" \notin r.flags =>
             \/ TimeOf(e) = NoTime
             \/ Wall!Rings(AlarmOf(r), TimeOf(r)) \/ Wall!Rings(AlarmOf(r), TimeOf(e))
    BY <1>3, <1>4, <1>5, <2>3, <2>5, <2>6, <2>7
  <2>9. TimeOf(e) # TimeOf(r) /\ Wall!Rings(AlarmOf(r), TimeOf(e)) => "A" \in e.flags
    <3>1. ASSUME Wall!Rings(AlarmOf(r), TimeOf(e))
          PROVE  TimeOf(e) # NoTime
      BY <3>1 DEF Wall!Rings
    <3> QED BY <1>3, <2>3, <2>5, <2>6, <2>7, <3>1
  <2> QED BY <2>7, <2>8, <2>9 DEF e
<1> QED BY <1>6, <1>7

(* A step whose instruction leaves the clock as r, as WallClock sees it.    *)
LEMMA WallStep ==
  ASSUME Keeps(rtc), NEW r, Keeps(r), NEW periods \in Nat, NEW seconds \in Nat,
         rtc' = Moved(r, periods, seconds),
         order' \notin Wall!Setting => TimeOf(r) = TimeOf(rtc),
         order' \notin Wall!Setting \cup {"alarm"} => AlarmOf(r) = AlarmOf(rtc),
         "A" \in rtc.flags /\ "A" \notin r.flags => order' \in {"read", "reset"},
         "A" \in r.flags => "A" \in rtc.flags
  PROVE  Keeps(rtc') /\ Wall!WallNext
<1> DEFINE e == Moved(r, periods, seconds)
<1>1. /\ Keeps(e) /\ AlarmOf(e) = AlarmOf(r)
      /\ \/ TimeOf(e) = TimeOf(r)
         \/ TimeOf(r) # NoTime /\ TimeOf(e) = Wall!Later(TimeOf(r))
      /\ "A" \in r.flags => "A" \in e.flags
      /\ "A" \in e.flags /\ "A" \notin r.flags =>
           \/ TimeOf(e) = NoTime
           \/ Wall!Rings(AlarmOf(r), TimeOf(r)) \/ Wall!Rings(AlarmOf(r), TimeOf(e))
      /\ TimeOf(e) # TimeOf(r) /\ Wall!Rings(AlarmOf(r), TimeOf(e)) => "A" \in e.flags
  BY ClockMoves
<1> HIDE DEF e
<1>2. rtc' = e
  BY DEF e
<1>3. Wall!Passes
  BY <1>1, <1>2, Zenon DEF Wall!Passes
<1>4. Wall!KeepsAlarm
  BY <1>1, <1>2, Zenon DEF Wall!KeepsAlarm
<1>5. Wall!RingsOnTime
  <2>1. "A" \in e.flags /\ "A" \notin rtc.flags =>
          \/ Wall!Rings(AlarmOf(e), TimeOf(rtc)) \/ Wall!Rings(AlarmOf(e), TimeOf(e))
          \/ order' \in Wall!Setting \/ TimeOf(e) = NoTime
    BY <1>1
  <2>2. TimeOf(e) # TimeOf(rtc) /\ order' \notin Wall!Setting /\ Wall!Rings(AlarmOf(e), TimeOf(e))
          => "A" \in e.flags
    BY <1>1
  <2>3. "A" \in rtc.flags /\ "A" \notin e.flags => order' \in {"read", "reset"}
    BY <1>1
  <2> QED BY <1>2, <2>1, <2>2, <2>3, Zenon DEF Wall!RingsOnTime
<1> QED BY <1>1, <1>2, <1>3, <1>4, <1>5 DEF Wall!WallNext

(* The clock as it powers on.                                               *)
LEMMA PowerKeeps ==
  ASSUME NEW r, NEW binary \in BOOLEAN, r = [ResetRtc EXCEPT !.binary = binary]
  PROVE  Keeps(r) /\ TimeOf(r) = NoTime /\ r.flags = {}
<1>1. /\ r.century = 0 /\ r.year = 0 /\ r.month = 0 /\ r.day = 0 /\ r.dow = 0
      /\ r.hour = 0 /\ r.min = 0 /\ r.sec = 0 /\ r.aSec = 0 /\ r.aMin = 0 /\ r.aHour = 0
      /\ r.h24 = TRUE /\ r.binary = binary /\ r.flags = {}
  BY DEF ResetRtc
<1>2. ResetRtc \in Rtc
  BY DEF ResetRtc, Rtc, CmosByte, UipWindow
<1>3. r \in Rtc
  BY <1>2, ZenonT(60) DEF Rtc
<1>4. EncodeField(0, binary) = 0 /\ HourCode(0, TRUE, binary) = 0
  BY EncodedSmall DEF HourCode
<1>5. 0 \div 100 = 0 /\ 0 % 100 = 0 /\ 0 \in Years /\ 0 \in 0 .. 12 /\ 0 \in 0 .. 31
      /\ 0 \in 0 .. 59 /\ 0 \in 0 .. 23
  BY DEF Years
<1>6. DateShows(r, 0, 0, 0) /\ TimeShows(r, 0, 0, 0)
  BY <1>1, <1>4, <1>5, Zenon DEF DateShows, TimeShows
<1>7. Dated(0, 0, 0, r.dow)
  BY <1>1 DEF Dated
<1>8. HoldsAlarm(r)
  BY <1>1, <1>4, <1>5, Zenon DEF HoldsAlarm, HoldsHour
<1>9. Keeps(r)
  BY <1>3, <1>5, <1>6, <1>7, <1>8, Zenon DEF Keeps, Shows
<1>10. TimeOf(r) = NoTime
  BY <1>1 DEF TimeOf, IsSet
<1> QED BY <1>1, <1>9, <1>10

(* The stores of the clock.                                                 *)
LEMMA StatusRead ==
  ASSUME NEW r, Keeps(r), NEW periodic \in BOOLEAN
  PROVE  /\ Keeps(ReadStatusC(r)) /\ SameClock(r, ReadStatusC(r))
         /\ ReadStatusC(r).flags = {}
         /\ Keeps(WriteStatusA(r, periodic)) /\ SameClock(r, WriteStatusA(r, periodic))
         /\ WriteStatusA(r, periodic).flags = r.flags
<1> DEFINE c == ReadStatusC(r)
           a == WriteStatusA(r, periodic)
<1>1. r \in Rtc
  BY DEF Keeps
<1>2. c \in Rtc /\ a \in Rtc
  BY <1>1, StatusTyped
<1>3. SameClock(r, c) /\ c.flags = {}
  BY <1>1 DEF ReadStatusC, Rtc, SameClock, SameTime, SameDate, SameModes
<1>4. SameClock(r, a) /\ a.flags = r.flags
  BY <1>1 DEF WriteStatusA, Rtc, SameClock, SameTime, SameDate, SameModes
<1> HIDE DEF a, c
<1>5. Keeps(c) /\ Keeps(a)
  BY <1>2, <1>3, <1>4, ClockSame
<1> QED BY <1>3, <1>4, <1>5 DEF a, c

LEMMA StatusWritten ==
  ASSUME NEW r, Keeps(r), NEW set \in BOOLEAN, NEW enables \in SUBSET Sources
  PROVE  LET e == WriteStatusB(r, set, r.h24, enables)
         IN  /\ Keeps(e) /\ e.flags = r.flags
             /\ set = r.set => TimeOf(e) = TimeOf(r) /\ AlarmOf(e) = AlarmOf(r)
<1> DEFINE b == [r EXCEPT !.set = set, !.h24 = r.h24, !.enables = enables]
           q == b.flags \cap b.enables # {}
           e == WriteStatusB(r, set, r.h24, enables)
<1>1. r \in Rtc /\ HoldsAlarm(r) /\ r.h24 \in BOOLEAN
  BY DEF Keeps, Rtc
<1>2. e = [b EXCEPT !.irqf = q]
  BY DEF WriteStatusB, RecomputeIrqf
<1>3. b \in Rtc
  BY <1>1, ZenonT(60) DEF Rtc
<1>4. SameShown(r, b) /\ SameAlarm(r, b) /\ b.set = set /\ b.flags = r.flags
  BY <1>1 DEF Rtc, SameShown, SameTime, SameDate, SameAlarm
<1>5. e \in Rtc
  BY <1>1, StatusTyped
<1> HIDE DEF b, q, e
<1>6. SameShown(b, e) /\ SameAlarm(b, e) /\ e.set = b.set /\ e.flags = b.flags
  BY <1>2, <1>3 DEF Rtc, SameShown, SameTime, SameDate, SameAlarm
<1>7. SameShown(r, e) /\ SameAlarm(r, e) /\ e.set = set /\ e.flags = r.flags
  BY <1>4, <1>6, Zenon DEF SameShown, SameTime, SameDate, SameAlarm
<1>8. Keeps(e)
  BY <1>1, <1>5, <1>7, ShownSame
<1>9. set = r.set => TimeOf(e) = TimeOf(r) /\ AlarmOf(e) = AlarmOf(r)
  BY <1>7, ShownSame
<1> QED BY <1>7, <1>8, <1>9 DEF e

LEMMA HourReformed ==
  ASSUME NEW r, Keeps(r), NEW enables \in SUBSET Sources
  PROVE  LET e == WriteStatusB(r, r.set, ~r.h24, enables)
         IN  /\ Keeps(e) /\ e.flags = r.flags
             /\ TimeOf(e) = TimeOf(r) /\ AlarmOf(e) = AlarmOf(r)
<1> DEFINE to24 == ~r.h24
           b == [r EXCEPT !.set = r.set, !.h24 = to24, !.enables = enables]
           hour == ConvertHour(r.hour, r.binary, to24)
           aHour == IF r.aHour < DontCare THEN ConvertHour(r.aHour, r.binary, to24)
                                          ELSE r.aHour
           c == [b EXCEPT !.hour = hour, !.aHour = aHour]
           irq8 == c.flags \cap c.enables # {}
           e == WriteStatusB(r, r.set, to24, enables)
<1>1. r \in Rtc /\ HoldsAlarm(r) /\ r.h24 \in BOOLEAN /\ r.binary \in BOOLEAN
      /\ r.set \in BOOLEAN /\ r.hour \in CmosByte /\ r.aHour \in CmosByte
  BY DEF Keeps, Rtc
<1>2. to24 \in BOOLEAN /\ to24 # r.h24 /\ r.h24 = ~to24
  BY <1>1
<1>3. hour \in CmosByte /\ aHour \in CmosByte
  BY <1>1, <1>2, ConvertTyped
<1>4. b.hour = r.hour /\ b.aHour = r.aHour
  BY <1>1 DEF Rtc
<1>5. e = [c EXCEPT !.irqf = irq8]
  BY <1>2, <1>4 DEF WriteStatusB, RecomputeIrqf
<1>6. e \in Rtc
  BY <1>1, <1>2, StatusTyped
<1> HIDE DEF hour, aHour, to24, e
<1>7. b \in Rtc
  BY <1>1, <1>2, ZenonT(60) DEF Rtc
<1>8. /\ SameDate(r, b) /\ b.min = r.min /\ b.sec = r.sec /\ b.aSec = r.aSec /\ b.aMin = r.aMin
      /\ b.binary = r.binary /\ b.h24 = to24 /\ b.set = r.set /\ b.flags = r.flags
  BY <1>1 DEF Rtc, SameDate
<1> HIDE DEF b
<1>9. c \in Rtc
  BY <1>3, <1>7, ZenonT(60) DEF Rtc
<1>10. /\ SameDate(b, c) /\ c.min = b.min /\ c.sec = b.sec /\ c.aSec = b.aSec /\ c.aMin = b.aMin
       /\ c.binary = b.binary /\ c.h24 = b.h24 /\ c.set = b.set /\ c.flags = b.flags
       /\ c.hour = hour /\ c.aHour = aHour
  BY <1>7 DEF Rtc, SameDate
<1> HIDE DEF c, irq8
<1>11. /\ SameDate(c, e) /\ e.min = c.min /\ e.sec = c.sec /\ e.aSec = c.aSec /\ e.aMin = c.aMin
       /\ e.binary = c.binary /\ e.h24 = c.h24 /\ e.set = c.set /\ e.flags = c.flags
       /\ e.hour = c.hour /\ e.aHour = c.aHour
  BY <1>5, <1>9 DEF Rtc, SameDate
<1>12. /\ SameDate(r, e) /\ e.min = r.min /\ e.sec = r.sec /\ e.aSec = r.aSec /\ e.aMin = r.aMin
       /\ e.binary = r.binary /\ e.h24 = to24 /\ e.set = r.set /\ e.flags = r.flags
       /\ e.hour = hour /\ e.aHour = aHour
  BY <1>8, <1>10, <1>11, Zenon DEF SameDate
<1>13. PICK y \in Years, m \in 0 .. 12, d \in 0 .. 31, h \in 0 .. 23, i \in 0 .. 59,
            s \in 0 .. 59 : Shows(r, y, m, d, h, i, s)
  BY Zenon DEF Keeps
<1>14. \A k \in 0 .. 23 :
         ConvertHour(HourCode(k, r.h24, r.binary), r.binary, to24) = HourCode(k, to24, r.binary)
  BY <1>1, <1>2, HourConverted, Zenon
<1>15. r.hour = HourCode(h, r.h24, r.binary)
  BY <1>13 DEF Shows, TimeShows
<1>16. hour = HourCode(h, to24, r.binary)
  BY <1>14, <1>15, Zenon DEF hour
<1>17. Shows(e, y, m, d, h, i, s)
  BY <1>12, <1>13, <1>16, Zenon DEF Shows, DateShows, TimeShows, SameDate
<1>18. e.dow = r.dow
  BY <1>12 DEF SameDate
<1>19. TimeOf(e) = TimeOf(r)
  <2>1. TimeOf(r) = IF ~r.set /\ Proper(y, m, d, r.dow) THEN At(y, m, d, h, i, s) ELSE NoTime
    BY <1>1, <1>13, TimeIs, Zenon
  <2>2. TimeOf(e) = IF ~e.set /\ Proper(y, m, d, e.dow) THEN At(y, m, d, h, i, s) ELSE NoTime
    BY <1>6, <1>13, <1>17, TimeIs, Zenon
  <2>3. e.set = r.set
    BY <1>12, Zenon
  <2> QED BY <1>18, <2>1, <2>2, <2>3
<1>20. AlarmField(e, e.aSec) = AlarmField(r, r.aSec) /\ AlarmField(e, e.aMin) = AlarmField(r, r.aMin)
  BY <1>12, Zenon DEF AlarmField
<1>21. /\ HoldsHour(e) /\ (e.aHour >= DontCare <=> r.aHour >= DontCare)
       /\ ~(r.aHour >= DontCare) => HourOf(e, e.aHour) = HourOf(r, r.aHour)
  <2>1. CASE r.aHour >= DontCare
    <3>1. ~(r.aHour < DontCare)
      BY <1>1, <2>1 DEF DontCare, CmosByte
    <3>2. e.aHour = r.aHour
      BY <1>12, <3>1 DEF aHour
    <3> QED BY <2>1, <3>2 DEF HoldsHour
  <2>2. CASE ~(r.aHour >= DontCare)
    <3>1. r.aHour < DontCare
      BY <1>1, <2>2 DEF DontCare, CmosByte
    <3>2. PICK k \in 0 .. 23 : r.aHour = HourCode(k, r.h24, r.binary)
      BY <1>1, <2>2 DEF HoldsAlarm, HoldsHour
    <3>3. e.aHour = HourCode(k, e.h24, e.binary)
      BY <1>12, <1>14, <3>1, <3>2 DEF aHour
    <3>4. HourOf(e, e.aHour) = k /\ e.aHour \in 0 .. DontCare - 1
      BY <1>6, <3>3, HourRead
    <3>5. HourOf(r, r.aHour) = k
      BY <1>1, <3>2, HourRead
    <3>6. ~(e.aHour >= DontCare)
      BY <3>4 DEF DontCare
    <3> QED BY <2>2, <3>3, <3>4, <3>5, <3>6 DEF HoldsHour
  <2> QED BY <2>1, <2>2
<1>22. AlarmOf(e) = AlarmOf(r)
  BY <1>20, <1>21 DEF AlarmOf
<1>23. HoldsAlarm(e)
  BY <1>1, <1>12, <1>21, Zenon DEF HoldsAlarm
<1>24. Keeps(e)
  BY <1>6, <1>13, <1>17, <1>23, Zenon DEF Keeps
<1> QED BY <1>12, <1>19, <1>22, <1>24 DEF e, to24

LEMMA FieldsWritten ==
  ASSUME NEW r \in Rtc, NEW f
  PROVE  \A x \in TimeFields \cup AlarmFields \cup {"binary", "h24", "set", "flags"} :
           WriteFields(r, f)[x] = IF x \in DOMAIN f THEN f[x] ELSE r[x]
<1>1. TimeFields \cup AlarmFields \cup {"binary", "h24", "set", "flags"} \subseteq DOMAIN r
  BY DEF Rtc, TimeFields, AlarmFields
<1> QED BY <1>1 DEF WriteFields

LEMMA HourBytes ==
  ASSUME rtc \in Rtc, NEW h \in 0 .. 23
  PROVE  HourByte(h) = HourCode(h, rtc.h24, rtc.binary)
<1> DEFINE b == EncodeField(h, rtc.binary)
<1>1. rtc.binary \in BOOLEAN /\ h \in 0 .. 99
  BY DEF Rtc
<1>2. DecodeField(b, rtc.binary) = h /\ (rtc.binary \/ IsBcd(b))
  BY <1>1, Decoded
<1>3. ~(h > 23)
  OBVIOUS
<1> HIDE DEF b
<1>4. To12(b, rtc.binary) = WithPm(EncodeField(((h + 11) % 12) + 1, rtc.binary), h >= 12)
  BY <1>2, <1>3, Zenon DEF To12
<1>5. HourByte(h) = IF rtc.h24 THEN b ELSE To12(b, rtc.binary)
  BY DEF HourByte, b
<1> QED BY <1>4, <1>5, Zenon DEF HourCode, b

LEMMA TimeWritten ==
  ASSUME Keeps(rtc), NEW date \in Date
  PROVE  LET e == WriteFields(rtc,
                    [century |-> EncodeField(date.year \div 100, rtc.binary),
                     year |-> EncodeField(date.year % 100, rtc.binary),
                     month |-> EncodeField(date.month, rtc.binary),
                     day |-> EncodeField(date.day, rtc.binary), dow |-> date.dow,
                     hour |-> HourByte(date.hour),
                     min |-> EncodeField(date.min, rtc.binary),
                     sec |-> EncodeField(date.sec, rtc.binary)])
         IN  Keeps(e) /\ e.flags = rtc.flags
<1> DEFINE century == EncodeField(date.year \div 100, rtc.binary)
           year == EncodeField(date.year % 100, rtc.binary)
           month == EncodeField(date.month, rtc.binary)
           day == EncodeField(date.day, rtc.binary)
           hour == HourByte(date.hour)
           min == EncodeField(date.min, rtc.binary)
           sec == EncodeField(date.sec, rtc.binary)
           f == [century |-> century, year |-> year, month |-> month, day |-> day,
                 dow |-> date.dow, hour |-> hour, min |-> min, sec |-> sec]
           e == WriteFields(rtc, f)
<1>1. rtc \in Rtc /\ HoldsAlarm(rtc)
  BY DEF Keeps
<1>2. /\ date.month \in 1 .. 12 /\ date.day \in 1 .. 31 /\ date.dow \in 1 .. 7
      /\ date.hour \in 0 .. 23 /\ date.min \in 0 .. 59 /\ date.sec \in 0 .. 59
  BY DateTyped, Zenon
<1>3. date.year \in Years /\ date.day <= MonthLength(date.month, date.year)
  BY DateTyped, Zenon
<1>4. hour = HourCode(date.hour, rtc.h24, rtc.binary)
  BY <1>1, <1>2, HourBytes
<1>14. /\ century \in CmosByte /\ year \in CmosByte /\ month \in CmosByte /\ day \in CmosByte
       /\ hour \in CmosByte /\ min \in CmosByte /\ sec \in CmosByte /\ date.dow \in CmosByte
  <2>1. \A n \in 0 .. 99 : EncodeField(n, rtc.binary) \in 0 .. 153
    BY <1>1, EncodedSmall DEF Rtc
  <2>2. date.year \div 100 \in 0 .. 99 /\ date.year % 100 \in 0 .. 99
    BY <1>3, Century, Zenon
  <2>3. /\ date.month \in 0 .. 99 /\ date.day \in 0 .. 99 /\ date.min \in 0 .. 99
        /\ date.sec \in 0 .. 99
    BY <1>2
  <2>4. hour \in 0 .. DontCare - 1
    BY <1>1, <1>2, <1>4, HourRead
  <2> HIDE DEF hour
  <2>5. /\ century \in 0 .. 153 /\ year \in 0 .. 153 /\ month \in 0 .. 153 /\ day \in 0 .. 153
        /\ min \in 0 .. 153 /\ sec \in 0 .. 153
    BY <2>1, <2>2, <2>3, Zenon
  <2> HIDE DEF century, year, month, day, min, sec
  <2> QED BY <1>2, <2>4, <2>5 DEF CmosByte, DontCare
<1> HIDE DEF century, year, month, day, hour, min, sec
<1>5. /\ DOMAIN f = {"century", "year", "month", "day", "dow", "hour", "min", "sec"}
      /\ f.century = century /\ f.year = year /\ f.month = month /\ f.day = day
      /\ f.dow = date.dow /\ f.hour = hour /\ f.min = min /\ f.sec = sec
  OBVIOUS
<1>6. \A x \in TimeFields \cup AlarmFields \cup {"binary", "h24", "set", "flags"} :
        e[x] = IF x \in DOMAIN f THEN f[x] ELSE rtc[x]
  BY <1>1, FieldsWritten
<1> HIDE DEF f
<1>15. e \in Rtc
  <2>1. DOMAIN f \subseteq TimeFields \cup AlarmFields
    BY <1>5 DEF TimeFields
  <2>2. \A x \in DOMAIN f : f[x] \in CmosByte
    BY <1>5, <1>14
  <2> QED BY <1>1, <2>1, <2>2, FieldsTyped
<1> HIDE DEF e
<1>7. /\ e.century = century /\ e.year = year /\ e.month = month /\ e.day = day
      /\ e.dow = date.dow /\ e.hour = hour /\ e.min = min /\ e.sec = sec
  BY <1>5, <1>6 DEF TimeFields
<1>8. SameAlarm(rtc, e) /\ e.binary = rtc.binary /\ e.h24 = rtc.h24 /\ e.flags = rtc.flags
  BY <1>5, <1>6 DEF AlarmFields, SameAlarm
<1>9. Dated(date.year, date.month, date.day, e.dow)
  BY <1>2, <1>3, <1>7, MonthLengths DEF Dated
<1>10. Shows(e, date.year, date.month, date.day, date.hour, date.min, date.sec)
  BY <1>4, <1>7, <1>8, <1>9, Zenon
  DEF Shows, DateShows, TimeShows, century, year, month, day, min, sec
<1>11. HoldsAlarm(e)
  BY <1>1, <1>8, Zenon DEF HoldsAlarm, HoldsHour, SameAlarm
<1>12. date.month \in 0 .. 12 /\ date.day \in 0 .. 31
  BY <1>2
<1>13. Keeps(e)
  BY <1>2, <1>3, <1>10, <1>11, <1>12, <1>15, Zenon DEF Keeps
<1> QED BY <1>8, <1>13 DEF e, f, century, year, month, day, hour, min, sec

LEMMA AlarmWritten ==
  ASSUME Keeps(rtc), NEW a \in Alarm
  PROVE  LET e == WriteFields(rtc,
                    [aSec  |-> EncodeField(a.sec, rtc.binary),
                     aMin  |-> EncodeField(a.min, rtc.binary),
                     aHour |-> IF a.hour = -1 THEN DontCare ELSE HourByte(a.hour)])
         IN  Keeps(e) /\ e.flags = rtc.flags /\ TimeOf(e) = TimeOf(rtc)
<1> DEFINE sec == EncodeField(a.sec, rtc.binary)
           min == EncodeField(a.min, rtc.binary)
           hour == IF a.hour = -1 THEN DontCare ELSE HourByte(a.hour)
           f == [aSec |-> sec, aMin |-> min, aHour |-> hour]
           e == WriteFields(rtc, f)
<1>1. rtc \in Rtc /\ HoldsAlarm(rtc)
  BY DEF Keeps
<1>2. a.hour \in -1 .. 23 /\ a.min \in 0 .. 59 /\ a.sec \in 0 .. 59
  BY DEF Alarm
<1>3. \/ hour >= DontCare
      \/ \E q \in 0 .. 23 : hour = HourCode(q, rtc.h24, rtc.binary)
  <2>1. CASE a.hour = -1
    BY <2>1 DEF DontCare
  <2>2. CASE a.hour # -1
    <3>1. a.hour \in 0 .. 23
      BY <1>2, <2>2
    <3>2. HourByte(a.hour) = HourCode(a.hour, rtc.h24, rtc.binary)
      BY <1>1, <3>1, HourBytes
    <3> QED BY <2>2, <3>1, <3>2
  <2> QED BY <2>1, <2>2
<1>12. sec \in CmosByte /\ min \in CmosByte /\ hour \in CmosByte
  <2>1. a.min \in 0 .. 99 /\ a.sec \in 0 .. 99 /\ rtc.binary \in BOOLEAN
    BY <1>1, <1>2 DEF Rtc
  <2>2. sec \in 0 .. 153 /\ min \in 0 .. 153
    BY <2>1, EncodedSmall
  <2>3. hour = DontCare \/ hour \in 0 .. DontCare - 1
    <3>1. CASE a.hour = -1
      BY <3>1
    <3>2. CASE a.hour # -1
      <4>1. a.hour \in 0 .. 23
        BY <1>2, <3>2
      <4>2. hour = HourCode(a.hour, rtc.h24, rtc.binary)
        BY <1>1, <3>2, <4>1, HourBytes
      <4> QED BY <1>1, <4>1, <4>2, HourRead
    <3> QED BY <3>1, <3>2
  <2> HIDE DEF sec, min, hour
  <2> QED BY <2>2, <2>3 DEF CmosByte, DontCare
<1> HIDE DEF sec, min, hour
<1>4. /\ DOMAIN f = {"aSec", "aMin", "aHour"}
      /\ f.aSec = sec /\ f.aMin = min /\ f.aHour = hour
  OBVIOUS
<1>5. \A x \in TimeFields \cup AlarmFields \cup {"binary", "h24", "set", "flags"} :
        e[x] = IF x \in DOMAIN f THEN f[x] ELSE rtc[x]
  BY <1>1, FieldsWritten
<1> HIDE DEF f
<1>13. e \in Rtc
  <2>1. DOMAIN f \subseteq TimeFields \cup AlarmFields
    BY <1>4 DEF AlarmFields
  <2>2. \A x \in DOMAIN f : f[x] \in CmosByte
    BY <1>4, <1>12
  <2> QED BY <1>1, <2>1, <2>2, FieldsTyped
<1> HIDE DEF e
<1>6. e.aSec = sec /\ e.aMin = min /\ e.aHour = hour
  BY <1>4, <1>5 DEF AlarmFields
<1>7. SameShown(rtc, e) /\ e.set = rtc.set /\ e.flags = rtc.flags
  BY <1>4, <1>5 DEF TimeFields, SameShown, SameTime, SameDate
<1>8. e.binary = rtc.binary /\ e.h24 = rtc.h24
  BY <1>7 DEF SameShown
<1>9. HoldsAlarm(e)
  BY <1>2, <1>3, <1>6, <1>8, Zenon DEF HoldsAlarm, HoldsHour, sec, min
<1>10. Keeps(e)
  BY <1>7, <1>9, <1>13, ShownSame
<1>11. TimeOf(e) = TimeOf(rtc)
  BY <1>7, ShownSame
<1> QED BY <1>7, <1>10, <1>11 DEF e, f, sec, min, hour

(* The actions.                                                             *)
LEMMA ClockedWall ==
  ASSUME TimersTypeOK, Keeps(rtc), NEW p, NEW r, NEW d, NEW m, NEW rd, NEW ord,
         ClockedStep(p, r, d, m, rd, ord), Keeps(r),
         ord \notin Wall!Setting => TimeOf(r) = TimeOf(rtc),
         ord \notin Wall!Setting \cup {"alarm"} => AlarmOf(r) = AlarmOf(rtc),
         "A" \in rtc.flags /\ "A" \notin r.flags => ord \in {"read", "reset"},
         "A" \in r.flags => "A" \in rtc.flags
  PROVE  Keeps(rtc') /\ Wall!WallNext
<1>1. rtc' = Moved(r, Periods, Seconds) /\ order' = ord
  BY Zenon DEF ClockedStep, Advance, AdvanceClock, Advanced, Moved
<1>2. Periods \in Nat /\ Seconds \in Nat
  BY ChargeTyped
<1> HIDE DEF Periods, Seconds
<1> QED BY <1>1, <1>2, WallStep

LEMMA ClockLeft ==
  ASSUME TimersTypeOK, Keeps(rtc), NEW p, NEW d, NEW m, NEW rd,
         ClockedStep(p, rtc, d, m, rd, "none")
  PROVE  Keeps(rtc') /\ Wall!WallNext
BY ClockedWall, Zenon

LEMMA RtcWall ==
  ASSUME TimersTypeOK, Keeps(rtc), NEW r, NEW ord, RtcStep(r, ord), Keeps(r),
         ord \notin Wall!Setting => TimeOf(r) = TimeOf(rtc),
         ord \notin Wall!Setting \cup {"alarm"} => AlarmOf(r) = AlarmOf(rtc),
         r.flags = rtc.flags \/ (ord = "read" /\ r.flags = {})
  PROVE  Keeps(rtc') /\ Wall!WallNext
<1>1. ClockedStep(pit, r, SetSlaveLine(Polled, 0, r.irqf), meter, reading, ord)
  BY DEF RtcStep, Step
<1>2. /\ "A" \in rtc.flags /\ "A" \notin r.flags => ord \in {"read", "reset"}
      /\ "A" \in r.flags => "A" \in rtc.flags
  OBVIOUS
<1> QED BY <1>1, <1>2, ClockedWall, Zenon

LEMMA RtcActionWall ==
  ASSUME TimersTypeOK, Keeps(rtc),
         \/ RtcReadC \/ RtcEnable \/ RtcRate \/ RtcStop \/ RtcSetTime \/ RtcStart
         \/ RtcFormat \/ RtcSetAlarm
  PROVE  Keeps(rtc') /\ Wall!WallNext
<1>1. rtc.set \in BOOLEAN /\ rtc.enables \in SUBSET Sources /\ TRUE \in BOOLEAN
      /\ FALSE \in BOOLEAN
  BY DEF Keeps, Rtc
<1>2. CASE RtcReadC
  <2>1. RtcStep(ReadStatusC(rtc), "read")
    BY <1>2 DEF RtcReadC
  <2>2. /\ Keeps(ReadStatusC(rtc)) /\ SameClock(rtc, ReadStatusC(rtc))
        /\ ReadStatusC(rtc).flags = {}
    BY <1>1, StatusRead, Zenon
  <2>3. TimeOf(ReadStatusC(rtc)) = TimeOf(rtc) /\ AlarmOf(ReadStatusC(rtc)) = AlarmOf(rtc)
    BY <2>2, ClockSame, Zenon
  <2> QED BY <2>1, <2>2, <2>3, RtcWall
<1>3. CASE RtcEnable
  <2>1. PICK enables \in Enables :
          RtcStep(WriteStatusB(rtc, rtc.set, rtc.h24, enables), "none")
    BY <1>3 DEF RtcEnable
  <2>2. enables \in SUBSET Sources
    BY TimersAssumption
  <2> QED BY <1>1, <2>1, <2>2, StatusWritten, RtcWall, Zenon
<1>4. CASE RtcRate
  <2>1. PICK periodic \in BOOLEAN : RtcStep(WriteStatusA(rtc, periodic), "none")
    BY <1>4 DEF RtcRate
  <2>2. /\ Keeps(WriteStatusA(rtc, periodic)) /\ SameClock(rtc, WriteStatusA(rtc, periodic))
        /\ WriteStatusA(rtc, periodic).flags = rtc.flags
    BY StatusRead, Zenon
  <2>3. /\ TimeOf(WriteStatusA(rtc, periodic)) = TimeOf(rtc)
        /\ AlarmOf(WriteStatusA(rtc, periodic)) = AlarmOf(rtc)
    BY <2>2, ClockSame, Zenon
  <2> QED BY <2>1, <2>2, <2>3, RtcWall
<1>5. "set" \in Wall!Setting /\ "date" \in Wall!Setting
  BY DEF Wall!Setting
<1>6. CASE RtcStop
  <2>1. RtcStep(WriteStatusB(rtc, TRUE, rtc.h24, rtc.enables), "set")
    BY <1>6 DEF RtcStop
  <2>2. /\ Keeps(WriteStatusB(rtc, TRUE, rtc.h24, rtc.enables))
        /\ WriteStatusB(rtc, TRUE, rtc.h24, rtc.enables).flags = rtc.flags
    BY <1>1, StatusWritten, Zenon
  <2> QED BY <1>5, <2>1, <2>2, RtcWall
<1>7. CASE RtcStart
  <2>1. RtcStep(WriteStatusB(rtc, FALSE, rtc.h24, rtc.enables), "set")
    BY <1>7 DEF RtcStart
  <2>2. /\ Keeps(WriteStatusB(rtc, FALSE, rtc.h24, rtc.enables))
        /\ WriteStatusB(rtc, FALSE, rtc.h24, rtc.enables).flags = rtc.flags
    BY <1>1, StatusWritten, Zenon
  <2> QED BY <1>5, <2>1, <2>2, RtcWall
<1>8. CASE RtcFormat
  <2>1. RtcStep(WriteStatusB(rtc, rtc.set, ~rtc.h24, rtc.enables), "none")
    BY <1>8 DEF RtcFormat
  <2> QED BY <1>1, <2>1, HourReformed, RtcWall, Zenon
<1>9. CASE RtcSetTime
  <2> DEFINE e(date) ==
               WriteFields(rtc,
                 [century |-> EncodeField(date.year \div 100, rtc.binary),
                  year |-> EncodeField(date.year % 100, rtc.binary),
                  month |-> EncodeField(date.month, rtc.binary),
                  day |-> EncodeField(date.day, rtc.binary), dow |-> date.dow,
                  hour |-> HourByte(date.hour),
                  min |-> EncodeField(date.min, rtc.binary),
                  sec |-> EncodeField(date.sec, rtc.binary)])
  <2>1. PICK date \in Dates : RtcStep(e(date), "date")
    BY <1>9 DEF RtcSetTime
  <2>2. date \in Date
    BY TimersAssumption
  <2>3. Keeps(e(date)) /\ e(date).flags = rtc.flags
    BY <2>2, TimeWritten
  <2> HIDE DEF e
  <2> QED BY <1>5, <2>1, <2>3, RtcWall
<1>10. CASE RtcSetAlarm
  <2> DEFINE e(a) ==
               WriteFields(rtc,
                 [aSec  |-> EncodeField(a.sec, rtc.binary),
                  aMin  |-> EncodeField(a.min, rtc.binary),
                  aHour |-> IF a.hour = -1 THEN DontCare ELSE HourByte(a.hour)])
  <2>1. PICK a \in Alarms : RtcStep(e(a), "alarm")
    BY <1>10 DEF RtcSetAlarm
  <2>2. a \in Alarm
    BY TimersAssumption
  <2>3. Keeps(e(a)) /\ e(a).flags = rtc.flags /\ TimeOf(e(a)) = TimeOf(rtc)
    BY <2>2, AlarmWritten
  <2> HIDE DEF e
  <2> QED BY <2>1, <2>3, RtcWall
<1> QED BY <1>2, <1>3, <1>4, <1>6, <1>7, <1>8, <1>9, <1>10

LEMMA StepWall ==
  ASSUME TimersTypeOK, Keeps(rtc), TimersStep
  PROVE  Keeps(rtc') /\ Wall!WallNext
<1>1. CASE \/ RtcReadC \/ RtcEnable \/ RtcRate \/ RtcStop \/ RtcSetTime \/ RtcStart
           \/ RtcFormat \/ RtcSetAlarm
  BY <1>1, RtcActionWall
<1>2. CASE Other \/ Control \/ Data \/ Latch \/ ReadBackCommand \/ DataRead \/ Port61
  <2>1. \E p, m, rd : PitStep(p, m, rd)
    BY <1>2 DEF Other, Control, Data, Latch, ReadBackCommand, DataRead, Port61
  <2>2. \E p, m, rd : ClockedStep(p, rtc, Polled, m, rd, "none")
    BY <2>1, Zenon DEF PitStep, Step
  <2> QED BY <2>2, ClockLeft, Zenon
<1>3. CASE OutEoi
  <2>1. \E d : ClockedStep(pit, rtc, d, meter, reading, "none")
    BY <1>3, Zenon DEF OutEoi, Step
  <2> QED BY <2>1, ClockLeft, Zenon
<1>4. CASE HpetEnable \/ HpetConfig \/ HpetComparator \/ HpetCounter \/ HpetClear
  <2>1. \E h, u : HpetStep(h, u)
    BY <1>4 DEF HpetEnable, HpetConfig, HpetComparator, HpetCounter, HpetClear
  <2>2. ClockedStep(pit, rtc, Polled, meter, reading, "none")
    BY <2>1, Zenon DEF HpetStep
  <2> QED BY <2>2, ClockLeft, Zenon
<1> QED BY <1>1, <1>2, <1>3, <1>4 DEF TimersStep

LEMMA HostWall ==
  ASSUME TimersTypeOK, Keeps(rtc), HostTick \/ AdvanceHpet \/ HostError \/ MachineReset
  PROVE  Keeps(rtc') /\ [Wall!WallNext]_(Wall!wallVars)
<1>1. CASE HostTick
  <2>1. PICK n \in (IF guest.modes = {} THEN {0} ELSE 0 .. HostClocks),
             periods \in (IF "rtc" \in guest.does THEN {0, 1} ELSE {0}),
             seconds \in (IF "rtc" \in guest.does THEN {0, 1} ELSE {0}) :
          Advance(pit, rtc, pic, meter, irq, n, periods, seconds)
    BY <1>1 DEF HostTick
  <2>2. order' = "host" /\ periods \in Nat /\ seconds \in Nat
    BY <1>1 DEF HostTick
  <2>3. rtc' = Moved(rtc, periods, seconds)
    BY <2>1, Zenon DEF Advance, AdvanceClock, Advanced, Moved
  <2> QED BY <2>2, <2>3, WallStep, Zenon
<1>2. CASE AdvanceHpet \/ HostError
  <2>1. rtc' = rtc /\ order' = "host"
    BY <1>2 DEF AdvanceHpet, HostError
  <2>2. Wall!WallNext
    BY <2>1, Zenon DEF Wall!WallNext, Wall!Passes, Wall!KeepsAlarm, Wall!RingsOnTime
  <2> QED BY <2>1, <2>2
<1>3. CASE MachineReset
  <2>1. rtc' = [ResetRtc EXCEPT !.binary = guest.binary] /\ order' = "reset"
    BY <1>3 DEF MachineReset, PowerOn
  <2>2. guest.binary \in BOOLEAN
    BY GuestFacts DEF TimersTypeOK, Guest
  <2>3. Keeps(rtc') /\ TimeOf(rtc') = NoTime /\ rtc'.flags = {}
    BY <2>1, <2>2, PowerKeeps
  <2>4. "reset" \in Wall!Setting
    BY DEF Wall!Setting
  <2>5. Wall!WallNext
    BY <2>1, <2>3, <2>4, Zenon DEF Wall!WallNext, Wall!Passes, Wall!KeepsAlarm, Wall!RingsOnTime
  <2> QED BY <2>3, <2>5
<1> QED BY <1>1, <1>2, <1>3

(* The clock is a WallClock: in BCD or binary, in 12 or 24 hours and from   *)
(* one to the other as it runs, it moves on by the seconds, over noon,      *)
(* midnight, month and leap day, year and century and the end of its        *)
(* calendar, keeps its alarm, and rings in the second the alarm names.      *)
THEOREM TimersCalendarRuns == TimersSpec => CalendarRuns
<1>1. ASSUME TimersInit
      PROVE  Keeps(rtc) /\ Wall!WallInit
  <2>1. rtc = [ResetRtc EXCEPT !.binary = guest.binary] /\ order = "reset"
    BY <1>1 DEF TimersInit, PowerOn
  <2>2. guest.binary \in BOOLEAN
    BY <1>1, GuestFacts DEF TimersInit, Guest
  <2>3. Keeps(rtc) /\ TimeOf(rtc) = NoTime /\ rtc.flags = {}
    BY <2>1, <2>2, PowerKeeps
  <2> QED BY <2>1, <2>3 DEF Wall!WallInit
<1>2. ASSUME TimersTypeOK, Keeps(rtc), [TimersNext]_timerVars
      PROVE  Keeps(rtc') /\ [Wall!WallNext]_(Wall!wallVars)
  <2>1. CASE TimersStep
    BY <1>2, <2>1, StepWall
  <2>2. CASE HostTick \/ AdvanceHpet \/ HostError \/ MachineReset
    BY <1>2, <2>2, HostWall
  <2>3. CASE UNCHANGED timerVars
    <3>1. rtc' = rtc /\ order' = order
      BY <2>3 DEF timerVars
    <3> QED BY <1>2, <3>1, Zenon DEF Wall!wallVars
  <2> QED BY <1>2, <2>1, <2>2, <2>3 DEF TimersNext
<1> DEFINE K == Keeps(rtc)
<1>3. TimersInit => K /\ Wall!WallInit
  BY <1>1
<1>4. TimersTypeOK /\ K /\ [TimersNext]_timerVars => K' /\ [Wall!WallNext]_(Wall!wallVars)
  BY <1>2
<1> HIDE DEF K
<1> QED BY <1>3, <1>4, TimersTyped, PTL DEF TimersSpec, CalendarRuns, Wall!WallSpec
=============================================================================
