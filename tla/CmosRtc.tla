------------------------------ MODULE CmosRtc ------------------------------
(***************************************************************************)
(* The MC146818 clock of crates/devices/src/cmos.rs: its calendar, alarm,  *)
(* update cycle and interrupt flags.  The clock is a record; a time field  *)
(* holds the byte of its register, in BCD or binary as Status B says, and  *)
(* an hour carries the PM bit in the 12-hour form.  The configuration      *)
(* bytes of the CMOS RAM and the index register are left out.              *)
(***************************************************************************)
EXTENDS Integers

CmosByte == 0 .. 255

UipWindow == 2         \* periods the update-in-progress bit is held for
DontCare == 192        \* alarm bytes from here on match any value
Pm == 128              \* the PM bit of a 12-hour register

Sources == {"P", "A", "U"}

TimeFields == {"sec", "min", "hour", "dow", "day", "month", "year", "century"}
AlarmFields == {"aSec", "aMin", "aHour"}

Rtc ==
  [sec : CmosByte, min : CmosByte, hour : CmosByte, dow : CmosByte,
   day : CmosByte, month : CmosByte, year : CmosByte, century : CmosByte,
   aSec : CmosByte, aMin : CmosByte, aHour : CmosByte,
   binary : BOOLEAN, h24 : BOOLEAN, set : BOOLEAN, periodic : BOOLEAN,
   enables : SUBSET Sources, flags : SUBSET Sources, irqf : BOOLEAN,
   uip : BOOLEAN, hold : 0 .. UipWindow]

(* Time, calendar and alarm are not among the battery-backed bytes.         *)
ResetRtc ==
  [sec |-> 0, min |-> 0, hour |-> 0, dow |-> 0, day |-> 0, month |-> 0,
   year |-> 0, century |-> 0, aSec |-> 0, aMin |-> 0, aHour |-> 0,
   binary |-> FALSE, h24 |-> TRUE, set |-> FALSE, periodic |-> TRUE,
   enables |-> {}, flags |-> {}, irqf |-> FALSE, uip |-> FALSE, hold |-> 0]

----------------------------------------------------------------------------
(* Bytes in BCD and in binary.                                              *)

IsBcd(b) == b % 16 <= 9 /\ b \div 16 <= 9
BcdToBin(b) == (b \div 16) * 10 + (b % 16)
BinToBcd(n) == ((n % 100) \div 10) * 16 + (n % 10)

EncodeField(n, binary) == IF binary THEN n % 100 ELSE BinToBcd(n)
DecodeField(b, binary) ==
  IF binary THEN b ELSE IF IsBcd(b) THEN BcdToBin(b) ELSE 0

(* The next value of a field, and whether it wraps.                         *)
BcdNext(b) == IF b % 16 >= 9 THEN ((b \div 16 + 1) * 16) % 256 ELSE b + 1
FieldWraps(b, max, binary) ==
  IF binary THEN b >= max ELSE BcdNext(b) > BinToBcd(max)
FieldInc(b, max, binary) ==
  IF FieldWraps(b, max, binary) THEN 0
  ELSE IF binary THEN b + 1 ELSE BcdNext(b)

----------------------------------------------------------------------------
(* Hours in the two forms.                                                  *)

HourBits(b) == b % Pm
IsPm(b) == b >= Pm
WithPm(b, pm) == IF pm THEN b + Pm ELSE b

Hour12Inc(b, binary) ==
  LET h == DecodeField(HourBits(b), binary)
  IN  IF ~binary /\ ~IsBcd(HourBits(b)) THEN 1
      ELSE IF h \notin 1 .. 12 THEN WithPm(EncodeField(1, binary), IsPm(b))
      ELSE IF h = 11
           THEN WithPm(EncodeField(12, binary), ~IsPm(b))
           ELSE WithPm(EncodeField((h % 12) + 1, binary), IsPm(b))

Hour12Wraps(b, binary) ==
  /\ binary \/ IsBcd(HourBits(b))
  /\ DecodeField(HourBits(b), binary) = 11
  /\ IsPm(b)

HourInc(r) == IF r.h24 THEN FieldInc(r.hour, 23, r.binary)
                       ELSE Hour12Inc(r.hour, r.binary)
HourWraps(r) == IF r.h24 THEN FieldWraps(r.hour, 23, r.binary)
                         ELSE Hour12Wraps(r.hour, r.binary)

(* An hour rewritten from one form into the other; a byte that is no hour   *)
(* of the old form is kept.                                                 *)
To24(b, binary) ==
  LET h == DecodeField(HourBits(b), binary)
  IN  IF h \notin 1 .. 12 THEN b
      ELSE EncodeField((h % 12) + (IF IsPm(b) THEN 12 ELSE 0), binary)

To12(b, binary) ==
  LET h == DecodeField(b, binary)
  IN  IF h > 23 \/ (~binary /\ ~IsBcd(b)) THEN b
      ELSE WithPm(EncodeField(((h + 11) % 12) + 1, binary), h >= 12)

ConvertHour(b, binary, to24) ==
  IF to24 THEN To24(b, binary) ELSE To12(b, binary)

----------------------------------------------------------------------------
(* The calendar.                                                            *)

(* Mutant: every fourth year is a leap year but the centuries.              *)
IsLeapNo400(y) == y % 4 = 0 /\ y % 100 # 0

IsLeap(y) == y % 4 = 0 /\ (y % 100 # 0 \/ y % 400 = 0)

MonthLength(m, y) ==
  CASE m \in {4, 6, 9, 11} -> 30
    [] m = 2 -> IF IsLeap(y) THEN 29 ELSE 28
    [] OTHER -> 31

FullYear(r) ==
  DecodeField(r.century, r.binary) * 100 + DecodeField(r.year, r.binary)

AdvanceYear(r) ==
  [r EXCEPT
     !.year = FieldInc(@, 99, r.binary),
     !.century = IF FieldWraps(r.year, 99, r.binary)
                 THEN EncodeField((DecodeField(@, r.binary) + 1) % 100, r.binary)
                 ELSE @]

AdvanceMonth(r) ==
  LET m == DecodeField(r.month, r.binary)
      y == IF m = 12 THEN AdvanceYear(r) ELSE r
  IN  [y EXCEPT !.month =
         EncodeField(IF m \in 1 .. 11 THEN m + 1 ELSE 1, r.binary)]

AdvanceDate(r) ==
  LET last == MonthLength(DecodeField(r.month, r.binary), FullYear(r))
      d == DecodeField(r.day, r.binary)
  IN  IF (r.binary \/ IsBcd(r.day)) /\ d < last
      THEN [r EXCEPT !.day = EncodeField(d + 1, r.binary)]
      ELSE AdvanceMonth([r EXCEPT !.day = EncodeField(1, r.binary)])

AdvanceDay(r) ==
  AdvanceDate([r EXCEPT !.dow = IF @ \in 1 .. 6 THEN @ + 1 ELSE 1])

AdvanceHour(r) ==
  LET h == [r EXCEPT !.hour = HourInc(r)]
  IN  IF HourWraps(r) THEN AdvanceDay(h) ELSE h

AdvanceCalendar(r) ==
  LET s == [r EXCEPT !.sec = FieldInc(@, 59, r.binary)]
      m == [s EXCEPT !.min = FieldInc(@, 59, r.binary)]
  IN  IF ~FieldWraps(r.sec, 59, r.binary) THEN s
      ELSE IF ~FieldWraps(r.min, 59, r.binary) THEN m ELSE AdvanceHour(m)

----------------------------------------------------------------------------
(* Flags and the interrupt.                                                 *)

Matches(alarmByte, byte) == alarmByte >= DontCare \/ alarmByte = byte

AlarmMatches(r) == /\ Matches(r.aSec, r.sec)
                   /\ Matches(r.aMin, r.min)
                   /\ Matches(r.aHour, r.hour)

RecomputeIrqf(r) == [r EXCEPT !.irqf = r.flags \cap r.enables # {}]

Flagged(r, sources) ==
  RecomputeIrqf([r EXCEPT !.flags =
    @ \cup sources \cup (IF AlarmMatches(r) THEN {"A"} ELSE {})])

DecayUip(r, periods) ==
  [r EXCEPT !.hold = IF @ > periods THEN @ - periods ELSE 0,
            !.uip  = (@ /\ (r.hold = 0 \/ r.hold > periods))]

(* tick: at least one period.                                               *)
RtcPeriods(r, periods) ==
  DecayUip(Flagged(r, (IF r.periodic THEN {"P"} ELSE {})
                      \cup (IF r.set THEN {} ELSE {"U"})), periods)

(* tick_second: a whole update cycle, unless SET inhibits it.               *)
RtcSecond(r) ==
  IF r.set THEN r
  ELSE [Flagged(AdvanceCalendar(r), {"U"}) EXCEPT !.uip = TRUE,
                                                   !.hold = UipWindow]

----------------------------------------------------------------------------
(* The registers.                                                           *)

ReadStatusC(r) == [r EXCEPT !.flags = {}, !.irqf = FALSE]

(* Status B: a change of the hour form converts the hour and the alarm's.   *)
(* The guest's DM bit, BCD or binary, is the one it started with.           *)
WriteStatusB(r, set, h24, enables) ==
  LET b == [r EXCEPT !.set = set, !.h24 = h24, !.enables = enables]
  IN  RecomputeIrqf(
        IF h24 = r.h24 THEN b
        ELSE [b EXCEPT
                !.hour  = ConvertHour(@, r.binary, h24),
                !.aHour = IF @ < DontCare THEN ConvertHour(@, r.binary, h24)
                                          ELSE @])

(* Status A: a rate of zero turns the periodic flag off; UIP is read-only.  *)
WriteStatusA(r, periodic) == [r EXCEPT !.periodic = periodic]

WriteFields(r, fields) ==
  [x \in DOMAIN r |-> IF x \in DOMAIN fields THEN fields[x] ELSE r[x]]
=============================================================================
