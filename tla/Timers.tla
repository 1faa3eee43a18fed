------------------------------- MODULE Timers -------------------------------
(***************************************************************************)
(* The PC's timers in the machine of crates/machine-pc: the step clock of  *)
(* step_clock.rs turns retired instructions into clocks, tick_pit and      *)
(* tick_cmos of lib.rs move the 8254 and the MC146818 by them and drive    *)
(* IRQ0 and IRQ8, every step samples both lines again and acknowledges the *)
(* 8259A pair, and each tick of IRQ0 counts the BIOS tick of bda_timer.rs. *)
(*                                                                         *)
(* One action is one Machine::step: the poll, an instruction of the guest, *)
(* and the clocks it is charged.  What the CPU does with the vector is     *)
(* IrqDelivery's, where the line of the HPET, which tick_pit moves too,    *)
(* goes is ApicFabric's, and the PM timer touches nothing here.            *)
(***************************************************************************)
EXTENDS Pit8254, CmosRtc, Hpet, Pic8259

CONSTANTS
  ClocksPerPeriod,   (* PIT_CLOCKS_PER_CMOS_PERIOD                          *)
  ClocksPerSecond,   (* PIT_CLOCKS_PER_SECOND                               *)
  DayTicks,          (* BDA_TICKS_PER_DAY                                   *)
  TimerGuests,       (* the kinds of guest, see Guest                       *)
  Dates,             (* the times a guest sets the clock to                 *)
  Alarms,            (* the alarms a guest sets                             *)
  Enables,           (* the interrupt enables of Status B it writes         *)
  HpetStores,        (* the values a guest stores in the HPET               *)
  HpetConfigs,       (* the configurations of its timer                     *)
  HpetAdvances,      (* the ticks the host advances it by itself            *)
  MaxSeconds         (* bound: seconds the clock runs after it was set      *)

(* A guest uses one PIT channel, in some modes, with some counts and        *)
(* accesses, does some kinds of instruction, and runs on a machine with a   *)
(* clock ratio, with or without a ticking RTC, whose DM bit is binary.      *)
Does == {"latch", "gate", "rewrite", "rtc", "calendar", "format", "error", "host",
         "inhibit", "hpet"}

Guest ==
  [channel : 0 .. 2, modes : SUBSET PitModes, counts : SUBSET (0 .. FullCount - 1),
   accesses : SUBSET PitAccess, does : SUBSET Does, ratio : Nat, rtc : BOOLEAN,
   binary : BOOLEAN]

(* Bound: the clocks of a tick the host makes itself.                       *)
HostClocks == 3

(* The years that two digits and a century hold.                            *)
Years == 0 .. 9999

(* A date and an alarm as a guest writes them: a day that the calendar has, *)
(* with whatever weekday; an hour of -1 is any hour.                        *)
Date ==
  {d \in [year : Years, month : 1 .. 12, day : 1 .. 31, dow : 1 .. 7,
          hour : 0 .. 23, min : 0 .. 59, sec : 0 .. 59] :
     d.day <= MonthLength(d.month, d.year)}
Alarm == [hour : -1 .. 23, min : 0 .. 59, sec : 0 .. 59]

Irq0 == [chip |-> "master", line |-> 0]
Irq8 == [chip |-> "slave", line |-> 0]
Cascade == 1

ASSUME TimersAssumption ==
  /\ ClocksPerPeriod \in Nat \ {0} /\ ClocksPerSecond \in Nat \ {0}
  /\ DayTicks \in Nat \ {0} /\ MaxSeconds \in Nat
  /\ TimerGuests \subseteq Guest /\ Enables \subseteq SUBSET Sources
  /\ \A g \in TimerGuests : g.rtc => g.ratio <= ClocksPerSecond
  /\ Cascade \in IR
  /\ Dates \subseteq Date /\ Alarms \subseteq Alarm
  /\ HpetConfigs \subseteq
       [level : BOOLEAN, intEnb : BOOLEAN, periodic : BOOLEAN, valSet : BOOLEAN]
  /\ HpetStores \subseteq HpetValue /\ HpetAdvances \subseteq HpetValue
  /\ \A g \in TimerGuests : "hpet" \in g.does =>
       /\ g.ratio * HpetClocks < HpetSize
       /\ "host" \in g.does => HostClocks * HpetClocks < HpetSize

VARIABLES
  guest,             (* the kind of guest                                   *)
  pit, rtc, pic, hpet,  (* the chips                                        *)
  clock,             (* the step clock's partial quanta                     *)
  bda,               (* the BIOS tick count and its midnight flag           *)
  meter,             (* history: what the guest's channel did since its     *)
                     (* count was armed, in clocks it was clocked for       *)
  reading,           (* history: the count a latch caught, what was read    *)
  irq,               (* history: the last poll's vector, and the edges of   *)
                     (* IRQ0 and IRQ8 since their last acknowledge          *)
  order,             (* history: what the guest told the clock to do        *)
  elapsed,           (* history: seconds since the clock was set            *)
  due                (* history: the ticks to the HPET's next event, and    *)
                     (* whether it had one nobody cleared                   *)

timerVars == <<guest, pit, rtc, pic, clock, bda, meter, reading, irq, order, elapsed,
               hpet, due>>

----------------------------------------------------------------------------
(* History of a channel: intervals between the edges of OUT.                *)

MeterCap == 2 * FullCount + 2

Meter ==
  [on : BOOLEAN, low : BOOLEAN, n : 0 .. FullCount, mark : {"arm", "fall"},
   since : 0 .. MeterCap,
   facts : SUBSET ({"fall", "rise", "low", "period"} \X (1 .. MeterCap))]

NoMeter == [on |-> FALSE, low |-> FALSE, n |-> 0, mark |-> "arm", since |-> 0,
            facts |-> {}]

MeterArmed(ch) == [NoMeter EXCEPT !.on = TRUE, !.low = ~ch.out, !.n = Reload(ch)]

Interval(m, edge) ==
  <<IF m.mark = "arm" THEN edge ELSE IF edge = "rise" THEN "low" ELSE "period",
    m.since + 1>>

(* One clock, from channel b to channel a.                                  *)
Measured(m, b, a) ==
  LET n == IF b.pending THEN Reload(b) ELSE m.n
  IN  IF ~m.on \/ ~Clocked(b) \/ m.since >= MeterCap THEN m
      ELSE IF Rises(b, a)
           THEN [m EXCEPT !.n = n, !.since = @ + 1,
                          !.facts = @ \cup {Interval(m, "rise")}]
      ELSE IF Rises(a, b)
           THEN [m EXCEPT !.n = n, !.mark = "fall", !.since = 0,
                          !.facts = @ \cup {Interval(m, "fall")}]
      ELSE [m EXCEPT !.n = n, !.since = @ + 1]

Reading ==
  [want : -1 .. FullCount - 1, low : -1 .. ByteBase - 1,
   got : (-1 .. FullCount - 1) \X (-1 .. FullCount - 1)]

NoReading == [want |-> -1, low |-> -1, got |-> <<-1, -1>>]

(* A latch command, before which the channel is b.                          *)
ReadingLatched(rd, b) ==
  IF b.latched # NoCount THEN rd
  ELSE [NoReading EXCEPT !.want = IF b.counting THEN b.ce % FullCount ELSE b.count]

(* A data read of channel b.                                                *)
ReadingRead(rd, b) ==
  IF ReadsStatus(b) \/ b.latched = NoCount THEN rd
  ELSE CASE b.access = "lo" -> [rd EXCEPT !.got = <<rd.want % ByteBase, ReadByte(b)>>]
         [] b.access = "hi" -> [rd EXCEPT !.got = <<rd.want \div ByteBase, ReadByte(b)>>]
         [] b.access = "lohi" /\ rd.low = -1 -> [rd EXCEPT !.low = ReadByte(b)]
         [] OTHER -> [rd EXCEPT !.got = <<rd.want, ReadByte(b) * ByteBase + rd.low>>]

----------------------------------------------------------------------------
(* History of the HPET: its events are counted from a store of the          *)
(* comparator, and not again after a store that disturbs it, until the next *)
(* comparator of a timer with no event to clear.                            *)

Unknown == -1
Never == 0           \* a one-shot that had its event

NotDue == [left |-> Unknown, rung |-> FALSE]

Distance(from, to) == IF from = to THEN HpetSize ELSE (to - from) % HpetSize

DueFrom(u, h, v) ==
  IF u.left = Unknown /\ (h.status \/ h.edge) THEN u
  ELSE [left |-> Distance(h.counter, v), rung |-> u.left # Unknown /\ u.rung]

(* A periodic timer's next event is a period after the tick that had one.   *)
DueAfter(u, h, delta) ==
  IF delta = 0 \/ ~h.enable \/ u.left \in {Unknown, Never} THEN u
  ELSE IF delta < u.left THEN [u EXCEPT !.left = @ - delta]
  ELSE [left |-> IF h.periodic THEN h.period ELSE Never, rung |-> TRUE]

----------------------------------------------------------------------------
(* The machine's clock.                                                     *)

(* A clock took the PIT from b to p; and n clocks, with whether OUT of      *)
(* channel 0 rose in any of them.                                           *)
AfterClock(b, p) ==
  [pit |-> p,
   meter |-> Measured(b.meter, b.pit.ch[guest.channel], p.ch[guest.channel]),
   rising |-> b.rising \/ Rises(b.pit.ch[0], p.ch[0])]

Ticked(p, m, n) ==
  LET after[k \in 0 .. n] ==
        IF k = 0 THEN [pit |-> p, meter |-> m, rising |-> FALSE]
        ELSE AfterClock(after[k - 1], TickPit1(after[k - 1].pit))
  IN  after[n]

(* charge_step: the quanta a step owes, and the accumulators' remainders.   *)
Owed(acc, quantum) == (acc + guest.ratio) \div quantum

(* Mutant: the clocks of a quantum stay in the accumulator.                 *)
ChargeWhole(c) ==
  IF ~guest.rtc THEN c
  ELSE [period |-> c.period + guest.ratio,
        second |-> (c.second + guest.ratio) % ClocksPerSecond]

Charge(c) ==
  IF ~guest.rtc THEN c
  ELSE [period |-> (c.period + guest.ratio) % ClocksPerPeriod,
        second |-> (c.second + guest.ratio) % ClocksPerSecond]

Periods == IF guest.rtc THEN Owed(clock.period, ClocksPerPeriod) ELSE 0
Seconds == IF guest.rtc THEN Owed(clock.second, ClocksPerSecond) ELSE 0

(* Mutant: a rise is passed on as a level.                                  *)
DriveIrq0Level(d, rising, out) == SetMasterLine(d, 0, out)

(* A rise within the tick is a pulse, whatever OUT is at its end.           *)
DriveIrq0(d, rising, out) ==
  IF rising THEN SetMasterLine(SetMasterLine(d, 0, FALSE), 0, TRUE)
            ELSE SetMasterLine(d, 0, out)

DriveIrq8(d, called, before, after) ==
  IF ~called THEN d
  ELSE IF after.irqf /\ ~before.irqf
  THEN SetSlaveLine(SetSlaveLine(d, 0, FALSE), 0, TRUE)
  ELSE SetSlaveLine(d, 0, after.irqf)

BiosTick(b) ==
  IF b.ticks + 1 >= DayTicks THEN [ticks |-> 0, overflow |-> TRUE]
                             ELSE [b EXCEPT !.ticks = @ + 1]

----------------------------------------------------------------------------
(* A step of the machine.                                                   *)

Sampled == SetSlaveLine(SetMasterLine(pic, 0, pit.ch[0].out), 0, rtc.irqf)

Polled == Acknowledge(Sampled)

(* An edge of IRQ0 nobody acknowledged, the one this poll sees included.    *)
EdgeSampled == irq.edge0 \/ (pit.ch[0].out /\ 0 \notin pic.master.pins)

(* The PIT ticked to t, the clock from r to r2, the lines were driven to d2 *)
(* from d; seen is what has happened on IRQ0 and IRQ8 before.               *)
Advanced(t, r, r2, d, d2, seen) ==
  /\ pit' = t.pit /\ meter' = t.meter
  /\ rtc' = r2
  /\ pic' = d2
  /\ bda' = IF t.rising THEN BiosTick(bda) ELSE bda
  /\ irq' = [seen EXCEPT
               !.edge0 = \/ @ \/ t.rising
                         \/ 0 \notin d.master.pins /\ 0 \in d2.master.pins,
               !.edge8 = @ \/ (~r.irqf /\ r2.irqf)]

(* tick_pit, tick_cmos and tick_cmos_second, each where it has something to *)
(* tick.                                                                    *)
PitTicked(d, t, n) == IF n > 0 THEN DriveIrq0(d, t.rising, t.pit.ch[0].out) ELSE d
Passed(r, periods) == IF periods > 0 THEN RtcPeriods(r, periods) ELSE r
Updated(r, seconds) == IF seconds > 0 THEN RtcSecond(r) ELSE r

AdvanceClock(t, r, r1, r2, d, seen, n, periods, seconds) ==
  Advanced(t, r, r2, d,
           DriveIrq8(DriveIrq8(PitTicked(d, t, n), periods > 0, r, r1),
                     seconds > 0, r1, r2), seen)

Advance(p, r, d, m, seen, n, periods, seconds) ==
  AdvanceClock(Ticked(p, m, n), r, Passed(r, periods),
               Updated(Passed(r, periods), seconds), d, seen, n, periods, seconds)

(* The HPET runs along with the PIT from h, whose history is u.             *)
Freerun(h, u, ticks) ==
  /\ hpet' = AdvanceMainCounter(h, ticks)
  /\ due' = DueAfter(u, h, ticks)

(* The instruction leaves the chips as p, r and d and the histories as m    *)
(* and rd; then the step's clocks are charged.                              *)
ClockedStep(p, r, d, m, rd, ord) ==
  LET v == AckVector(Sampled)
      passed == IF r.set THEN 0 ELSE Seconds
  IN  /\ elapsed + passed <= MaxSeconds
      /\ Advance(p, r, d, m,
                 [vector |-> v,
                  edge0 |-> EdgeSampled /\ v.chip # "master",
                  edge8 |-> (irq.edge8 /\ v.chip # "slave") \/ (~rtc.irqf /\ r.irqf)],
                 guest.ratio, Periods, Seconds)
      /\ clock' = Charge(clock)
      /\ elapsed' = (IF ord = "date" THEN 0 ELSE elapsed) + passed
      /\ reading' = rd /\ order' = ord
      /\ UNCHANGED guest

Step(p, r, d, m, rd, ord) ==
  /\ ClockedStep(p, r, d, m, rd, ord)
  /\ Freerun(hpet, due, guest.ratio * HpetClocks)

(* An instruction that leaves the clock alone, or the timer.                *)
PitStep(p, m, rd) == Step(p, rtc, Polled, m, rd, "none")

Channel == pit.ch[guest.channel]
WithChannel(ch) == [pit EXCEPT !.ch[guest.channel] = ch]

(* Port 71h: IRQ8 follows the clock at once.                                *)
RtcStep(r, ord) ==
  Step(pit, r, SetSlaveLine(Polled, 0, r.irqf), meter, reading, ord)

Other == PitStep(pit, meter, reading)

(* The end of the interrupt in service.                                     *)
OutEoi ==
  \E chip \in {"master", "slave"} :
    /\ Polled[chip].isr # {}
    /\ Step(pit, rtc,
            SyncCascade([Polled EXCEPT ![chip] = NonSpecificEoi(@, FALSE)]),
            meter, reading, "none")

Control ==
  \E mode \in guest.modes, access \in guest.accesses :
    LET ch == ApplyControl(Channel, mode, access)
    IN  PitStep(WithChannel(ch), NoMeter, NoReading)

(* A guest writes a count from its set, of which two-byte access writes a   *)
(* byte at a time; without "rewrite" only after a control word.             *)
DataByte(ch, n) ==
  IF ch.access = "hi" \/ (ch.access = "lohi" /\ ch.wphase = "hi")
  THEN n \div ByteBase ELSE n % ByteBase

Data ==
  /\ guest.modes # {}
  /\ "rewrite" \in guest.does \/ ~Channel.loaded
  /\ \E n \in guest.counts :
       LET ch == WriteData(Channel, DataByte(Channel, n))
           arms == ch.loaded /\ ~Triggered(ch.mode)
           keeps == Triggered(ch.mode) /\ ~Channel.pending
       IN  PitStep(WithChannel(ch),
                   IF arms THEN MeterArmed(ch) ELSE IF keeps THEN meter ELSE NoMeter,
                   reading)

Latch ==
  /\ "latch" \in guest.does
  /\ PitStep(WithChannel(LatchCount(Channel)), meter, ReadingLatched(reading, Channel))

ReadBackCommand ==
  /\ "latch" \in guest.does
  /\ \E parts \in SUBSET {"count", "status"} \ {{}} :
       PitStep(ReadBackPit(pit, {guest.channel}, parts), meter,
               IF "count" \in parts THEN ReadingLatched(reading, Channel) ELSE reading)

DataRead ==
  /\ "latch" \in guest.does
  /\ PitStep(WithChannel(ReadData(Channel)), meter, ReadingRead(reading, Channel))

(* Port 61h: the gate of channel 2; a fall disturbs the periodic modes.     *)
Port61 ==
  /\ "gate" \in guest.does
  /\ \E bits \in {{}, {"gate2"}, {"iochkEn", "parityEn"}},
        clears \in {{}, {"iochk", "parity"}} :
       LET p == Port61Write(pit, bits, clears)
           ch == p.ch[guest.channel]
           rises == ch.gate /\ ~Channel.gate
       IN  /\ clears # {} => "error" \in guest.does
           /\ bits = {"iochkEn", "parityEn"} => "error" \in guest.does
           /\ PitStep(p,
                IF rises /\ ch.loaded /\ ch.mode \notin {0, 4} THEN MeterArmed(ch)
                ELSE IF ~ch.gate /\ Periodic(ch.mode) THEN NoMeter ELSE meter,
                reading)

(* The host reports an error on the bus: latched, whether it raises NMI or  *)
(* not.                                                                     *)
HostError ==
  /\ "error" \in guest.does
  /\ \E error \in {"parity", "iochk"} : pit' = AssertError(pit, error)
  /\ order' = "host"
  /\ UNCHANGED <<guest, rtc, pic, hpet, clock, bda, meter, reading, irq, elapsed, due>>

(* The host ticks a chip itself: tick_pit, tick_cmos or tick_cmos_second.   *)
HostTick ==
  /\ "host" \in guest.does
  /\ \E n \in (IF guest.modes = {} THEN {0} ELSE 0 .. HostClocks),
        periods, seconds \in (IF "rtc" \in guest.does THEN {0, 1} ELSE {0}) :
       /\ elapsed + seconds <= MaxSeconds
       /\ Advance(pit, rtc, pic, meter, irq, n, periods, seconds)
       /\ elapsed' = elapsed + seconds
       /\ Freerun(hpet, due, n * HpetClocks)
  /\ order' = "host"
  /\ UNCHANGED <<guest, clock, reading>>

(* The host advances the HPET alone.                                        *)
AdvanceHpet ==
  /\ "hpet" \in guest.does
  /\ \E delta \in HpetAdvances : Freerun(hpet, due, delta)
  /\ order' = "host"
  /\ UNCHANGED <<guest, pit, rtc, pic, clock, bda, meter, reading, irq, elapsed>>

(* A store to the HPET.                                                     *)
HpetStep(h, u) ==
  /\ "hpet" \in guest.does
  /\ ClockedStep(pit, rtc, Polled, meter, reading, "none")
  /\ Freerun(h, u, guest.ratio * HpetClocks)

HpetEnable == \E on \in BOOLEAN : HpetStep([hpet EXCEPT !.enable = on], due)

HpetConfig ==
  \E c \in HpetConfigs :
    HpetStep(StoreT0Config(hpet, c.level, c.intEnb, c.periodic, c.valSet),
             IF c.level = hpet.level /\ c.periodic = hpet.periodic THEN due ELSE NotDue)

HpetComparator ==
  \E v \in HpetStores : HpetStep(StoreComparator(hpet, v), DueFrom(due, hpet, v))

HpetCounter == \E v \in HpetStores : HpetStep(StoreCounter(hpet, v), NotDue)

HpetClear == HpetStep(ClearStatus(hpet), [due EXCEPT !.rung = FALSE])

RtcReadC == {"rtc", "calendar"} \cap guest.does # {} /\ RtcStep(ReadStatusC(rtc), "read")

RtcEnable ==
  /\ "rtc" \in guest.does
  /\ \E enables \in Enables :
       RtcStep(WriteStatusB(rtc, rtc.set, rtc.h24, enables), "none")

RtcRate ==
  /\ "rtc" \in guest.does
  /\ \E periodic \in BOOLEAN : RtcStep(WriteStatusA(rtc, periodic), "none")

(* The clock is set with SET raised; the hour form may change as it runs.   *)
RtcStop ==
  /\ {"inhibit", "calendar"} \cap guest.does # {} /\ ~rtc.set
  /\ RtcStep(WriteStatusB(rtc, TRUE, rtc.h24, rtc.enables), "set")

HourByte(h) == IF rtc.h24 THEN EncodeField(h, rtc.binary) ELSE To12(EncodeField(h, rtc.binary), rtc.binary)

RtcSetTime ==
  /\ "calendar" \in guest.does /\ rtc.set
  /\ \E date \in Dates :
       RtcStep(WriteFields(rtc,
         [century |-> EncodeField(date.year \div 100, rtc.binary),
          year |-> EncodeField(date.year % 100, rtc.binary),
          month |-> EncodeField(date.month, rtc.binary),
          day |-> EncodeField(date.day, rtc.binary), dow |-> date.dow,
          hour |-> HourByte(date.hour),
          min |-> EncodeField(date.min, rtc.binary),
          sec |-> EncodeField(date.sec, rtc.binary)]), "date")

RtcStart ==
  /\ "calendar" \in guest.does /\ rtc.set /\ rtc.month # 0
  /\ RtcStep(WriteStatusB(rtc, FALSE, rtc.h24, rtc.enables), "set")

RtcFormat ==
  /\ "format" \in guest.does
  /\ RtcStep(WriteStatusB(rtc, rtc.set, ~rtc.h24, rtc.enables), "none")

RtcSetAlarm ==
  /\ "calendar" \in guest.does
  /\ \E a \in Alarms :
       RtcStep(WriteFields(rtc,
         [aSec  |-> EncodeField(a.sec, rtc.binary),
          aMin  |-> EncodeField(a.min, rtc.binary),
          aHour |-> IF a.hour = -1 THEN DontCare ELSE HourByte(a.hour)]), "alarm")

----------------------------------------------------------------------------
PowerOn ==
  [pit |-> ResetPit, rtc |-> [ResetRtc EXCEPT !.binary = guest.binary],
   pic |-> [master |-> Programmed(ResetRole(TRUE), Cascade),
            slave  |-> [Programmed(ResetRole(FALSE), Cascade) EXCEPT !.slaveId = Cascade]],
   hpet |-> ResetHpet, clock |-> [period |-> 0, second |-> 0]]

NoIrq == [vector |-> NoVector, edge0 |-> FALSE, edge8 |-> FALSE]

TimersInit ==
  /\ guest \in TimerGuests
  /\ pit = PowerOn.pit /\ rtc = PowerOn.rtc /\ pic = PowerOn.pic
  /\ hpet = PowerOn.hpet /\ clock = PowerOn.clock
  /\ bda = [ticks |-> 0, overflow |-> FALSE]
  /\ meter = NoMeter /\ reading = NoReading /\ irq = NoIrq
  /\ order = "reset" /\ elapsed = 0
  /\ due = [NotDue EXCEPT !.left = HpetSize]

(* Machine::reset, and the guest's programming of the PICs and of the DM    *)
(* bit after it; memory, and with it the tick count, survives.              *)
MachineReset ==
  /\ pit' = PowerOn.pit /\ rtc' = PowerOn.rtc /\ pic' = PowerOn.pic
  /\ hpet' = PowerOn.hpet /\ clock' = PowerOn.clock
  /\ meter' = NoMeter /\ reading' = NoReading /\ irq' = NoIrq
  /\ order' = "reset" /\ elapsed' = 0
  /\ due' = [NotDue EXCEPT !.left = HpetSize]
  /\ UNCHANGED <<guest, bda>>

TimersStep ==
  \/ Other \/ OutEoi
  \/ Control \/ Data \/ Latch \/ ReadBackCommand \/ DataRead \/ Port61
  \/ HpetEnable \/ HpetConfig \/ HpetComparator \/ HpetCounter \/ HpetClear
  \/ RtcReadC \/ RtcEnable \/ RtcRate
  \/ RtcStop \/ RtcSetTime \/ RtcStart \/ RtcFormat \/ RtcSetAlarm

TimersNext == TimersStep \/ HostTick \/ AdvanceHpet \/ HostError \/ MachineReset

TimersSpec == TimersInit /\ [][TimersNext]_timerVars
----------------------------------------------------------------------------
(* Properties.                                                              *)

(* Registers and history have the values the models give them, and a        *)
(* partial quantum is less than a quantum.                                  *)
TimersTypeOK ==
  /\ guest \in TimerGuests
  /\ pit \in Pit
  /\ rtc \in Rtc
  /\ pic \in Pair /\ hpet \in HpetMmio
  /\ clock \in [period : 0 .. ClocksPerPeriod - 1, second : 0 .. ClocksPerSecond - 1]
  /\ bda \in [ticks : 0 .. DayTicks - 1, overflow : BOOLEAN]
  /\ meter \in Meter /\ reading \in Reading
  /\ irq \in [vector : Vectors, edge0 : BOOLEAN, edge8 : BOOLEAN]
  /\ order \in {"none", "set", "date", "alarm", "read", "host", "reset"}
  /\ elapsed \in 0 .. MaxSeconds
  /\ due \in [left : -1 .. HpetSize, rung : BOOLEAN]

(* The intervals of a channel nobody touched since its count N was armed    *)
(* are those of its mode, however many clocks a step is charged: a one-shot *)
(* times out after N clocks and once, a square wave has period N, and the   *)
(* rate generator has period N + 1, a clock more than the datasheet's.      *)
Allowed(mode, n, low) ==
  LET high == (n + 1) \div 2
  IN CASE mode = 0 -> {<<"rise", n + 1>>}
       [] mode = 1 -> {<<"fall", 1>>, <<"low", n>>, <<"rise", n + 1>>}
       [] mode = 2 -> {<<"fall", n + 1>>, <<"low", 1>>, <<"period", n + 1>>}
                      \cup (IF low THEN {<<"rise", 2>>} ELSE {})
       [] mode = 3 -> {<<"low", n \div 2>>, <<"period", n>>}
                      \cup (IF low THEN {<<"rise", 1 + high>>, <<"fall", 1 + 2 * high>>}
                                   ELSE {<<"fall", 1 + high>>})
       [] OTHER -> {<<"fall", n + 1>>, <<"low", 1>>, <<"rise", n + 2>>}

OutOnTime ==
  meter.on /\ ~(Periodic(Channel.mode) /\ meter.n = 1) =>
    meter.facts \subseteq Allowed(Channel.mode, meter.n, meter.low)

(* A count that was latched is read whole: the bytes are those of the count *)
(* at the first latch, whatever was latched, clocked or read as status      *)
(* between the latch and the reads.                                         *)
CountReadWhole == reading.got[1] = reading.got[2]

(* Until its handler ends it, an interrupt of a timer is not asked for      *)
(* twice and not forgotten: an edge of IRQ0 is acknowledged as IRQ0 by the  *)
(* very next step if OUT is still high (a step that ends with OUT low loses *)
(* the edge to the spurious vector), an edge of IRQ8 as soon as nothing     *)
(* above it is in service, and neither without an edge.                     *)
InterruptsKept ==
  [][order' \notin {"reset", "host"} =>
        /\ EdgeSampled /\ pit.ch[0].out /\ 0 \notin pic.master.isr
             => irq'.vector = Irq0
        /\ irq'.vector = Irq0 => EdgeSampled
        /\ irq.edge8 /\ rtc.irqf /\ pic.slave.isr = {}
             /\ pic.master.isr = {} /\ irq'.vector.chip # "master"
             => irq'.vector = Irq8
        /\ irq'.vector = Irq8 => irq.edge8]_timerVars

(* The HPET's event is neither early, late, doubled nor missed, in jumps of *)
(* any length and over the wrap of the counter: the status bit is set       *)
(* exactly from the tick that reaches the comparator, or a periodic timer's *)
(* next period after that, until it is cleared, and the line is the status  *)
(* where it is enabled, for edges as for levels.                            *)
HpetOnTime ==
  due.left # Unknown =>
    /\ hpet.status = due.rung
    /\ IrqLine(hpet) = (hpet.enable /\ hpet.intEnb /\ due.rung)

----------------------------------------------------------------------------
(* The clock as WallClock sees it: its registers decoded.                   *)

NoTime == [day |-> -1, second |-> -1]

(* Days before a date of the Gregorian calendar.                            *)
DaysBefore(y, m, d) ==
  LET inYear == <<0, 31, 59, 90, 120, 151, 181, 212, 243, 273, 304, 334>>
      leap == (y % 4 = 0 /\ y % 100 # 0) \/ y % 400 = 0
  IN  365 * (y - 1) + (y - 1) \div 4 - (y - 1) \div 100 + (y - 1) \div 400
      + inYear[m] + (IF leap /\ m > 2 THEN 1 ELSE 0) + d - 1

HourOf(r, b) ==
  IF r.h24 THEN DecodeField(b, r.binary)
  ELSE (DecodeField(HourBits(b), r.binary) % 12) + (IF IsPm(b) THEN 12 ELSE 0)

DayOf(r) ==
  DaysBefore(FullYear(r), DecodeField(r.month, r.binary), DecodeField(r.day, r.binary))

(* A clock that was set: its weekday goes with its date.                    *)
IsSet(r) == ~r.set /\ r.month # 0 /\ r.dow = (DayOf(r) % 7) + 1

TimeOf(r) ==
  IF ~IsSet(r) THEN NoTime
  ELSE [day |-> DayOf(r),
        second |-> HourOf(r, r.hour) * 3600 + DecodeField(r.min, r.binary) * 60
                   + DecodeField(r.sec, r.binary)]

AlarmField(r, b) == IF b >= DontCare THEN -1 ELSE DecodeField(b, r.binary)

AlarmOf(r) ==
  [hour |-> IF r.aHour >= DontCare THEN -1 ELSE HourOf(r, r.aHour),
   minute |-> AlarmField(r, r.aMin), second |-> AlarmField(r, r.aSec)]

Wall == INSTANCE WallClock
          WITH now <- TimeOf(rtc), alarm <- AlarmOf(rtc),
               rung <- "A" \in rtc.flags, order <- order,
               FirstDay <- DaysBefore(0, 1, 1), LastDay <- DaysBefore(9999, 12, 31),
               NoTime <- NoTime, Any <- -1

(* BCD or binary, 12 or 24 hours, and changed from one to the other while   *)
(* it runs: the chip is a WallClock.  It moves on by a second, over noon,   *)
(* midnight, leap days, years and centuries, and from the last second of    *)
(* year 9999 to the first of year 0; and the alarm keeps its time.          *)
CalendarRuns == Wall!WallSpec
=============================================================================
