------------------------------ MODULE MCTimers ------------------------------
(* Instances of Timers.                                                     *)
EXTENDS Timers

MC_Idle == [channel |-> 0, modes |-> {}, counts |-> {}, accesses |-> {"lohi"},
            does |-> {}, ratio |-> 1, rtc |-> FALSE, binary |-> FALSE]

MC_Periodic(ratio) ==
  [MC_Idle EXCEPT !.modes = {2, 3}, !.counts = {0, 2, 3}, !.accesses = {"lo", "lohi"},
                  !.ratio = ratio]

MC_Guests ==
  {MC_Periodic(ratio) : ratio \in {1, 2, 3}} \cup
  {[MC_Idle EXCEPT !.modes = {0, 2}, !.counts = {1, 3}, !.does = {"rewrite"}],
   [MC_Idle EXCEPT !.modes = {2, 3}, !.counts = {3}, !.ratio = 0, !.does = {"host"}],
   [MC_Idle EXCEPT !.ratio = 0, !.does = {"host", "rtc"}],
   [MC_Idle EXCEPT !.does = {"hpet"}],
   [MC_Idle EXCEPT !.modes = {3, 4}, !.counts = {0, 2}, !.does = {"rewrite"}],
   [MC_Idle EXCEPT !.modes = {0}, !.counts = {0}, !.does = {"latch"}],
   [MC_Idle EXCEPT !.modes = {2}, !.counts = {3}, !.does = {"latch"},
                   !.accesses = {"lo", "lohi"}],
   [MC_Idle EXCEPT !.channel = 1, !.modes = {2}, !.counts = {2}],
   [MC_Idle EXCEPT !.channel = 2, !.modes = {0, 1, 2}, !.counts = {2, 3},
                   !.does = {"gate", "rewrite"}],
   [MC_Idle EXCEPT !.channel = 2, !.modes = {3, 4, 5}, !.counts = {2, 3},
                   !.does = {"gate", "rewrite"}],
   [MC_Idle EXCEPT !.channel = 2, !.does = {"gate", "error"}],
   [MC_Idle EXCEPT !.does = {"rtc", "inhibit"}, !.rtc = TRUE],
   [MC_Idle EXCEPT !.does = {"rtc"}, !.modes = {2}, !.counts = {2}, !.accesses = {"lo"},
                   !.rtc = TRUE],
   [MC_Idle EXCEPT !.does = {"calendar", "format"}, !.rtc = TRUE],
   [MC_Idle EXCEPT !.does = {"calendar", "format"}, !.rtc = TRUE, !.binary = TRUE]}

MC_T0(level, intEnb, periodic, valSet) ==
  [level |-> level, intEnb |-> intEnb, periodic |-> periodic, valSet |-> valSet]

MC_HpetConfigs ==
  {MC_T0(FALSE, TRUE, FALSE, FALSE), MC_T0(TRUE, TRUE, TRUE, FALSE),
   MC_T0(TRUE, TRUE, TRUE, TRUE)}
MC_HpetStores == {0, 5}
MC_HpetAdvances == {7}

MC_Enables == {{}, {"P"}, {"A", "U"}}

MC_At(y, mo, d, h, mi, s) ==
  [year |-> y, month |-> mo, day |-> d, hour |-> h, min |-> mi, sec |-> s,
   dow |-> (DaysBefore(y, mo, d) % 7) + 1]

MC_Dates ==
  {MC_At(1999, 12, 31, 23, 59, 59),    \* year and century
   MC_At(2000, 2, 28, 23, 59, 59),     \* a leap year of a century
   MC_At(2100, 2, 28, 23, 59, 59),     \* a century that is none
   MC_At(9999, 12, 31, 23, 59, 59),    \* the calendar's end
   MC_At(2024, 2, 29, 23, 59, 59),     \* the leap day's end
   MC_At(2026, 4, 30, 11, 59, 59),     \* noon
   MC_At(2026, 4, 9, 12, 59, 59),      \* the hour after noon
   MC_At(2026, 4, 19, 0, 59, 58)}      \* the hour after midnight

MC_Alarms ==
  {[hour |-> 0, min |-> 0, sec |-> 0], [hour |-> 13, min |-> 0, sec |-> 0],
   [hour |-> -1, min |-> 0, sec |-> 1]}
=============================================================================
