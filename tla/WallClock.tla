----------------------------- MODULE WallClock -----------------------------
(***************************************************************************)
(* What a clock with a calendar and an alarm promises, whatever format it  *)
(* keeps its registers in: while it runs, time passes second by second,    *)
(* and after the calendar's last day comes its first; it is stopped and    *)
(* set only when told to; and the alarm rings in the second it names and   *)
(* in no other.                                                            *)
(***************************************************************************)
EXTENDS Integers

CONSTANTS
  FirstDay, LastDay, (* the days of the calendar                            *)
  NoTime,            (* the time of a clock that is stopped or was not set  *)
  Any                (* a field of an alarm that any time matches           *)

VARIABLES
  now,               (* day number and second of the day                    *)
  alarm,             (* hour, minute and second                             *)
  rung,              (* has the alarm rung since it was last acknowledged?  *)
  order              (* what the clock was told to do in the last step      *)

wallVars == <<now, alarm, rung, order>>

(* Orders that stop, set or start the clock.                                *)
Setting == {"set", "date", "reset"}

SecondsPerDay == 24 * 3600

Later(t) ==
  IF t.second = SecondsPerDay - 1
  THEN [day |-> IF t.day = LastDay THEN FirstDay ELSE t.day + 1, second |-> 0]
  ELSE [t EXCEPT !.second = @ + 1]

Rings(a, t) ==
  /\ t # NoTime
  /\ a.hour   \in {Any, t.second \div 3600}
  /\ a.minute \in {Any, (t.second \div 60) % 60}
  /\ a.second \in {Any, t.second % 60}

WallInit == now = NoTime /\ ~rung /\ order = "reset"

(* The time is kept or moves on by a second; to stop, and to start at any   *)
(* time, takes an order.                                                    *)
Passes ==
  \/ now' = now
  \/ now # NoTime /\ now' = Later(now)
  \/ order' \in Setting

KeepsAlarm == alarm' = alarm \/ order' \in Setting \cup {"alarm"}

RingsOnTime ==
  /\ rung' /\ ~rung => Rings(alarm', now) \/ Rings(alarm', now')
                       \/ order' \in Setting \/ now' = NoTime
  /\ now' # now /\ order' \notin Setting /\ Rings(alarm', now') => rung'
  /\ rung /\ ~rung' => order' \in {"read", "reset"}

WallNext == Passes /\ KeepsAlarm /\ RingsOnTime

WallSpec == WallInit /\ [][WallNext]_wallVars
=============================================================================
