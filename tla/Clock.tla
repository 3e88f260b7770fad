--------------------------------- MODULE Clock ---------------------------------
(***************************************************************************)
(* The device's clock (utils/aiio_rtc_timer.c, utils/aiio_ctime.c): a      *)
(* broken-down local time that a task advances every LoopPeriod (100 ms in *)
(* application/aiio_cloud_rtc.c), that the mqtt task sets from what the    *)
(* cloud answers and that every message is stamped from, both field by     *)
(* field and without a lock.  The phone configures the time zone, in two   *)
(* writes.  The clock's task has a higher priority than the others: it may *)
(* run between any two of their steps, not they between two of its.        *)
(***************************************************************************)
EXTENDS Integers, Sequences

CONSTANTS
    Times,              \* what the cloud may answer: [year, mon, day, hour, minute, second]
    Zones,              \* what the phone may configure: [zone, west]
    LoopPeriod,         \* milliseconds between two turns of the clock's task
    MaxSets, MaxTicks   \* bounds

Fields == <<"year", "mon", "day", "hour", "minute", "second">>
ReadOrder == <<"year", "mon", "day", "minute", "second", "hour">>
Numbers == {Fields[i] : i \in DOMAIN Fields}

ASSUME TimeAssumption == Times \subseteq [Numbers -> Nat]
ASSUME ZoneAssumption == Zones \subseteq [zone : 0 .. 14, west : BOOLEAN]
ASSUME PeriodAssumption == LoopPeriod \in Nat \ {0}
ASSUME BoundAssumption == MaxSets \in Nat /\ MaxTicks \in Nat

VARIABLES
    local_time, week, milliscond,
    tz, coming,         \* timeZone and zoneDirection; the zone of which only the first is written
    shift, at, rtc_time,    \* the mqtt task: where it moves its time by the zone ("none": nowhere),
                            \* and the field it writes next (7: week; 0: none)
    read, timeData,     \* the task that stamps a message: how many fields it has read, and them
    sets, ticks,        \* counted up to their bounds
    due,                \* history: what a message should be stamped with; 0 before the first set
                        \* and after one that the zone changed in
    from, crossed,      \* history: what was due when the read began; a minute was carried, or a
                        \* set written, since then
    torn,               \* history: a second passed in the middle of the last set
    mixed,              \* history: the zone changed while a time was moved by it
    odd                 \* history: a carry since then left the calendar

clock   == <<local_time, week, milliscond>>
timezone == <<tz, coming>>
setter  == <<shift, at, rtc_time>>
reader  == <<read, timeData>>
history == <<due, from, crossed, torn, mixed, odd>>
vars == <<clock, timezone, setter, reader, sets, ticks, history>>

-----------------------------------------------------------------------------
(* utils/aiio_ctime.c                                                      *)
YEAR_LEAP(y) == (y % 4 = 0 /\ y % 100 # 0) \/ (y % 400 = 0 /\ y % 3200 # 0) \/ y % 172800 = 0
DAYS_OF_THE_YEAR(y) == IF YEAR_LEAP(y) THEN 366 ELSE 365
MonthDays == <<31, 28, 31, 30, 31, 30, 31, 31, 30, 31, 30, 31>>
DAYS_OF_THE_MONTH(y, m) == IF m = 2 /\ YEAR_LEAP(y) THEN 29 ELSE MonthDays[m]

\* Zeller's congruence; January and February are months of the year before.
KeepsYear(y, m, d) ==                                                       \* mutant
    LET mm == IF m <= 2 THEN m + 12 ELSE m
        c == y \div 100
        r == y % 100
    IN  (c \div 4 - 2 * c + r + r \div 4 + (13 * (mm + 1)) \div 5 + d - 1) % 7
cTimeToWeek(y, m, d) ==
    LET yy == IF m <= 2 THEN y - 1 ELSE y
        mm == IF m <= 2 THEN m + 12 ELSE m
        c == yy \div 100
        r == yy % 100
    IN  (c \div 4 - 2 * c + r + r \div 4 + (13 * (mm + 1)) \div 5 + d - 1) % 7

YearsTo[y \in Nat] == IF y <= 1970 THEN 0 ELSE YearsTo[y - 1] + DAYS_OF_THE_YEAR(y - 1)

MonthsTo(y, m) ==
    LET upto[k \in 0 .. 12] == IF k <= 1 THEN 0 ELSE upto[k - 1] + DAYS_OF_THE_MONTH(y, k - 1)
    IN  upto[m]

\* The code keeps the low 32 bits of it: all of it, until February of 2106.
lTimeToStamp(t, cUTC) ==
    (YearsTo[t.year] + MonthsTo(t.year, t.mon) + t.day - 1) * 86400
        + t.hour * 3600 + t.minute * 60 + t.second - cUTC * 3600

\* A message is stamped, with what was read, as if the time zone were always +8.
CurrentTimeStamp == lTimeToStamp(timeData, 8)

NoTime == [f \in Numbers |-> 0]

Init ==
    /\ local_time = [year |-> 2023, mon |-> 6, day |-> 1, hour |-> 13, minute |-> 52, second |-> 22]
    /\ week = 0 /\ milliscond = 0
    /\ tz = [zone |-> 8, west |-> FALSE] /\ coming = {}
    /\ shift = "none" /\ at = 0 /\ rtc_time = local_time
    /\ read = 0 /\ timeData = NoTime
    /\ sets = 0 /\ ticks = 0 /\ due = 0 /\ from = 0
    /\ crossed = FALSE /\ torn = FALSE /\ mixed = FALSE /\ odd = FALSE

-----------------------------------------------------------------------------
(* The clock's task: aiio_rtc_loop.                                        *)

\* One carry after the other.  The last day of a month already is the next month's, and
\* its number goes on; after December comes month 0.
Minute(t) ==
    IF t.second < 60 THEN t
    ELSE [t EXCEPT !.second = 0, !.minute = IF t.minute >= 59 THEN 0 ELSE t.minute + 1,
                   !.hour = IF t.minute >= 59 THEN t.hour + 1 ELSE t.hour]
Day(t, carried) ==
    IF carried /\ t.hour >= 24 THEN [t EXCEPT !.hour = 0, !.day = t.day + 1] ELSE t
Length(t) == IF t.mon = 0 THEN 0 ELSE DAYS_OF_THE_MONTH(t.year, t.mon)
Month(t, carried) ==
    IF ~carried \/ t.day < Length(t) THEN t
    ELSE IF t.mon >= 12 THEN [t EXCEPT !.mon = 0, !.year = t.year + 1] ELSE [t EXCEPT !.mon = t.mon + 1]

Second(t) ==
    LET a == Minute([t EXCEPT !.second = t.second + 1])
        b == Day(a, a.hour # t.hour)
    IN  Month(b, b.day # t.day)

Tick ==
    /\ ticks < MaxTicks /\ ticks' = ticks + 1
    /\ IF milliscond + LoopPeriod < 1000
       THEN milliscond' = milliscond + LoopPeriod /\ UNCHANGED <<local_time, history>>
       ELSE /\ milliscond' = 0 /\ local_time' = Second(local_time)
            /\ due' = IF due = 0 THEN 0 ELSE due + 1
            /\ crossed' = (read # 0 /\ (crossed \/ local_time'.minute # local_time.minute))
            /\ torn' = (torn \/ at # 0)
            /\ odd' = (odd \/ local_time'.mon # local_time.mon
                           \/ (local_time.hour >= 24 /\ local_time'.hour = 0))
            /\ UNCHANGED <<from, mixed>>
    /\ week' = IF milliscond' = 0 /\ local_time'.second % 10 = 0
               THEN cTimeToWeek(local_time'.year, local_time'.mon, local_time'.day) ELSE week
    /\ UNCHANGED <<timezone, setter, reader, sets>>

-----------------------------------------------------------------------------
(* The mqtt task: aiio_online_update_local_time, aiio_set_rtc_time.        *)
Valid(t) ==
    /\ t.year >= 2006 /\ t.mon \in 1 .. 12 /\ t.day \in 1 .. DAYS_OF_THE_MONTH(t.year, t.mon)
    /\ t.hour <= 23 /\ t.minute <= 59 /\ t.second <= 59

\* The time moved by the zone there is now, in the way found before.  An hour east of
\* Greenwich may be past 24; west of it the day may be 0.
East(t) == IF t.hour + tz.zone = 24 THEN [t EXCEPT !.hour = 0, !.day = t.day + 1]
           ELSE [t EXCEPT !.hour = t.hour + tz.zone]
KeepsDay(way, t) ==                                                         \* mutant
    CASE way = "east"     -> East(t)
      [] way = "subtract" -> [t EXCEPT !.hour = (t.hour - tz.zone) % 256]
      [] way = "borrow"   -> [t EXCEPT !.hour = (t.hour + 24 - tz.zone) % 256]
ToLocal(way, t) ==
    CASE way = "east"     -> East(t)
      [] way = "subtract" -> [t EXCEPT !.hour = (t.hour - tz.zone) % 256]
      [] way = "borrow"   -> [t EXCEPT !.hour = (t.hour + 24 - tz.zone) % 256, !.day = t.day - 1]

\* Days since 1970 of a date, in closed form.
Days(y, m, d) ==
    LET yy == IF m <= 2 THEN y - 1 ELSE y
    IN  365 * yy + yy \div 4 - yy \div 100 + yy \div 400
          + (153 * ((m + 9) % 12) + 2) \div 5 + d - 1 - 719468

Utc(t) == Days(t.year, t.mon, t.day) * 86400 + t.hour * 3600 + t.minute * 60 + t.second
Shift == (IF tz.west THEN -tz.zone - 8 ELSE tz.zone - 8) * 3600

OnlineUpdate(t) ==
    /\ shift = "none" /\ at = 0 /\ sets < MaxSets /\ sets' = sets + 1
    /\ IF Valid(t) THEN shift' = "direction" /\ rtc_time' = t /\ mixed' = (coming # {})
       ELSE UNCHANGED <<shift, rtc_time, mixed>>
    /\ UNCHANGED <<clock, timezone, at, reader, ticks, due, from, crossed, torn, odd>>

\* The direction is read, then west of Greenwich the number of hours once to see whether they
\* are to be had, and again to take them off.
FindWay ==
    /\ \/ shift = "direction" /\ shift' = IF tz.west THEN "west" ELSE "east"
       \/ shift = "west" /\ shift' = IF rtc_time.hour >= tz.zone THEN "subtract" ELSE "borrow"
    /\ UNCHANGED <<clock, timezone, at, rtc_time, reader, sets, ticks, history>>

MoveByZone ==
    /\ shift \in {"east", "subtract", "borrow"} /\ shift' = "none"
    /\ at' = 1 /\ rtc_time' = ToLocal(shift, rtc_time)
    /\ due' = (IF mixed THEN 0 ELSE Utc(rtc_time) + Shift) /\ crossed' = (read # 0) /\ torn' = FALSE /\ odd' = FALSE
    /\ UNCHANGED <<clock, timezone, reader, sets, ticks, from, mixed>>

SkipsMinute(f) ==                                                           \* mutant
    local_time' = IF f = "minute" THEN local_time ELSE [local_time EXCEPT ![f] = rtc_time[f]]
Write(f) == local_time' = [local_time EXCEPT ![f] = rtc_time[f]]

SetRtcTime ==
    /\ at # 0
    /\ \/ /\ at \in DOMAIN Fields /\ Write(Fields[at]) /\ at' = at + 1 /\ UNCHANGED week
       \/ /\ at = Len(Fields) + 1 /\ at' = 0
          /\ week' = cTimeToWeek(rtc_time.year, rtc_time.mon, rtc_time.day)
          /\ UNCHANGED local_time
    /\ UNCHANGED <<milliscond, timezone, shift, rtc_time, reader, sets, ticks, history>>

-----------------------------------------------------------------------------
\* The supervisor: aiio_update_rtc_time_with_zone writes the number of hours, then the
\* direction, and sets the clock to what it says.
ZoneHours(z) ==
    /\ coming = {} /\ z # tz /\ coming' = {z} /\ tz' = [tz EXCEPT !.zone = z.zone]
    /\ mixed' = (mixed \/ shift # "none")
    /\ UNCHANGED <<clock, setter, reader, sets, ticks, due, from, crossed, torn, odd>>

UpdateZone(z) ==
    /\ coming = {z} /\ coming' = {} /\ tz' = z
    /\ week' = cTimeToWeek(local_time.year, local_time.mon, local_time.day)
    /\ mixed' = (mixed \/ shift # "none")
    /\ UNCHANGED <<local_time, milliscond, setter, reader, sets, ticks, due, from, crossed, torn, odd>>

-----------------------------------------------------------------------------
\* A task that stamps a message, whichever it is: aiio_get_current_time_stamp, the hour last.
ReadField ==
    LET f == ReadOrder[read + 1]
    IN  /\ read < Len(ReadOrder) /\ read' = read + 1
        /\ timeData' = [timeData EXCEPT ![f] = local_time[f]]
        /\ from' = IF read = 0 THEN due ELSE from
        /\ crossed' = IF read = 0 THEN at # 0 ELSE crossed
        /\ UNCHANGED <<clock, timezone, setter, sets, ticks, due, torn, mixed, odd>>

Next ==
    \/ Tick \/ ReadField
    \/ (\E t \in Times : OnlineUpdate(t)) \/ FindWay \/ MoveByZone \/ SetRtcTime
    \/ \E z \in Zones : ZoneHours(z) \/ UpdateZone(z)

Spec == Init /\ [][Next]_vars

-----------------------------------------------------------------------------
\* A message is stamped with the cloud's time, moved by the zone the clock was set in, and
\* the seconds since - through minutes, hours and midnights, in any zone: a time between what
\* was due when the task began to read the clock and what is due now, although seconds pass
\* between the reads.  What is left out: a minute carried or a set written between the reads, a
\* second in the middle of the last set, a zone that changed while the hour was moved by it, and
\* a calendar that was left (aiio_get_current_time_stamp).
StampIsTime ==
    read = Len(ReadOrder) /\ due # 0 /\ ~crossed /\ ~torn /\ ~odd =>
        from <= CurrentTimeStamp /\ CurrentTimeStamp <= due

\* The day of the week is that of the date, whatever ticks came since it was computed
\* (aiio_cTimeToWeek).
WeekIsDay ==
    due # 0 /\ at = 0 /\ ~torn /\ local_time.mon # 0 =>
        week = (Days(local_time.year, local_time.mon, local_time.day) + 4) % 7

\* Seconds that pass in the middle of a set put the clock ahead of what it is set to, or
\* leave it, but never behind.
SetNeverBehind ==
    [][at # 0 /\ at' = 0 /\ ~odd /\ rtc_time.hour < 24 =>
         lTimeToStamp(local_time, 8) >= lTimeToStamp(rtc_time, 8)]_vars
=============================================================================
