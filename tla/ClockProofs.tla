------------------------------ MODULE ClockProofs ------------------------------
(***************************************************************************)
(* Theorems about Clock, for any answers of the cloud, zones and bounds:   *)
(* a stamp lies between the times due when its reading began and ended,    *)
(* the day of the week is that of the date, and a set that the clock's     *)
(* task interrupts never leaves the clock behind.                          *)
(***************************************************************************)
EXTENDS Clock, WellFoundedInduction, TLAPS

-----------------------------------------------------------------------------
(* Times, field by field.                                                  *)
Names == {"year", "mon", "day", "hour", "minute", "second"}

TimeTyped(t) ==
    /\ DOMAIN t = Names
    /\ t.year \in Nat /\ t.mon \in 0..12 /\ t.day \in Int /\ t.hour \in Int
    /\ t.minute \in 0..59 /\ t.second \in 0..59

LEMMA NumbersAre == Numbers = Names
<1>1. DOMAIN Fields = 1..6
  BY DEF Fields
<1>2. /\ Fields[1] = "year" /\ Fields[2] = "mon" /\ Fields[3] = "day"
      /\ Fields[4] = "hour" /\ Fields[5] = "minute" /\ Fields[6] = "second"
  BY DEF Fields
<1>3. 1..6 = {1, 2, 3, 4, 5, 6}
  OBVIOUS
<1>4. Numbers = {Fields[1], Fields[2], Fields[3], Fields[4], Fields[5], Fields[6]}
  BY <1>1, <1>3 DEF Numbers
<1> QED
  BY <1>2, <1>4 DEF Names

LEMMA TimeIs == \A t \in Times : /\ DOMAIN t = Names
                                 /\ t.year \in Nat /\ t.mon \in Nat /\ t.day \in Nat
                                 /\ t.hour \in Nat /\ t.minute \in Nat /\ t.second \in Nat
BY TimeAssumption, NumbersAre DEF Names

(* The carries of a second.                                                *)
HoursOf(t)   == t.day * 24 + t.hour
MinutesOf(t) == HoursOf(t) * 60 + t.minute
SecondsOf(t) == MinutesOf(t) * 60 + t.second

\* u is t a second later, in the same minute.
SecondOn(t, u) ==
    /\ u.year = t.year /\ u.mon = t.mon /\ u.day = t.day /\ u.hour = t.hour
    /\ u.minute = t.minute /\ u.second = t.second + 1

\* u is t a second later, in the same month and with no hour that was out of the day.
LaterInMonth(t, u) ==
    /\ u.year = t.year /\ u.day >= t.day /\ (u.day = t.day \/ u.day <= 31)
    /\ u.hour = t.hour \/ u.hour = 0 \/ (u.hour = t.hour + 1 /\ u.hour < 24)
    /\ HoursOf(u) >= HoursOf(t) /\ MinutesOf(u) >= MinutesOf(t) /\ SecondsOf(u) = SecondsOf(t) + 1

LEMMA SumsTyped ==
    ASSUME NEW t, TimeTyped(t)
    PROVE  HoursOf(t) \in Int /\ MinutesOf(t) \in Int /\ SecondsOf(t) \in Int
<1>1. t.day \in Int /\ t.hour \in Int /\ t.minute \in Int /\ t.second \in Int
  BY DEF TimeTyped
<1>2. HoursOf(t) \in Int
  BY <1>1, SMT DEF HoursOf
<1>3. MinutesOf(t) \in Int
  BY <1>1, <1>2, SMT DEF MinutesOf
<1> QED
  BY <1>1, <1>2, <1>3, SMT DEF SecondsOf

LEMMA SecondPasses ==
    ASSUME NEW t, TimeTyped(t)
    PROVE  /\ TimeTyped(Second(t))
           /\ Second(t).second # 0 =>
                Second(t).year = t.year /\ Second(t).mon = t.mon /\ Second(t).day = t.day
           /\ Second(t).minute = t.minute => SecondOn(t, Second(t))
           /\ Second(t).mon = t.mon /\ ~(t.hour >= 24 /\ Second(t).hour = 0) =>
                LaterInMonth(t, Second(t))
<1> DEFINE s == [t EXCEPT !.second = t.second + 1]
           a == Minute(s)
           b == Day(a, a.hour # t.hour)
           u == Month(b, b.day # t.day)
<1> USE DEF Names
<1>1. u = Second(t)
  BY DEF Second
<1>2. /\ DOMAIN s = Names /\ s.year = t.year /\ s.mon = t.mon /\ s.day = t.day
      /\ s.hour = t.hour /\ s.minute = t.minute /\ s.second = t.second + 1
  BY DEF TimeTyped
<1> HIDE DEF s
<1>3. /\ DOMAIN a = Names /\ a.year = t.year /\ a.mon = t.mon /\ a.day = t.day
      /\ \/ t.second < 59 /\ a.second = t.second + 1 /\ a.minute = t.minute /\ a.hour = t.hour
         \/ t.second = 59 /\ a.second = 0 /\ t.minute < 59 /\ a.minute = t.minute + 1 /\ a.hour = t.hour
         \/ t.second = 59 /\ a.second = 0 /\ t.minute = 59 /\ a.minute = 0 /\ a.hour = t.hour + 1
  <2>1. CASE t.second < 59
    <3>1. a = s
      BY <1>2, <2>1 DEF TimeTyped, Minute
    <3> QED
      BY <1>2, <2>1, <3>1
  <2>2. CASE t.second = 59 /\ t.minute < 59
    <3>1. ~(s.second < 60) /\ ~(s.minute >= 59)
      BY <1>2, <2>2 DEF TimeTyped
    <3>2. a = [s EXCEPT !.second = 0, !.minute = s.minute + 1, !.hour = s.hour]
      BY <3>1 DEF Minute
    <3> QED
      BY <1>2, <2>2, <3>2
  <2>3. CASE t.second = 59 /\ t.minute = 59
    <3>1. a = [s EXCEPT !.second = 0, !.minute = 0, !.hour = t.hour + 1]
      BY <1>2, <2>3 DEF TimeTyped, Minute
    <3> QED
      BY <1>2, <2>3, <3>1 DEF TimeTyped
  <2> QED
    BY <2>1, <2>2, <2>3 DEF TimeTyped
<1> HIDE DEF a
<1>4. /\ DOMAIN b = Names /\ b.year = t.year /\ b.mon = t.mon
      /\ b.minute = a.minute /\ b.second = a.second
      /\ \/ a.hour # t.hour /\ a.hour >= 24 /\ b.hour = 0 /\ b.day = t.day + 1
         \/ ~(a.hour # t.hour /\ a.hour >= 24) /\ b.hour = a.hour /\ b.day = t.day
  <2>1. CASE a.hour # t.hour /\ a.hour >= 24
    <3>1. b = [a EXCEPT !.hour = 0, !.day = a.day + 1]
      BY <2>1 DEF Day
    <3> QED
      BY <1>3, <2>1, <3>1
  <2>2. CASE ~(a.hour # t.hour /\ a.hour >= 24)
    <3>1. b = a
      BY <2>2 DEF Day
    <3> QED
      BY <1>3, <2>2, <3>1
  <2> QED
    BY <2>1, <2>2
<1> HIDE DEF b
<1>5. /\ DOMAIN u = Names /\ u.day = b.day /\ u.hour = b.hour
      /\ u.minute = b.minute /\ u.second = b.second
      /\ \/ u.year = t.year /\ u.mon = t.mon
         \/ b.day # t.day /\ t.mon >= 12 /\ u.mon = 0 /\ u.year = t.year + 1
         \/ b.day # t.day /\ t.mon < 12 /\ u.mon = t.mon + 1 /\ u.year = t.year
  <2>1. u \in {b, [b EXCEPT !.mon = 0, !.year = b.year + 1], [b EXCEPT !.mon = b.mon + 1]}
    BY DEF Month
  <2>2. CASE u = b
    BY <1>4, <2>2
  <2>3. CASE u # b /\ t.mon >= 12
    <3>1. u = [b EXCEPT !.mon = 0, !.year = b.year + 1] /\ b.day # t.day
      BY <1>4, <2>3 DEF Month
    <3> QED
      BY <1>4, <2>3, <3>1
  <2>4. CASE u # b /\ ~(t.mon >= 12)
    <3>1. u = [b EXCEPT !.mon = b.mon + 1] /\ b.day # t.day
      BY <1>4, <2>4 DEF Month
    <3>2. t.mon < 12
      BY <2>4 DEF TimeTyped
    <3> QED
      BY <1>4, <3>1, <3>2
  <2> QED
    BY <2>2, <2>3, <2>4
<1>10. u.mon = t.mon => b.day = t.day \/ b.day <= 31
  <2>0. Length(b) <= 31 /\ Length(b) \in Int
    <3>1. b.mon \in 0..12
      BY <1>4 DEF TimeTyped
    <3>2. b.mon \in {0, 1, 2, 3, 4, 5, 6, 7, 8, 9, 10, 11, 12}
      BY <3>1, SMT
    <3> QED
      BY <3>2, SMT DEF Length, DAYS_OF_THE_MONTH, MonthDays
  <2>1. CASE b.day = t.day \/ b.day < Length(b)
    <3>1. b.day \in Int
      BY <1>4 DEF TimeTyped
    <3> QED
      BY <2>0, <2>1, <3>1
  <2>2. CASE ~(b.day = t.day \/ b.day < Length(b))
    <3>1. u = IF b.mon >= 12 THEN [b EXCEPT !.mon = 0, !.year = b.year + 1] ELSE [b EXCEPT !.mon = b.mon + 1]
      BY <2>2 DEF Month
    <3>2. t.mon \in 0..12 /\ b.mon = t.mon /\ DOMAIN b = Names
      BY <1>4 DEF TimeTyped
    <3> HIDE DEF u
    <3>3. u.mon # t.mon
      <4>1. CASE b.mon >= 12
        <5>1. u = [b EXCEPT !.mon = 0, !.year = b.year + 1]
          BY <3>1, <4>1
        <5>2. u.mon = 0
          BY <3>2, <5>1
        <5> QED
          BY <3>2, <4>1, <5>2
      <4>2. CASE ~(b.mon >= 12)
        <5>1. u = [b EXCEPT !.mon = b.mon + 1]
          BY <3>1, <4>2
        <5>2. u.mon = b.mon + 1
          BY <3>2, <5>1
        <5> QED
          BY <3>2, <5>2
      <4> QED
        BY <4>1, <4>2
    <3> QED
      BY <3>3
  <2> QED
    BY <2>1, <2>2
<1> HIDE DEF u
<1>6. TimeTyped(u)
  BY <1>3, <1>4, <1>5 DEF TimeTyped
<1>7. u.second # 0 => u.year = t.year /\ u.mon = t.mon /\ u.day = t.day
  BY <1>3, <1>4, <1>5
<1>9. u.minute = t.minute => SecondOn(t, u)
  BY <1>3, <1>4, <1>5 DEF SecondOn, TimeTyped
<1>8. u.mon = t.mon /\ ~(t.hour >= 24 /\ u.hour = 0) => LaterInMonth(t, u)
  <2> SUFFICES ASSUME u.mon = t.mon, ~(t.hour >= 24 /\ u.hour = 0) PROVE LaterInMonth(t, u)
    OBVIOUS
  <2>1. u.year = t.year
    BY <1>5 DEF TimeTyped
  <2>2. t.day \in Int /\ t.hour \in Int /\ t.minute \in 0..59 /\ t.second \in 0..59
    BY DEF TimeTyped
  <2>3. \/ u.day = t.day /\ u.hour = a.hour
        \/ u.day = t.day + 1 /\ u.hour = 0 /\ a.hour = 24 /\ t.hour = 23
    BY <1>3, <1>4, <1>5, <2>2
  <2>4. u.day >= t.day /\ HoursOf(u) = t.day * 24 + a.hour
    BY <2>2, <2>3, <1>3 DEF HoursOf
  <2>5. u.minute = a.minute /\ u.second = a.second
    BY <1>4, <1>5
  <2>8. u.day = t.day \/ u.day <= 31
    BY <1>5, <1>10
  <2>9. u.hour = t.hour \/ u.hour = 0 \/ (u.hour = t.hour + 1 /\ u.hour < 24)
    BY <1>3, <1>4, <1>5, <2>2
  <2> DEFINE h == t.day * 24 + t.hour
  <2>6. h \in Int /\ HoursOf(t) = h /\ t.day * 24 + a.hour = h + (a.hour - t.hour)
    BY <1>3, <2>2 DEF HoursOf
  <2> HIDE DEF h
  <2>7. /\ HoursOf(u) >= h
        /\ HoursOf(u) * 60 + a.minute >= h * 60 + t.minute
        /\ (HoursOf(u) * 60 + a.minute) * 60 + a.second = (h * 60 + t.minute) * 60 + t.second + 1
    <3>1. CASE a.hour = t.hour /\ a.minute = t.minute /\ a.second = t.second + 1
      <4>1. HoursOf(u) = h
        BY <2>2, <2>4, <2>6, <3>1
      <4> DEFINE j == h * 60 + t.minute
      <4>2. j \in Int /\ HoursOf(u) * 60 + a.minute = j
        BY <2>2, <2>6, <3>1, <4>1
      <4> HIDE DEF j
      <4>3. j * 60 + a.second = j * 60 + t.second + 1
        BY <2>2, <3>1, <4>2
      <4>4. HoursOf(u) >= h /\ j >= j
        BY <2>6, <4>1, <4>2
      <4> QED
        BY <4>2, <4>3, <4>4 DEF j
    <3>2. CASE /\ a.hour = t.hour /\ a.minute = t.minute + 1
               /\ a.second = 0 /\ t.second = 59
      BY <2>2, <2>4, <2>6, <3>2
    <3>3. CASE /\ a.hour = t.hour + 1 /\ a.minute = 0 /\ t.minute = 59
               /\ a.second = 0 /\ t.second = 59
      BY <2>2, <2>4, <2>6, <3>3
    <3> QED
      BY <1>3, <3>1, <3>2, <3>3
  <2> QED
    BY <2>1, <2>4, <2>5, <2>6, <2>7, <2>8, <2>9 DEF LaterInMonth, MinutesOf, SecondsOf
<1> QED
  BY <1>1, <1>6, <1>7, <1>8, <1>9

\* The hours of the zone do not touch year, month, minute and second.
Ways == {"east", "subtract", "borrow"}
ZoneTyped == tz \in [zone : 0..14, west : BOOLEAN] /\ coming \subseteq Zones

LEMMA LocalTyped ==
    ASSUME NEW t \in Times, Valid(t), ZoneTyped, NEW way \in Ways
    PROVE  /\ TimeTyped(ToLocal(way, t))
           /\ ToLocal(way, t).year = t.year /\ ToLocal(way, t).mon = t.mon /\ t.mon \in 1..12
<1>1. TimeTyped(t) /\ t.mon \in 1..12
  BY TimeIs DEF TimeTyped, Valid
<1>2. ASSUME NEW h \in Int, NEW d \in Int, NEW u, u = [t EXCEPT !.hour = h, !.day = d]
      PROVE  TimeTyped(u) /\ u.year = t.year /\ u.mon = t.mon
  <2>1. DOMAIN t = Names
    BY <1>1 DEF TimeTyped
  <2>2. /\ DOMAIN u = Names /\ u.year = t.year /\ u.mon = t.mon /\ u.day = d
        /\ u.hour = h /\ u.minute = t.minute /\ u.second = t.second
    BY <1>2, <2>1 DEF Names
  <2> QED
    BY <1>1, <2>2 DEF TimeTyped
<1>3. ASSUME NEW h \in Int
      PROVE  LET u == [t EXCEPT !.hour = h]
             IN  TimeTyped(u) /\ u.year = t.year /\ u.mon = t.mon
  BY <1>1 DEF TimeTyped, Names
<1>4. t.hour \in Int /\ t.day \in Int /\ tz.zone \in Int
  BY <1>1 DEF TimeTyped, ZoneTyped
<1>5. CASE way = "east"
  <2>1. ToLocal(way, t) = East(t)
    BY <1>5 DEF ToLocal
  <2>2. CASE t.hour + tz.zone = 24
    <3> DEFINE h == 0
               d == t.day + 1
    <3>1. h \in Int /\ d \in Int /\ ToLocal(way, t) = [t EXCEPT !.hour = h, !.day = d]
      BY <1>4, <2>1, <2>2, SMT DEF East
    <3> HIDE DEF h, d
    <3> QED
      BY <1>1, <1>2, <3>1, ZenonT(30)
  <2>3. CASE t.hour + tz.zone # 24
    <3>1. ToLocal(way, t) = [t EXCEPT !.hour = t.hour + tz.zone] /\ t.hour + tz.zone \in Int
      BY <1>4, <2>1, <2>3, SMT DEF East
    <3> QED
      BY <1>1, <1>3, <3>1
  <2> QED
    BY <2>2, <2>3
<1>6. CASE way = "subtract"
  <2> DEFINE h == (t.hour - tz.zone) % 256
  <2>1. h \in Int
    BY <1>4, SMT
  <2>2. ToLocal(way, t) = [t EXCEPT !.hour = h]
    BY <1>6 DEF ToLocal
  <2> HIDE DEF h
  <2> QED
    BY <1>1, <1>3, <2>1, <2>2
<1>7. CASE way = "borrow"
  <2> DEFINE h == (t.hour + 24 - tz.zone) % 256
             d == t.day - 1
  <2>1. h \in Int /\ d \in Int
    BY <1>4, SMT
  <2>2. ToLocal(way, t) = [t EXCEPT !.hour = h, !.day = d]
    BY <1>7 DEF ToLocal
  <2> HIDE DEF h, d
  <2> QED
    BY <1>1, <1>2, <2>1, <2>2, ZenonT(30)
<1> QED
  BY <1>5, <1>6, <1>7 DEF Ways

-----------------------------------------------------------------------------
(* What lTimeToStamp adds up.  YearsTo and the function in MonthsTo are    *)
(* recursive: an explicit function satisfies each one's equation, so the   *)
(* function chosen does, and by induction it has no other values.          *)
\* Induction over the naturals, with a set in the place of a predicate.
LEMMA NatSetInduction ==
    ASSUME NEW G, 0 \in G, \A n \in Nat : n \in G => n + 1 \in G
    PROVE  Nat \subseteq G
<1> DEFINE T == Nat \ G
           R == OpToRel(<, Nat)
<1> SUFFICES ASSUME T # {} PROVE FALSE
  OBVIOUS
<1>1. IsWellFoundedOn(R, Nat)
  BY NatLessThanWellFounded
<1>2. T \subseteq Nat
  OBVIOUS
<1> HIDE DEF T, R
<1>3. PICK x \in T : \A y \in T : <<y, x>> \notin R
  BY <1>1, <1>2, WFMin
<1>4. x \in Nat /\ x # 0 /\ x \notin G
  BY <1>2 DEF T
<1>5. x - 1 \in Nat /\ x - 1 < x /\ (x - 1) + 1 = x
  BY <1>4, SMT
<1>6. x - 1 \in T
  BY <1>4, <1>5 DEF T
<1>7. <<x - 1, x>> \in R
  BY <1>4, <1>5 DEF R, OpToRel
<1> QED
  BY <1>3, <1>6, <1>7

\* Leap days up to the end of year y, as the code counts them.
Leaps(y) == y \div 4 - y \div 100 + y \div 400 - y \div 3200 + y \div 172800
YearSum(y) == IF y <= 1970 THEN 0 ELSE 365 * (y - 1970) + Leaps(y - 1) - Leaps(1969)

LEMMA LeapsTyped == ASSUME NEW y \in Int PROVE Leaps(y) \in Int
BY SMT DEF Leaps

LEMMA LeapsStep ==
    ASSUME NEW y \in Nat
    PROVE  Leaps(y) = Leaps(y - 1) + DAYS_OF_THE_YEAR(y) - 365
<1> DEFINE Of(n) == IF y % n = 0 THEN 1 ELSE 0
           a == y \div 4       a1 == (y - 1) \div 4       a0 == Of(4)
           b == y \div 100     b1 == (y - 1) \div 100     b0 == Of(100)
           c == y \div 400     c1 == (y - 1) \div 400     c0 == Of(400)
           d == y \div 3200    d1 == (y - 1) \div 3200    d0 == Of(3200)
           e == y \div 172800  e1 == (y - 1) \div 172800  e0 == Of(172800)
<1>1. a = a1 + a0 /\ b = b1 + b0 /\ c = c1 + c0 /\ d = d1 + d0 /\ e = e1 + e0
  BY SMT
<1>2. /\ y % 100 = 0 => y % 4 = 0
      /\ y % 400 = 0 => y % 100 = 0
      /\ y % 3200 = 0 => y % 400 = 0
      /\ y % 172800 = 0 => y % 3200 = 0
  BY SMT
<1>3. DAYS_OF_THE_YEAR(y) = 365 + a0 - b0 + c0 - d0 + e0
  BY <1>2, SMT DEF DAYS_OF_THE_YEAR, YEAR_LEAP
<1>4. Leaps(y) = a - b + c - d + e /\ Leaps(y - 1) = a1 - b1 + c1 - d1 + e1
  BY DEF Leaps
<1>5. /\ a1 \in Int /\ b1 \in Int /\ c1 \in Int /\ d1 \in Int /\ e1 \in Int
      /\ a0 \in Int /\ b0 \in Int /\ c0 \in Int /\ d0 \in Int /\ e0 \in Int
  BY SMT
<1> HIDE DEF a, a1, a0, b, b1, b0, c, c1, c0, d, d1, d0, e, e1, e0
<1> QED
  BY <1>1, <1>3, <1>4, <1>5, SMT

LEMMA YearSumStep ==
    \A y \in Nat : YearSum(y) = IF y <= 1970 THEN 0 ELSE YearSum(y - 1) + DAYS_OF_THE_YEAR(y - 1)
<1> SUFFICES ASSUME NEW y \in Nat, y > 1970
             PROVE  YearSum(y) = YearSum(y - 1) + DAYS_OF_THE_YEAR(y - 1)
  BY SMT DEF YearSum
<1>1. y - 1 \in Nat
  BY SMT
<1>2. Leaps(y - 1) = Leaps(y - 1 - 1) + DAYS_OF_THE_YEAR(y - 1) - 365
  BY <1>1, LeapsStep
<1>3. DAYS_OF_THE_YEAR(y - 1) \in Int /\ Leaps(y - 1 - 1) \in Int /\ Leaps(1969) \in Int
  BY <1>1, LeapsTyped, SMT DEF DAYS_OF_THE_YEAR
<1>4. YearSum(y - 1) = 365 * (y - 1 - 1970) + Leaps(y - 1 - 1) - Leaps(1969)
  <2>1. CASE y = 1971
    BY <1>3, <2>1, SMT DEF YearSum
  <2>2. CASE y > 1971
    BY <2>2, SMT DEF YearSum
  <2> QED
    BY <2>1, <2>2, SMT
<1>5. YearSum(y) = 365 * (y - 1970) + Leaps(y - 1) - Leaps(1969)
  BY SMT DEF YearSum
<1> QED
  BY <1>2, <1>3, <1>4, <1>5, SMT

\* The sum over the years, in closed form.
LEMMA YearsToIs == \A y \in Nat : YearsTo[y] = YearSum(y)
<1> DEFINE g == [y \in Nat |-> YearSum(y)]
           Eq(f) == f = [y \in Nat |-> IF y <= 1970 THEN 0 ELSE f[y - 1] + DAYS_OF_THE_YEAR(y - 1)]
<1>1. Eq(g)
  <2>1. ASSUME NEW y \in Nat
        PROVE  YearSum(y) = IF y <= 1970 THEN 0 ELSE g[y - 1] + DAYS_OF_THE_YEAR(y - 1)
    <3>1. y > 1970 => y - 1 \in Nat
      BY SMT
    <3>2. y > 1970 => g[y - 1] = YearSum(y - 1)
      BY <3>1
    <3> QED
      BY <3>2, YearSumStep, SMT
  <2> QED
    BY <2>1
<1>2. Eq(YearsTo)
  <2>1. YearsTo = CHOOSE f : Eq(f)
    BY Zenon DEF YearsTo
  <2> HIDE DEF g, Eq
  <2> QED
    BY <1>1, <2>1
<1>3. \A y \in Nat : YearsTo[y] = IF y <= 1970 THEN 0 ELSE YearsTo[y - 1] + DAYS_OF_THE_YEAR(y - 1)
  BY <1>2
<1> DEFINE G == {y \in Nat : YearsTo[y] = YearSum(y)}
<1>4. 0 \in G
  BY <1>3, SMT DEF YearSum
<1>5. ASSUME NEW n \in Nat, n \in G PROVE n + 1 \in G
  <2>1. YearsTo[n] = YearSum(n)
    BY <1>5
  <2>2. n + 1 \in Nat /\ (n + 1) - 1 = n
    BY SMT
  <2>3. YearsTo[n + 1] = YearSum(n + 1)
    BY <1>3, <2>1, <2>2, YearSumStep
  <2> QED
    BY <2>2, <2>3
<1> HIDE DEF G
<1>6. Nat \subseteq G
  BY <1>4, <1>5, NatSetInduction
<1> QED
  BY <1>6 DEF G

Common == <<0, 31, 59, 90, 120, 151, 181, 212, 243, 273, 304, 334>>
MonthSum(y, m) ==
    IF m = 0 THEN 0 ELSE IF m <= 2 THEN Common[m] ELSE Common[m] + DAYS_OF_THE_YEAR(y) - 365

LEMMA CommonIs ==
    /\ Common[1] = 0 /\ Common[2] = 31 /\ Common[3] = 59 /\ Common[4] = 90
    /\ Common[5] = 120 /\ Common[6] = 151 /\ Common[7] = 181 /\ Common[8] = 212
    /\ Common[9] = 243 /\ Common[10] = 273 /\ Common[11] = 304 /\ Common[12] = 334
BY DEF Common

LEMMA MonthSumStep ==
    ASSUME NEW y \in Nat
    PROVE  \A m \in 0..12 :
             MonthSum(y, m) = IF m <= 1 THEN 0 ELSE MonthSum(y, m - 1) + DAYS_OF_THE_MONTH(y, m - 1)
<1> DEFINE leap == IF YEAR_LEAP(y) THEN 1 ELSE 0
<1>1. leap \in Int /\ DAYS_OF_THE_YEAR(y) = 365 + leap
  BY SMT DEF DAYS_OF_THE_YEAR
<1>2. /\ DAYS_OF_THE_MONTH(y, 1) = 31 /\ DAYS_OF_THE_MONTH(y, 2) = 28 + leap
      /\ DAYS_OF_THE_MONTH(y, 3) = 31 /\ DAYS_OF_THE_MONTH(y, 4) = 30
      /\ DAYS_OF_THE_MONTH(y, 5) = 31 /\ DAYS_OF_THE_MONTH(y, 6) = 30
      /\ DAYS_OF_THE_MONTH(y, 7) = 31 /\ DAYS_OF_THE_MONTH(y, 8) = 31
      /\ DAYS_OF_THE_MONTH(y, 9) = 30 /\ DAYS_OF_THE_MONTH(y, 10) = 31
      /\ DAYS_OF_THE_MONTH(y, 11) = 30
  <2> HIDE DEF YEAR_LEAP
  <2> QED
    BY SMT DEF DAYS_OF_THE_MONTH, MonthDays
<1> HIDE DEF leap
<1>3. /\ MonthSum(y, 0) = 0 /\ MonthSum(y, 1) = 0 /\ MonthSum(y, 2) = 31
      /\ MonthSum(y, 3) = 59 + leap /\ MonthSum(y, 4) = 90 + leap
      /\ MonthSum(y, 5) = 120 + leap /\ MonthSum(y, 6) = 151 + leap
      /\ MonthSum(y, 7) = 181 + leap /\ MonthSum(y, 8) = 212 + leap
      /\ MonthSum(y, 9) = 243 + leap /\ MonthSum(y, 10) = 273 + leap
      /\ MonthSum(y, 11) = 304 + leap /\ MonthSum(y, 12) = 334 + leap
  BY <1>1, CommonIs, SMT DEF MonthSum
<1>4. \A m \in 0..12 : m \in {0, 1, 2, 3, 4, 5, 6, 7, 8, 9, 10, 11, 12}
  BY SMT
<1>5. SUFFICES ASSUME NEW m \in {2, 3, 4, 5, 6, 7, 8, 9, 10, 11, 12}
               PROVE  MonthSum(y, m) = MonthSum(y, m - 1) + DAYS_OF_THE_MONTH(y, m - 1)
  BY <1>3, <1>4, SMT
<1> QED
  BY <1>1, <1>2, <1>3, SMT

\* The sum over the months of a year, in closed form.
LEMMA MonthsToIs == ASSUME NEW y \in Nat PROVE \A m \in 0..12 : MonthsTo(y, m) = MonthSum(y, m)
<1> DEFINE g == [m \in 0..12 |-> MonthSum(y, m)]
           Eq(f) == f = [m \in 0..12 |-> IF m <= 1 THEN 0 ELSE f[m - 1] + DAYS_OF_THE_MONTH(y, m - 1)]
           upto == CHOOSE f : Eq(f)
<1>1. Eq(g)
  <2>1. ASSUME NEW m \in 0..12
        PROVE  MonthSum(y, m) = IF m <= 1 THEN 0 ELSE g[m - 1] + DAYS_OF_THE_MONTH(y, m - 1)
    <3>1. m > 1 => m - 1 \in 0..12
      BY SMT
    <3>2. m > 1 => g[m - 1] = MonthSum(y, m - 1)
      BY <3>1
    <3> QED
      BY <3>2, MonthSumStep, SMT
  <2> QED
    BY <2>1
<1>2. \A m : MonthsTo(y, m) = upto[m]
  BY DEF MonthsTo
<1>3. Eq(upto)
  <2> HIDE DEF g, Eq
  <2> QED
    BY <1>1
<1>4. \A m \in 0..12 : upto[m] = IF m <= 1 THEN 0 ELSE upto[m - 1] + DAYS_OF_THE_MONTH(y, m - 1)
  <2> HIDE DEF upto
  <2> QED
    BY <1>3
<1> HIDE DEF upto
<1> DEFINE G == {n \in Nat : n <= 12 => upto[n] = MonthSum(y, n)}
<1>5. 0 \in G
  BY <1>4, SMT DEF MonthSum
<1>6. ASSUME NEW n \in Nat, n \in G PROVE n + 1 \in G
  <2>1. n + 1 \in Nat /\ (n + 1) - 1 = n
    BY SMT
  <2> SUFFICES ASSUME n + 1 <= 12 PROVE upto[n + 1] = MonthSum(y, n + 1)
    BY <2>1
  <2>2. n + 1 \in 0..12 /\ n <= 12
    BY SMT
  <2>3. upto[n] = MonthSum(y, n)
    BY <1>6, <2>2
  <2>4. upto[n + 1] = IF n + 1 <= 1 THEN 0 ELSE upto[n] + DAYS_OF_THE_MONTH(y, n)
    BY <1>4, <2>1, <2>2
  <2>5. MonthSum(y, n + 1) = IF n + 1 <= 1 THEN 0 ELSE MonthSum(y, n) + DAYS_OF_THE_MONTH(y, n)
    BY <2>1, <2>2, MonthSumStep
  <2> QED
    BY <2>3, <2>4, <2>5
<1> HIDE DEF G
<1>7. Nat \subseteq G
  BY <1>5, <1>6, NatSetInduction
<1>8. \A m \in 0..12 : m \in Nat /\ m <= 12
  BY SMT
<1> QED
  BY <1>2, <1>7, <1>8 DEF G

LEMMA SumTyped ==
    ASSUME NEW y \in Nat, NEW m \in 0..12
    PROVE  YearSum(y) + MonthSum(y, m) \in Int
<1>1. Leaps(y - 1) \in Int /\ Leaps(1969) \in Int
  BY LeapsTyped, SMT
<1>2. YearSum(y) \in Int
  <2> HIDE DEF Leaps
  <2> QED
    BY <1>1, SMT DEF YearSum
<1>3. DAYS_OF_THE_YEAR(y) \in Int
  BY SMT DEF DAYS_OF_THE_YEAR
<1>4. m = 0 \/ m \in {1, 2, 3, 4, 5, 6, 7, 8, 9, 10, 11, 12}
  BY SMT
<1>5. MonthSum(y, m) \in Int
  BY <1>3, <1>4, CommonIs, SMT DEF MonthSum
<1> QED
  BY <1>2, <1>5, SMT

\* Until the code's leap years leave the calendar, in March of 3200, what lTimeToStamp adds
\* up is the days since 1970.
LEMMA SumIsDays ==
    ASSUME NEW y \in Nat, NEW m \in 1..12, 1970 <= y, y < 3200
    PROVE  YearSum(y) + MonthSum(y, m) = Days(y, m, 1)
<1> DEFINE Cycle(n) == n \div 4 - n \div 100 + n \div 400
           E(n) == (153 * ((n + 9) % 12) + 2) \div 5
<1>1. \A n \in {y - 1, y} : Leaps(n) = Cycle(n) /\ Cycle(n) \in Int
  BY SMT DEF Leaps
<1>2. Leaps(1969) = 477
  BY SMT DEF Leaps
<1>3. YearSum(y) = 365 * (y - 1970) + Cycle(y - 1) - 477
  <2>1. YearSum(y) = 365 * (y - 1970) + Leaps(y - 1) - Leaps(1969)
    <3>1. CASE y = 1970
      BY <1>2, <3>1, SMT DEF YearSum
    <3>2. CASE y > 1970
      BY <3>2, SMT DEF YearSum
    <3> QED
      BY <3>1, <3>2, SMT
  <2> HIDE DEF Cycle
  <2> QED
    BY <1>1, <1>2, <2>1
<1>4. Cycle(y) = Cycle(y - 1) + DAYS_OF_THE_YEAR(y) - 365
  BY <1>1, LeapsStep
<1>5. /\ E(1) = 306 /\ E(2) = 337 /\ E(3) = 0 /\ E(4) = 31 /\ E(5) = 61 /\ E(6) = 92
      /\ E(7) = 122 /\ E(8) = 153 /\ E(9) = 184 /\ E(10) = 214 /\ E(11) = 245 /\ E(12) = 275
  BY SMT
<1>6. m <= 2 => Days(y, m, 1) = 365 * (y - 1) + Cycle(y - 1) + E(m) + 1 - 1 - 719468
  BY SMT DEF Days
<1>7. m > 2 => Days(y, m, 1) = 365 * y + Cycle(y) + E(m) + 1 - 1 - 719468
  BY SMT DEF Days
<1>8. DAYS_OF_THE_YEAR(y) \in Int
  BY SMT DEF DAYS_OF_THE_YEAR
<1> HIDE DEF Cycle, E
<1>9. m \in {1, 2, 3, 4, 5, 6, 7, 8, 9, 10, 11, 12}
  BY SMT
<1>10. CASE m \in {1, 2}
  <2>1. MonthSum(y, m) = E(m) - 306 /\ E(m) \in Int
    BY <1>5, <1>10, CommonIs, SMT DEF MonthSum
  <2> QED
    BY <1>1, <1>3, <1>6, <1>10, <2>1, SMT
<1>11. CASE m \in {3, 4, 5, 6, 7, 8, 9, 10, 11, 12}
  <2>1. MonthSum(y, m) = E(m) + 59 + DAYS_OF_THE_YEAR(y) - 365 /\ E(m) \in Int
    BY <1>5, <1>8, <1>11, CommonIs, SMT DEF MonthSum
  <2> QED
    BY <1>1, <1>3, <1>4, <1>7, <1>8, <1>11, <2>1, SMT
<1> QED
  BY <1>9, <1>10, <1>11

-----------------------------------------------------------------------------
(* The invariant: types, the way the hour is moved by the zone, what the   *)
(* mqtt task has written of a set, that the day of the week was computed   *)
(* for the date, what is due, and what a task has read for a stamp.        *)
TypeInv == TimeTyped(local_time) /\ TimeTyped(rtc_time) /\ at \in 0..7 /\ ZoneTyped

\* The way that the zone calls for, unless it changed on the way.
RightWay ==
    \/ shift = "direction"
    \/ shift = "west" /\ tz.west
    \/ shift = "east" /\ ~tz.west
    \/ shift = "subtract" /\ tz.west /\ rtc_time.hour >= tz.zone
    \/ shift = "borrow" /\ tz.west /\ ~(rtc_time.hour >= tz.zone)
ShiftInv ==
    shift # "none" => at = 0 /\ rtc_time \in Times /\ Valid(rtc_time) /\ (~mixed => RightWay)

\* With no second in between, what was written is what was answered.
Written ==
    at # 0 /\ ~torn => /\ at > 1 => local_time.year = rtc_time.year
                       /\ at > 2 => local_time.mon = rtc_time.mon
                       /\ at > 3 => local_time.day = rtc_time.day
                       /\ at > 4 => local_time.hour = rtc_time.hour
                       /\ at > 5 => local_time.minute = rtc_time.minute
                       /\ at > 6 => local_time.second = rtc_time.second
WeekOfDate == cTimeToWeek(local_time.year, local_time.mon, local_time.day)
WeekKept == due # 0 /\ at = 0 /\ ~torn => week = WeekOfDate
WeekInv == Written /\ WeekKept

\* With seconds in between, what was written is at least what was answered.
AheadInv ==
    at # 0 /\ ~odd =>
        /\ at > 1 => local_time.year = rtc_time.year
        /\ at > 2 => local_time.mon = rtc_time.mon
        /\ at > 3 => local_time.day >= rtc_time.day
        /\ at > 4 => HoursOf(local_time) >= HoursOf(rtc_time)
        /\ at > 5 => MinutesOf(local_time) >= MinutesOf(rtc_time)
        /\ at > 6 => SecondsOf(local_time) >= SecondsOf(rtc_time)

\* A date in the years that have the days of the calendar; and one in the years a stamp has
\* room for, with the days and hours that a zone may make of one.
CalendarDate(u) == TimeTyped(u) /\ u.mon # 0 /\ 1970 <= u.year /\ u.year < 3200
YearFits(y) == 1971 <= y /\ y <= 2105
StampDate(u) ==
    /\ TimeTyped(u) /\ u.mon # 0 /\ YearFits(u.year)
    /\ u.day \in 0..32 /\ u.hour \in 0..38

\* What the clock was set to, or is being set to, is what is due, for answers that a stamp has
\* room for.
InCalendar == \A t \in Times : t.year <= 2105
Source == IF at = 0 THEN local_time ELSE rtc_time
StampInv ==
    InCalendar =>
        /\ due \in Int
        /\ due # 0 /\ ~torn /\ ~odd => StampDate(Source) /\ lTimeToStamp(Source, 8) = due

\* With no carry and no set in between, what was read is what the clock says, but for the
\* seconds since; and so many are due since the read began, at least.
ReadTyped == read \in 0..6 /\ TimeTyped(timeData)
ReadAgrees ==
    read # 0 /\ ~crossed =>
        /\ at = 0 /\ timeData.year = local_time.year
        /\ read > 1 => timeData.mon = local_time.mon
        /\ read > 2 => timeData.day = local_time.day
        /\ read > 3 => timeData.minute = local_time.minute
        /\ read > 4 => timeData.second <= local_time.second
        /\ read > 5 => timeData.hour = local_time.hour
ReadSince ==
    InCalendar =>
        /\ from \in Int
        /\ read # 0 /\ ~crossed /\ due # 0 =>
              /\ from <= due
              /\ read > 4 => from <= due - (local_time.second - timeData.second)
ReadInv == ReadTyped /\ ReadAgrees /\ ReadSince

ClockInv == TypeInv /\ ShiftInv /\ WeekInv /\ AheadInv /\ StampInv /\ ReadInv

\* A day of a month is that many days after its first.
LEMMA DaysOfMonth ==
    ASSUME NEW y \in Int, NEW m \in Int, NEW d \in Int
    PROVE  Days(y, m, 1) \in Int /\ Days(y, m, d) = Days(y, m, 1) + d - 1
<1> DEFINE yy == IF m <= 2 THEN y - 1 ELSE y
           k == (m + 9) % 12
           a == yy \div 4
           b == yy \div 100
           c == yy \div 400
           e == (153 * k + 2) \div 5
<1>1. yy \in Int /\ k \in Int
  BY SMT
<1>2. Days(y, m, 1) = 365 * yy + a - b + c + e + 1 - 1 - 719468
  BY DEF Days
<1>3. Days(y, m, d) = 365 * yy + a - b + c + e + d - 1 - 719468
  BY DEF Days
<1> HIDE DEF yy, k
<1>4. a \in Int /\ b \in Int /\ c \in Int /\ e \in Int
  BY <1>1, SMT
<1> HIDE DEF a, b, c, e
<1> QED
  BY <1>1, <1>2, <1>3, <1>4, SMT

\* The sum is a number, so that a stamp is one of its seconds.
SumOf(u) == YearsTo[u.year] + MonthsTo(u.year, u.mon)

LEMMA StampIs ==
    ASSUME NEW u, TimeTyped(u)
    PROVE  /\ SumOf(u) = YearSum(u.year) + MonthSum(u.year, u.mon) /\ SumOf(u) \in Int
           /\ SecondsOf(u) \in Int
           /\ lTimeToStamp(u, 8) = (SumOf(u) - 1) * 86400 + SecondsOf(u) - 28800
<1>1. u.year \in Nat /\ u.mon \in 0..12
  BY DEF TimeTyped
<1>2. SumOf(u) = YearSum(u.year) + MonthSum(u.year, u.mon)
  BY <1>1, YearsToIs, MonthsToIs DEF SumOf
<1>4. SumOf(u) \in Int
  BY <1>1, <1>2, SumTyped
<1>5. u.day \in Int /\ u.hour \in Int /\ u.minute \in Int /\ u.second \in Int
  BY DEF TimeTyped
<1> DEFINE n == SumOf(u)
<1>6. n \in Int
  BY <1>4
<1>7. lTimeToStamp(u, 8) = (n + u.day - 1) * 86400 + u.hour * 3600 + u.minute * 60 + u.second - 8 * 3600
  BY SMT DEF lTimeToStamp, SumOf
<1> HIDE DEF n
<1>8. lTimeToStamp(u, 8) = (n - 1) * 86400 + SecondsOf(u) - 28800
  BY <1>5, <1>6, <1>7, SMT DEF SecondsOf, MinutesOf, HoursOf
<1>9. SecondsOf(u) \in Int
  BY <1>5, SMT DEF SecondsOf, MinutesOf, HoursOf
<1> QED
  BY <1>2, <1>4, <1>8, <1>9 DEF n

\* A stamp is the seconds since 1970 of the date and time of day in the calendar, eight hours
\* before, for every date until March of 3200; hours, days and minutes past their range count
\* as what they are worth (aiio_lTimeToStamp, which loops over the years and the months).
THEOREM StampOfDate ==
    ASSUME NEW u, CalendarDate(u)
    PROVE  lTimeToStamp(u, 8) = Days(u.year, u.mon, u.day) * 86400
                                  + u.hour * 3600 + u.minute * 60 + u.second - 28800
<1> DEFINE y == u.year    m == u.mon    d == u.day
           h == u.hour    i == u.minute s == u.second
           n == Days(y, m, 1)
<1>1. TimeTyped(u) /\ y \in Nat /\ 1970 <= y /\ y < 3200 /\ m \in 1..12
  BY SMT DEF CalendarDate, TimeTyped
<1>2. d \in Int /\ h \in Int /\ i \in Int /\ s \in Int
  BY <1>1 DEF TimeTyped
<1>3. SumOf(u) = YearSum(y) + MonthSum(y, m) /\ lTimeToStamp(u, 8) = (SumOf(u) - 1) * 86400 + SecondsOf(u) - 28800
  BY <1>1, StampIs
<1>4. SecondsOf(u) = ((d * 24 + h) * 60 + i) * 60 + s
  BY DEF SecondsOf, MinutesOf, HoursOf
<1> HIDE DEF y, m, d, h, i, s
<1>5. SumOf(u) = n
  BY <1>1, <1>3, SumIsDays
<1>6. n \in Int /\ Days(y, m, d) = n + d - 1
  <2>1. y \in Int /\ m \in Int
    BY <1>1
  <2> QED
    BY <1>2, <2>1, DaysOfMonth
<1> HIDE DEF n
<1>7. lTimeToStamp(u, 8) = Days(y, m, d) * 86400 + h * 3600 + i * 60 + s - 28800
  BY <1>2, <1>3, <1>4, <1>5, <1>6, SMT
<1> QED
  BY <1>7 DEF y, m, d, h, i, s

DayFits(n) == 1 <= n /\ n <= 49675

LEMMA DaysBound ==
    ASSUME NEW y \in Int, YearFits(y), NEW m \in 1..12, NEW d \in 0..32
    PROVE  Days(y, m, d) \in Int /\ DayFits(Days(y, m, d))
<1> DEFINE yy == IF m <= 2 THEN y - 1 ELSE y
           cycle == yy \div 4 - yy \div 100 + yy \div 400
           e == (153 * ((m + 9) % 12) + 2) \div 5
<1>1. Days(y, m, d) = 365 * yy + cycle + e + d - 1 - 719468
  BY SMT DEF Days
<1>2. \/ m <= 2 /\ yy = y - 1 /\ e \in 306..337
      \/ m > 2 /\ yy = y /\ e \in 0..275
  <2>1. CASE m <= 2
    BY <2>1, SMT
  <2>2. CASE m > 2
    BY <2>2, SMT
  <2> QED
    BY <2>1, <2>2, SMT
<1>3. yy \in Int /\ 1970 <= yy /\ yy <= 2105
  BY SMT DEF YearFits
<1>4. cycle \in Int /\ 477 <= cycle /\ cycle <= 511
  <2> DEFINE a == yy \div 4  b == yy \div 100  c == yy \div 400
  <2>1. /\ a \in Int /\ b \in Int /\ c \in Int
        /\ 492 <= a /\ a <= 526 /\ 19 <= b /\ b <= 21 /\ 4 <= c /\ c <= 5
    BY <1>3, SMT
  <2>2. (b = 19 => a <= 499) /\ (b >= 20 => a >= 500 /\ c = 5)
    BY <1>3, SMT
  <2> HIDE DEF a, b, c
  <2>3. cycle = a - b + c
    BY DEF a, b, c
  <2> QED
    BY <2>1, <2>2, <2>3, SMT
<1> HIDE DEF yy, cycle, e
<1> QED
  BY <1>1, <1>2, <1>3, <1>4, SMT DEF DayFits, YearFits

\* Before 2106 a stamp fits the 32 bits the code keeps of it, with the days and hours that the
\* zone may add to a date (aiio_lTimeToStamp returns uint32_t).
THEOREM StampFits ==
    ASSUME NEW u, StampDate(u)
    PROVE  0 <= lTimeToStamp(u, 8) /\ lTimeToStamp(u, 8) <= 4294967295
<1> DEFINE y == u.year    m == u.mon    d == u.day
           h == u.hour    i == u.minute s == u.second
           n == Days(y, m, d)
<1>1. /\ y \in Int /\ YearFits(y) /\ m \in 1..12 /\ d \in 0..32
      /\ h \in 0..38 /\ i \in 0..59 /\ s \in 0..59
  BY SMT DEF StampDate, YearFits, TimeTyped
<1>2. lTimeToStamp(u, 8) = n * 86400 + h * 3600 + i * 60 + s - 28800
  <2>1. TimeTyped(u) /\ u.mon # 0
    BY DEF StampDate
  <2>2. 1970 <= y /\ y < 3200
    <3> HIDE DEF y
    <3> QED
      BY <1>1, SMT DEF YearFits
  <2>3. CalendarDate(u)
    BY <2>1, <2>2 DEF CalendarDate
  <2> QED
    BY <2>3, StampOfDate
<1> HIDE DEF y, m, d, h, i, s
<1>3. n \in Int /\ DayFits(n)
  BY <1>1, DaysBound
<1> HIDE DEF n
<1> QED
  BY <1>1, <1>2, <1>3, SMT DEF DayFits

\* The calendar has a 29th of February in 3200 and the code has none.
LEMMA CalendarLeft == YearsTo[3200] + MonthsTo(3200, 3) = Days(3200, 3, 1) - 1
<1>1. 3200 \in Nat /\ 3 \in 0..12
  OBVIOUS
<1>2. YearsTo[3200] = YearSum(3200) /\ MonthsTo(3200, 3) = MonthSum(3200, 3)
  BY <1>1, YearsToIs, MonthsToIs
<1>3. DAYS_OF_THE_YEAR(3200) = 365
  BY SMT DEF DAYS_OF_THE_YEAR, YEAR_LEAP
<1>4. MonthSum(3200, 3) = 59
  BY <1>3, CommonIs, SMT DEF MonthSum
<1>5. Leaps(3199) = 775 /\ Leaps(1969) = 477
  BY SMT DEF Leaps
<1>6. YearSum(3200) = 449248
  BY <1>5, SMT DEF YearSum
<1>7. Days(3200, 3, 1) = 449308
  BY SMT DEF Days
<1> QED
  BY <1>2, <1>4, <1>6, <1>7, SMT

\* What the cloud answers, moved by the zone, is what becomes due.
Right(way, t) ==
    \/ way = "east" /\ ~tz.west
    \/ way = "subtract" /\ tz.west /\ t.hour >= tz.zone
    \/ way = "borrow" /\ tz.west /\ ~(t.hour >= tz.zone)

LEMMA Lower == \A h \in 0..23, z \in 0..14 : h >= z => h - z \in 0..38
OBVIOUS

LEMMA Bytes == \A n \in 0..255 : n % 256 = n
BY SMT

LEMMA AnswerDue ==
    ASSUME InCalendar, NEW t \in Times, Valid(t), ZoneTyped, NEW way \in Ways, Right(way, t)
    PROVE  /\ Utc(t) + Shift \in Int /\ StampDate(ToLocal(way, t))
           /\ lTimeToStamp(ToLocal(way, t), 8) = Utc(t) + Shift
<1> DEFINE u == ToLocal(way, t)
<1>1. /\ TimeTyped(u) /\ u.year = t.year /\ u.mon = t.mon /\ t.mon \in 1..12
  BY LocalTyped
<1>3. /\ t.year \in Int /\ t.day \in Int /\ t.hour \in 0..23 /\ t.minute \in Int /\ t.second \in Int
      /\ t.mon \in Int /\ tz.zone \in 0..14 /\ tz.zone \in Int /\ DOMAIN t = Names
  BY TimeIs DEF ZoneTyped, Valid
<1> DEFINE n == Days(t.year, t.mon, 1)
<1>4. n \in Int /\ Days(t.year, t.mon, t.day) = n + t.day - 1
  BY <1>3, DaysOfMonth
<1> DEFINE z == IF tz.west THEN -tz.zone ELSE tz.zone
<1>5. /\ u.minute = t.minute /\ u.second = t.second
      /\ u.day * 24 + u.hour = t.day * 24 + t.hour + z
      /\ u.day \in {t.day - 1, t.day, t.day + 1} /\ u.hour \in 0..38
  <2>1. CASE way = "subtract" /\ tz.west /\ t.hour >= tz.zone
    <3>0. t.hour - tz.zone \in 0..38
      BY <1>3, <2>1, Lower
    <3>1. (t.hour - tz.zone) % 256 = t.hour - tz.zone
      <4>1. t.hour - tz.zone \in 0..255
        BY <1>3, <2>1
      <4> QED
        BY <4>1, Bytes
    <3>2. u = [t EXCEPT !.hour = t.hour - tz.zone]
      BY <2>1, <3>1 DEF ToLocal
    <3>3. /\ u.minute = t.minute /\ u.second = t.second /\ u.day = t.day
          /\ u.hour = t.hour - tz.zone
      BY <1>3, <3>2 DEF Names
    <3>4. z = -tz.zone /\ z \in Int
      BY <1>3, <2>1
    <3> HIDE DEF u, z
    <3>5. u.hour \in 0..38
      BY <3>0, <3>3
    <3>6. u.day * 24 + u.hour = t.day * 24 + t.hour + z
      <4> DEFINE d == t.day * 24
      <4>1. d \in Int /\ u.day * 24 = d
        BY <1>3, <3>3
      <4> HIDE DEF d
      <4>2. d + u.hour = d + t.hour + z
        BY <1>3, <3>3, <3>4, <4>1
      <4> QED
        BY <4>1, <4>2 DEF d
    <3> QED
      BY <3>3, <3>5, <3>6
  <2>2. CASE way = "borrow" /\ tz.west /\ ~(t.hour >= tz.zone)
    <3>1. (t.hour + 24 - tz.zone) % 256 = t.hour + 24 - tz.zone
      <4>1. t.hour + 24 - tz.zone \in 0..255
        BY <1>3
      <4> QED
        BY <4>1, Bytes
    <3>2. u = [t EXCEPT !.hour = t.hour + 24 - tz.zone, !.day = t.day - 1]
      BY <2>2, <3>1 DEF ToLocal
    <3>3. /\ u.minute = t.minute /\ u.second = t.second /\ u.day = t.day - 1
          /\ u.hour = t.hour + 24 - tz.zone
      BY <1>3, <3>2 DEF Names
    <3> QED
      BY <1>3, <2>2, <3>3
  <2>3. CASE way = "east" /\ ~tz.west /\ t.hour + tz.zone = 24
    <3>1. u = [t EXCEPT !.hour = 0, !.day = t.day + 1]
      BY <2>3 DEF ToLocal, East
    <3>2. /\ u.minute = t.minute /\ u.second = t.second /\ u.day = t.day + 1 /\ u.hour = 0
      BY <1>3, <3>1 DEF Names
    <3> QED
      BY <1>3, <2>3, <3>2
  <2>4. CASE way = "east" /\ ~tz.west /\ t.hour + tz.zone # 24
    <3>1. u = [t EXCEPT !.hour = t.hour + tz.zone]
      BY <2>4 DEF ToLocal, East
    <3>2. /\ u.minute = t.minute /\ u.second = t.second /\ u.day = t.day
          /\ u.hour = t.hour + tz.zone
      BY <1>3, <3>1 DEF Names
    <3>3. z = tz.zone /\ z \in Int
      BY <1>3, <2>4
    <3> HIDE DEF u, z
    <3>4. u.hour \in 0..38
      BY <1>3, <3>2
    <3>5. u.day * 24 + u.hour = t.day * 24 + t.hour + z
      <4> DEFINE d == t.day * 24
      <4>1. d \in Int /\ u.day * 24 = d
        BY <1>3, <3>2
      <4> HIDE DEF d
      <4>2. d + u.hour = d + t.hour + z
        BY <1>3, <3>2, <3>3, <4>1
      <4> QED
        BY <4>1, <4>2 DEF d
    <3> QED
      BY <3>2, <3>4, <3>5
  <2> QED
    BY <2>1, <2>2, <2>3, <2>4 DEF Right
<1>12. StampDate(u)
  <2>1. t.day \in 1..31 /\ YearFits(t.year)
    <3>1. t.mon \in {1, 2, 3, 4, 5, 6, 7, 8, 9, 10, 11, 12}
      BY <1>1, SMT
    <3>2. DAYS_OF_THE_MONTH(t.year, t.mon) <= 31 /\ DAYS_OF_THE_MONTH(t.year, t.mon) \in Int
      BY <3>1, SMT DEF DAYS_OF_THE_MONTH, MonthDays
    <3> QED
      BY <3>2, TimeIs DEF Valid, InCalendar, YearFits
  <2> HIDE DEF u
  <2>2. u.day \in 0..32 /\ u.mon # 0
    BY <1>1, <1>5, <2>1
  <2> QED
    BY <1>1, <1>5, <2>1, <2>2 DEF StampDate
<1>6. z \in Int /\ Shift = (z - 8) * 3600
  BY <1>3, SMT DEF Shift
<1>2. SumOf(u) = n
  <2>1. t.year \in Nat /\ 1970 <= t.year /\ t.year < 3200
    BY <1>3, TimeIs, SMT DEF InCalendar, Valid
  <2>2. SumOf(u) = YearSum(t.year) + MonthSum(t.year, t.mon)
    BY <1>1, StampIs
  <2> QED
    BY <1>1, <2>1, <2>2, SumIsDays
<1>7. lTimeToStamp(u, 8) = (SumOf(u) - 1) * 86400 + SecondsOf(u) - 28800
  BY <1>1, StampIs
<1> HIDE DEF n, u, z
<1>13. t.hour \in Int
  BY <1>3
<1>8. Utc(t) = (n + t.day - 1) * 86400 + t.hour * 3600 + t.minute * 60 + t.second
  BY <1>4, SMT DEF Utc
<1>9. SecondsOf(u) = ((t.day * 24 + t.hour + z) * 60 + t.minute) * 60 + t.second
  BY <1>5 DEF SecondsOf, MinutesOf, HoursOf
<1>10. lTimeToStamp(u, 8) = Utc(t) + Shift
  BY <1>2, <1>3, <1>4, <1>6, <1>7, <1>8, <1>9, <1>13, SMT
<1>11. Utc(t) + Shift \in Int
  BY <1>3, <1>4, <1>6, <1>8, <1>13, SMT
<1> QED
  BY <1>10, <1>11, <1>12 DEF u

LEMMA ClockInit == Init => ClockInv
<1> SUFFICES ASSUME Init PROVE ClockInv
  OBVIOUS
<1>1. /\ TimeTyped(local_time) /\ rtc_time = local_time /\ at = 0 /\ due = 0 /\ ZoneTyped
      /\ shift = "none" /\ read = 0 /\ from = 0
  BY DEF Init, TimeTyped, Names, ZoneTyped
<1>2. TimeTyped(timeData)
  BY NumbersAre DEF Init, NoTime, TimeTyped, Names
<1> QED
  BY <1>1, <1>2 DEF ClockInv, TypeInv, ShiftInv, WeekInv, Written, WeekKept, AheadInv, StampInv,
     ReadInv, ReadTyped, ReadAgrees, ReadSince

\* The task writes one field after the other.
LEMMA FieldWritten ==
    ASSUME TimeTyped(local_time), TimeTyped(rtc_time), at \in 1..6, Write(Fields[at])
    PROVE  /\ TimeTyped(local_time')
           /\ local_time'.year = IF at = 1 THEN rtc_time.year ELSE local_time.year
           /\ local_time'.mon = IF at = 2 THEN rtc_time.mon ELSE local_time.mon
           /\ local_time'.day = IF at = 3 THEN rtc_time.day ELSE local_time.day
           /\ local_time'.hour = IF at = 4 THEN rtc_time.hour ELSE local_time.hour
           /\ local_time'.minute = IF at = 5 THEN rtc_time.minute ELSE local_time.minute
           /\ local_time'.second = IF at = 6 THEN rtc_time.second ELSE local_time.second
<1>1. CASE at = 1
  BY <1>1 DEF Write, Fields, TimeTyped, Names
<1>2. CASE at = 2
  BY <1>2 DEF Write, Fields, TimeTyped, Names
<1>3. CASE at = 3
  BY <1>3 DEF Write, Fields, TimeTyped, Names
<1>4. CASE at = 4
  BY <1>4 DEF Write, Fields, TimeTyped, Names
<1>5. CASE at = 5
  BY <1>5 DEF Write, Fields, TimeTyped, Names
<1>6. CASE at = 6
  BY <1>6 DEF Write, Fields, TimeTyped, Names
<1> QED
  BY <1>1, <1>2, <1>3, <1>4, <1>5, <1>6

\* What was read stands as long as nothing it is compared with changes, or counts no more.
LEMMA ReadStays ==
    ASSUME ReadInv, UNCHANGED <<read, timeData, from>>,
           \/ UNCHANGED <<crossed, at, local_time, due>>
           \/ read' = 0 \/ crossed'
    PROVE  ReadInv'
BY DEF ReadInv, ReadTyped, ReadAgrees, ReadSince, InCalendar

LEMMA SetKeeps == ClockInv /\ SetRtcTime => ClockInv'
<1> SUFFICES ASSUME ClockInv, SetRtcTime PROVE ClockInv'
  OBVIOUS
<1>1. /\ UNCHANGED <<tz, coming, shift, rtc_time, read, timeData, due, from, crossed, torn, mixed, odd>>
      /\ at \in 1..7 /\ TimeTyped(local_time) /\ TimeTyped(rtc_time)
  BY DEF SetRtcTime, timezone, reader, history, ClockInv, TypeInv
<1>4. ShiftInv' /\ ReadInv'
  <2>1. shift = "none" /\ (read = 0 \/ crossed)
    BY <1>1 DEF ClockInv, ShiftInv, ReadInv, ReadAgrees
  <2>2. ShiftInv'
    BY <1>1, <2>1 DEF ShiftInv
  <2>3. ReadInv'
    BY <1>1, <2>1, ReadStays DEF ClockInv
  <2> QED
    BY <2>2, <2>3
<1>2. CASE at \in DOMAIN Fields /\ Write(Fields[at]) /\ at' = at + 1 /\ UNCHANGED week
  <2>1. at \in 1..6
    BY <1>2 DEF Fields
  <2>2. /\ TimeTyped(local_time')
        /\ local_time'.year = IF at = 1 THEN rtc_time.year ELSE local_time.year
        /\ local_time'.mon = IF at = 2 THEN rtc_time.mon ELSE local_time.mon
        /\ local_time'.day = IF at = 3 THEN rtc_time.day ELSE local_time.day
        /\ local_time'.hour = IF at = 4 THEN rtc_time.hour ELSE local_time.hour
        /\ local_time'.minute = IF at = 5 THEN rtc_time.minute ELSE local_time.minute
        /\ local_time'.second = IF at = 6 THEN rtc_time.second ELSE local_time.second
    BY <1>1, <1>2, <2>1, FieldWritten
  <2>3. TypeInv'
    BY <1>1, <1>2, <2>1, <2>2 DEF ClockInv, TypeInv, ZoneTyped
  <2>4. WeekInv'
    BY <1>1, <1>2, <2>1, <2>2 DEF ClockInv, WeekInv, Written, WeekKept
  <2>5. AheadInv'
    <3> SUFFICES ASSUME ~odd'
                 PROVE  /\ at' > 1 => local_time'.year = rtc_time'.year
                        /\ at' > 2 => local_time'.mon = rtc_time'.mon
                        /\ at' > 3 => local_time'.day >= rtc_time'.day
                        /\ at' > 4 => HoursOf(local_time') >= HoursOf(rtc_time')
                        /\ at' > 5 => MinutesOf(local_time') >= MinutesOf(rtc_time')
                        /\ at' > 6 => SecondsOf(local_time') >= SecondsOf(rtc_time')
      BY DEF AheadInv
    <3>1. rtc_time' = rtc_time /\ at' = at + 1 /\ ~odd
      BY <1>1, <1>2
    <3>2. at' > 1 => local_time'.year = rtc_time'.year
      BY <1>1, <2>1, <2>2, <3>1 DEF ClockInv, AheadInv
    <3>3. at' > 2 => local_time'.mon = rtc_time'.mon
      BY <1>1, <2>1, <2>2, <3>1 DEF ClockInv, AheadInv
    <3>4. at' > 3 => local_time'.day >= rtc_time'.day
      BY <1>1, <2>1, <2>2, <3>1 DEF ClockInv, AheadInv, TimeTyped
    <3>5. at' > 4 => HoursOf(local_time') >= HoursOf(rtc_time')
      <4>1. CASE at = 4
        BY <1>1, <2>2, <3>1, <4>1 DEF ClockInv, AheadInv, TimeTyped, HoursOf
      <4>2. CASE at > 4
        <5>1. HoursOf(local_time') = HoursOf(local_time)
          BY <2>1, <2>2, <4>2 DEF HoursOf
        <5> QED
          BY <1>1, <3>1, <4>2, <5>1 DEF ClockInv, AheadInv
      <4> QED
        BY <2>1, <3>1, <4>1, <4>2
    <3>6. at' > 5 => MinutesOf(local_time') >= MinutesOf(rtc_time')
      <4>1. CASE at = 5
        <5>1. local_time'.minute = rtc_time'.minute /\ rtc_time.minute \in 0..59
          BY <1>1, <2>2, <4>1 DEF TimeTyped
        <5>2. HoursOf(local_time') \in Int /\ HoursOf(rtc_time') \in Int
          BY <1>1, <2>2, SumsTyped
        <5> QED
          BY <3>1, <3>5, <4>1, <5>1, <5>2 DEF MinutesOf
      <4>2. CASE at > 5
        <5>1. MinutesOf(local_time') = MinutesOf(local_time)
          BY <2>1, <2>2, <4>2 DEF MinutesOf, HoursOf
        <5> QED
          BY <1>1, <3>1, <4>2, <5>1 DEF ClockInv, AheadInv
      <4> QED
        BY <2>1, <3>1, <4>1, <4>2
    <3>7. at' > 6 => SecondsOf(local_time') >= SecondsOf(rtc_time')
      <4>1. CASE at = 6
        <5>1. local_time'.second = rtc_time'.second /\ rtc_time.second \in 0..59
          BY <1>1, <2>2, <4>1 DEF TimeTyped
        <5>2. MinutesOf(local_time') \in Int /\ MinutesOf(rtc_time') \in Int
          BY <1>1, <2>2, SumsTyped
        <5> QED
          BY <3>1, <3>6, <4>1, <5>1, <5>2 DEF SecondsOf
      <4> QED
        BY <2>1, <3>1, <4>1
    <3> QED
      BY <3>2, <3>3, <3>4, <3>5, <3>6, <3>7
  <2>6. StampInv'
    <3>1. Source' = Source
      BY <1>1, <1>2, <2>1 DEF Source
    <3> QED
      BY <1>1, <3>1 DEF ClockInv, StampInv, InCalendar
  <2> QED
    BY <1>4, <2>3, <2>4, <2>5, <2>6 DEF ClockInv
<1>3. CASE /\ at = Len(Fields) + 1 /\ at' = 0
           /\ week' = cTimeToWeek(rtc_time.year, rtc_time.mon, rtc_time.day)
           /\ UNCHANGED local_time
  <2>1. at = 7
    BY <1>3 DEF Fields
  <2>2. TypeInv'
    BY <1>1, <1>3 DEF ClockInv, TypeInv, ZoneTyped
  <2>3. WeekInv'
    <3>1. ~torn => week' = WeekOfDate
      BY <1>3, <2>1 DEF ClockInv, WeekInv, Written, WeekOfDate
    <3> QED
      BY <1>1, <1>3, <3>1 DEF WeekInv, Written, WeekKept, WeekOfDate
  <2>4. StampInv'
    <3>1. Source = rtc_time /\ Source' = local_time
      BY <1>3, <2>1 DEF Source
    <3>2. InCalendar => due \in Int
      BY DEF ClockInv, StampInv
    <3>3. ASSUME InCalendar, due # 0, ~torn, ~odd
          PROVE  StampDate(local_time) /\ lTimeToStamp(local_time, 8) = due
      <4>1. /\ local_time.year = rtc_time.year /\ local_time.mon = rtc_time.mon
            /\ local_time.day = rtc_time.day /\ local_time.hour = rtc_time.hour
            /\ local_time.minute = rtc_time.minute /\ local_time.second = rtc_time.second
        BY <2>1, <3>3 DEF ClockInv, WeekInv, Written
      <4>2. StampDate(rtc_time) /\ lTimeToStamp(rtc_time, 8) = due
        BY <3>1, <3>3 DEF ClockInv, StampInv
      <4>3. lTimeToStamp(local_time, 8) = lTimeToStamp(rtc_time, 8)
        BY <4>1, SMT DEF lTimeToStamp
      <4>4. StampDate(local_time)
        BY <1>1, <4>1, <4>2 DEF StampDate
      <4> QED
        BY <4>2, <4>3, <4>4
    <3> QED
      BY <1>1, <1>3, <3>1, <3>2, <3>3 DEF StampInv, InCalendar
  <2> QED
    BY <1>3, <1>4, <2>2, <2>3, <2>4 DEF ClockInv, AheadInv
<1> QED
  BY <1>2, <1>3 DEF SetRtcTime

LEMMA OnlineKeeps == ASSUME ClockInv, NEW t \in Times, OnlineUpdate(t) PROVE ClockInv'
<1>1. /\ UNCHANGED <<local_time, week, tz, coming, at, read, timeData, due, from, crossed, torn, odd>>
      /\ shift = "none" /\ at = 0
  BY DEF OnlineUpdate, clock, timezone, reader
<1>2. TypeInv' /\ ShiftInv'
  <2>1. CASE Valid(t)
    <3>1. shift' = "direction" /\ rtc_time' = t
      BY <2>1 DEF OnlineUpdate
    <3>2. TimeTyped(t)
      BY <2>1, TimeIs DEF TimeTyped, Valid
    <3> QED
      BY <1>1, <2>1, <3>1, <3>2 DEF ClockInv, TypeInv, ZoneTyped, ShiftInv, RightWay, Valid
  <2>2. CASE ~Valid(t)
    <3>1. UNCHANGED <<shift, rtc_time, mixed>>
      BY <2>2 DEF OnlineUpdate
    <3> QED
      BY <1>1, <3>1 DEF ClockInv, TypeInv, ZoneTyped, ShiftInv
  <2> QED
    BY <2>1, <2>2
<1>3. WeekInv' /\ AheadInv'
  BY <1>1 DEF ClockInv, WeekInv, Written, WeekKept, WeekOfDate, AheadInv
<1>4. StampInv'
  BY <1>1 DEF ClockInv, StampInv, Source, InCalendar
<1>5. ReadInv'
  BY <1>1, ReadStays DEF ClockInv
<1> QED
  BY <1>2, <1>3, <1>4, <1>5 DEF ClockInv

\* The way is found for the zone there is.
LEMMA WayKeeps == ClockInv /\ FindWay => ClockInv'
<1> SUFFICES ASSUME ClockInv, FindWay PROVE ClockInv'
  OBVIOUS
<1>1. /\ UNCHANGED <<local_time, week, tz, coming, at, rtc_time, read, timeData, due, from, crossed,
                     torn, mixed, odd>>
      /\ shift # "none" /\ tz.west \in BOOLEAN
  BY DEF FindWay, clock, timezone, reader, history, ClockInv, TypeInv, ZoneTyped
<1>2. TypeInv'
  BY <1>1 DEF ClockInv, TypeInv, ZoneTyped
<1>3. RightWay => RightWay'
  BY <1>1 DEF FindWay, RightWay
<1>4. ShiftInv'
  BY <1>1, <1>3 DEF ClockInv, ShiftInv, Valid
<1>5. WeekInv' /\ AheadInv'
  BY <1>1 DEF ClockInv, WeekInv, Written, WeekKept, WeekOfDate, AheadInv
<1>6. StampInv'
  BY <1>1 DEF ClockInv, StampInv, Source, InCalendar
<1>7. ReadInv'
  BY <1>1, ReadStays DEF ClockInv
<1> QED
  BY <1>2, <1>4, <1>5, <1>6, <1>7 DEF ClockInv

\* The hour is moved, the set begins and what is due is known.
LEMMA MoveKeeps == ClockInv /\ MoveByZone => ClockInv'
<1> SUFFICES ASSUME ClockInv, MoveByZone PROVE ClockInv'
  OBVIOUS
<1> DEFINE t == rtc_time
<1>1. /\ UNCHANGED <<local_time, week, tz, coming, read, timeData, from, mixed>>
      /\ shift \in Ways /\ shift' = "none" /\ at = 0 /\ at' = 1
      /\ rtc_time' = ToLocal(shift, t) /\ t \in Times /\ Valid(t)
      /\ ZoneTyped /\ TimeTyped(local_time)
  BY DEF MoveByZone, clock, timezone, reader, Ways, ClockInv, ShiftInv, TypeInv
<1>2. crossed' = (read # 0) /\ due' = IF mixed THEN 0 ELSE Utc(t) + Shift
  BY DEF MoveByZone
<1>3. TimeTyped(rtc_time')
  BY <1>1, LocalTyped
<1>4. TypeInv' /\ ShiftInv'
  BY <1>1, <1>3 DEF TypeInv, ZoneTyped, ShiftInv
<1>5. WeekInv' /\ AheadInv'
  BY <1>1 DEF WeekInv, Written, WeekKept, AheadInv
<1>6. StampInv'
  <2>1. CASE mixed
    BY <1>2, <2>1 DEF StampInv
  <2>2. CASE ~mixed
    <3>1. Right(shift, t)
      BY <1>1, <2>2 DEF ClockInv, ShiftInv, RightWay, Right, Ways
    <3>2. InCalendar => /\ Utc(t) + Shift \in Int /\ StampDate(ToLocal(shift, t))
                        /\ lTimeToStamp(ToLocal(shift, t), 8) = Utc(t) + Shift
      <4> HIDE DEF t
      <4> QED
        BY <1>1, <3>1, AnswerDue
    <3>3. Source' = ToLocal(shift, t)
      BY <1>1 DEF Source
    <3> QED
      BY <1>2, <2>2, <3>2, <3>3 DEF StampInv, InCalendar
  <2> QED
    BY <2>1, <2>2
<1>7. ReadInv'
  <2>1. read' = 0 \/ crossed'
    BY <1>1, <1>2
  <2> QED
    BY <1>1, <2>1, ReadStays DEF ClockInv
<1> QED
  BY <1>4, <1>5, <1>6, <1>7 DEF ClockInv

\* A zone written while an hour is moved leaves the way as it is, and is remembered.
LEMMA HoursKeep == ASSUME ClockInv, NEW z \in Zones, ZoneHours(z) PROVE ClockInv'
<1>1. /\ UNCHANGED <<local_time, week, shift, at, rtc_time, read, timeData, due, from, crossed,
                     torn, odd>>
      /\ tz' = [tz EXCEPT !.zone = z.zone] /\ coming' = {z}
  BY DEF ZoneHours, clock, setter, reader
<1>2. mixed' = (mixed \/ shift # "none")
  BY DEF ZoneHours
<1>3. TypeInv'
  BY <1>1, ZoneAssumption DEF ClockInv, TypeInv, ZoneTyped
<1>4. ShiftInv'
  <2>1. CASE shift = "none"
    BY <1>1, <2>1 DEF ShiftInv
  <2>2. CASE shift # "none"
    <3>1. mixed'
      BY <1>2, <2>2
    <3>2. at' = 0 /\ rtc_time' \in Times
      BY <1>1, <2>2 DEF ClockInv, ShiftInv
    <3>3. Valid(rtc_time)'
      BY <1>1, <2>2 DEF ClockInv, ShiftInv, Valid
    <3> QED
      BY <3>1, <3>2, <3>3 DEF ShiftInv
  <2> QED
    BY <2>1, <2>2
<1>5. WeekInv' /\ AheadInv'
  BY <1>1 DEF ClockInv, WeekInv, Written, WeekKept, WeekOfDate, AheadInv
<1>6. StampInv'
  BY <1>1 DEF ClockInv, StampInv, Source, InCalendar
<1>7. ReadInv'
  BY <1>1, ReadStays DEF ClockInv
<1> QED
  BY <1>3, <1>4, <1>5, <1>6, <1>7 DEF ClockInv

\* The day of the week is computed anew, for the date there is.
LEMMA ZoneKeeps == ASSUME ClockInv, NEW z \in Zones, UpdateZone(z) PROVE ClockInv'
<1>1. /\ UNCHANGED <<local_time, shift, at, rtc_time, read, timeData, due, from, crossed, torn, odd>>
      /\ tz' = z /\ coming' = {} /\ week' = WeekOfDate
  BY DEF UpdateZone, setter, reader, WeekOfDate
<1>2. mixed' = (mixed \/ shift # "none")
  BY DEF UpdateZone
<1>3. TypeInv'
  BY <1>1, ZoneAssumption DEF ClockInv, TypeInv, ZoneTyped
<1>4. ShiftInv'
  <2>1. CASE shift = "none"
    BY <1>1, <2>1 DEF ShiftInv
  <2>2. CASE shift # "none"
    <3>1. mixed'
      BY <1>2, <2>2
    <3>2. at' = 0 /\ rtc_time' \in Times
      BY <1>1, <2>2 DEF ClockInv, ShiftInv
    <3>3. Valid(rtc_time)'
      BY <1>1, <2>2 DEF ClockInv, ShiftInv, Valid
    <3> QED
      BY <3>1, <3>2, <3>3 DEF ShiftInv
  <2> QED
    BY <2>1, <2>2
<1>5. WeekInv' /\ AheadInv'
  BY <1>1 DEF ClockInv, WeekInv, Written, WeekKept, WeekOfDate, AheadInv
<1>6. StampInv'
  BY <1>1 DEF ClockInv, StampInv, Source, InCalendar
<1>7. ReadInv'
  BY <1>1, ReadStays DEF ClockInv
<1> QED
  BY <1>3, <1>4, <1>5, <1>6, <1>7 DEF ClockInv

\* A task reads one field after the other.
LEMMA FieldRead ==
    ASSUME TimeTyped(local_time), TimeTyped(timeData), read \in 0..5,
           timeData' = [timeData EXCEPT ![ReadOrder[read + 1]] = local_time[ReadOrder[read + 1]]]
    PROVE  /\ TimeTyped(timeData')
           /\ timeData'.year = IF read = 0 THEN local_time.year ELSE timeData.year
           /\ timeData'.mon = IF read = 1 THEN local_time.mon ELSE timeData.mon
           /\ timeData'.day = IF read = 2 THEN local_time.day ELSE timeData.day
           /\ timeData'.minute = IF read = 3 THEN local_time.minute ELSE timeData.minute
           /\ timeData'.second = IF read = 4 THEN local_time.second ELSE timeData.second
           /\ timeData'.hour = IF read = 5 THEN local_time.hour ELSE timeData.hour
<1>1. CASE read = 0
  BY <1>1 DEF ReadOrder, TimeTyped, Names
<1>2. CASE read = 1
  BY <1>2 DEF ReadOrder, TimeTyped, Names
<1>3. CASE read = 2
  BY <1>3 DEF ReadOrder, TimeTyped, Names
<1>4. CASE read = 3
  BY <1>4 DEF ReadOrder, TimeTyped, Names
<1>5. CASE read = 4
  BY <1>5 DEF ReadOrder, TimeTyped, Names
<1>6. CASE read = 5
  BY <1>6 DEF ReadOrder, TimeTyped, Names
<1> QED
  BY <1>1, <1>2, <1>3, <1>4, <1>5, <1>6

LEMMA ReadKeeps == ClockInv /\ ReadField => ClockInv'
<1> SUFFICES ASSUME ClockInv, ReadField PROVE ClockInv'
  OBVIOUS
<1>1. /\ UNCHANGED <<local_time, week, tz, coming, shift, at, rtc_time, due, torn, mixed, odd>>
      /\ TimeTyped(local_time) /\ TimeTyped(timeData)
  BY DEF ReadField, clock, timezone, setter, ClockInv, TypeInv, ReadInv, ReadTyped
<1>2. /\ read \in 0..5 /\ read' = read + 1
      /\ timeData' = [timeData EXCEPT ![ReadOrder[read + 1]] = local_time[ReadOrder[read + 1]]]
      /\ from' = IF read = 0 THEN due ELSE from
  BY DEF ReadField, ReadOrder, ClockInv, ReadInv, ReadTyped
<1>3. IF read = 0 THEN crossed' = (at # 0) ELSE crossed' = crossed
  BY DEF ReadField
<1>4. /\ TimeTyped(timeData')
      /\ timeData'.year = IF read = 0 THEN local_time.year ELSE timeData.year
      /\ timeData'.mon = IF read = 1 THEN local_time.mon ELSE timeData.mon
      /\ timeData'.day = IF read = 2 THEN local_time.day ELSE timeData.day
      /\ timeData'.minute = IF read = 3 THEN local_time.minute ELSE timeData.minute
      /\ timeData'.second = IF read = 4 THEN local_time.second ELSE timeData.second
      /\ timeData'.hour = IF read = 5 THEN local_time.hour ELSE timeData.hour
  BY <1>1, <1>2, FieldRead
<1>5. TypeInv' /\ ShiftInv'
  BY <1>1 DEF ClockInv, TypeInv, ZoneTyped, ShiftInv, RightWay, Valid
<1>6. WeekInv' /\ AheadInv'
  BY <1>1 DEF ClockInv, WeekInv, Written, WeekKept, WeekOfDate, AheadInv
<1>7. StampInv'
  BY <1>1 DEF ClockInv, StampInv, Source, InCalendar
<1>8. ReadTyped'
  BY <1>2, <1>4 DEF ReadTyped
<1>9. ~crossed' => at = 0 /\ (read = 0 \/ ~crossed)
  BY <1>3 DEF ClockInv, ReadInv, ReadAgrees
<1>10. local_time.second \in Int /\ timeData.second \in Int /\ timeData'.second \in Int
  BY <1>1, <1>4 DEF TimeTyped
<1>11. ReadAgrees'
  <2> SUFFICES ASSUME ~crossed'
               PROVE  /\ at = 0 /\ timeData'.year = local_time.year
                      /\ read' > 1 => timeData'.mon = local_time.mon
                      /\ read' > 2 => timeData'.day = local_time.day
                      /\ read' > 3 => timeData'.minute = local_time.minute
                      /\ read' > 4 => timeData'.second <= local_time.second
                      /\ read' > 5 => timeData'.hour = local_time.hour
    BY <1>1 DEF ReadAgrees
  <2>1. read # 0 => /\ timeData.year = local_time.year
                    /\ read > 1 => timeData.mon = local_time.mon
                    /\ read > 2 => timeData.day = local_time.day
                    /\ read > 3 => timeData.minute = local_time.minute
                    /\ read > 4 => timeData.second <= local_time.second
                    /\ read > 5 => timeData.hour = local_time.hour
    BY <1>9 DEF ClockInv, ReadInv, ReadAgrees
  <2> QED
    BY <1>2, <1>4, <1>9, <1>10, <2>1
<1>12. ReadSince'
  <2> SUFFICES ASSUME InCalendar
               PROVE  /\ from' \in Int
                      /\ ~crossed' /\ due # 0 =>
                            /\ from' <= due
                            /\ read' > 4 => from' <= due - (local_time.second - timeData'.second)
    BY <1>1 DEF ReadSince, InCalendar
  <2>1. due \in Int /\ from \in Int
    BY DEF ClockInv, StampInv, ReadInv, ReadSince
  <2>2. from' \in Int
    BY <1>2, <2>1
  <2> SUFFICES ASSUME ~crossed', due # 0
               PROVE  /\ from' <= due
                      /\ read' > 4 => from' <= due - (local_time.second - timeData'.second)
    BY <2>2
  <2>3. read # 0 => /\ from <= due
                    /\ read > 4 => from <= due - (local_time.second - timeData.second)
    BY <1>9 DEF ClockInv, ReadInv, ReadSince
  <2>4. from' <= due
    BY <1>2, <2>1, <2>3
  <2>5. read' > 4 => from' <= due - (local_time.second - timeData'.second)
    BY <1>2, <1>4, <1>10, <2>1, <2>3
  <2> QED
    BY <2>4, <2>5
<1> QED
  BY <1>5, <1>6, <1>7, <1>8, <1>11, <1>12 DEF ClockInv, ReadInv

LEMMA TickKeeps == ClockInv /\ Tick => ClockInv'
<1> SUFFICES ASSUME ClockInv, Tick PROVE ClockInv'
  OBVIOUS
<1>1. /\ UNCHANGED <<tz, coming, shift, at, rtc_time, read, timeData>> /\ TimeTyped(local_time)
      /\ week' = IF milliscond' = 0 /\ local_time'.second % 10 = 0 THEN WeekOfDate' ELSE week
  BY DEF Tick, timezone, setter, reader, ClockInv, TypeInv, WeekOfDate
<1>2. CASE milliscond + LoopPeriod < 1000
  <2>1. UNCHANGED <<local_time, due, from, crossed, torn, mixed, odd>>
    BY <1>2 DEF Tick, history
  <2>2. TypeInv' /\ ShiftInv'
    BY <1>1, <2>1 DEF ClockInv, TypeInv, ZoneTyped, ShiftInv, RightWay, Valid
  <2>3. WeekInv' /\ AheadInv'
    BY <1>1, <2>1 DEF ClockInv, WeekInv, Written, WeekKept, WeekOfDate, AheadInv
  <2>4. StampInv'
    BY <1>1, <2>1 DEF ClockInv, StampInv, Source, InCalendar
  <2>5. ReadInv'
    BY <1>1, <2>1, ReadStays DEF ClockInv
  <2> QED
    BY <2>2, <2>3, <2>4, <2>5 DEF ClockInv
<1>3. CASE ~(milliscond + LoopPeriod < 1000)
  <2> DEFINE u == Second(local_time)
  <2>1. /\ milliscond' = 0 /\ local_time' = u
        /\ due' = IF due = 0 THEN 0 ELSE due + 1
        /\ torn' = (torn \/ at # 0)
        /\ odd' = (odd \/ u.mon # local_time.mon \/ (local_time.hour >= 24 /\ u.hour = 0))
        /\ UNCHANGED <<from, mixed>>
    BY <1>3 DEF Tick
  <2>7. crossed' = (read # 0 /\ (crossed \/ u.minute # local_time.minute))
    BY <1>3 DEF Tick
  <2>2. /\ TimeTyped(u)
        /\ u.second # 0 =>
             u.year = local_time.year /\ u.mon = local_time.mon /\ u.day = local_time.day
        /\ u.minute = local_time.minute => SecondOn(local_time, u)
        /\ u.mon = local_time.mon /\ ~(local_time.hour >= 24 /\ u.hour = 0) => LaterInMonth(local_time, u)
    BY <1>1, SecondPasses
  <2> HIDE DEF u
  <2>3. TypeInv' /\ ShiftInv'
    BY <1>1, <2>1, <2>2 DEF ClockInv, TypeInv, ZoneTyped, ShiftInv, RightWay, Valid
  <2>4. WeekInv'
    <3>1. Written'
      BY <1>1, <2>1 DEF Written
    <3>2. ASSUME due' # 0, at' = 0, ~torn' PROVE week' = WeekOfDate'
      <4>1. week = WeekOfDate
        BY <1>1, <2>1, <3>2 DEF ClockInv, WeekInv, WeekKept
      <4>2. CASE u.second % 10 = 0
        BY <1>1, <2>1, <4>2
      <4>3. CASE u.second % 10 # 0
        <5>1. u.second # 0
          BY <4>3
        <5>2. WeekOfDate' = WeekOfDate
          BY <2>1, <2>2, <5>1 DEF WeekOfDate
        <5> QED
          BY <1>1, <2>1, <4>1, <4>3, <5>2
      <4> QED
        BY <4>2, <4>3
    <3> QED
      BY <3>1, <3>2 DEF WeekInv, WeekKept
  <2>5. AheadInv'
    <3> SUFFICES ASSUME at' # 0, ~odd' PROVE
          /\ at' > 1 => local_time'.year = rtc_time'.year
          /\ at' > 2 => local_time'.mon = rtc_time'.mon
          /\ at' > 3 => local_time'.day >= rtc_time'.day
          /\ at' > 4 => HoursOf(local_time') >= HoursOf(rtc_time')
          /\ at' > 5 => MinutesOf(local_time') >= MinutesOf(rtc_time')
          /\ at' > 6 => SecondsOf(local_time') >= SecondsOf(rtc_time')
      BY DEF AheadInv
    <3>1. /\ at # 0 /\ ~odd /\ u.mon = local_time.mon
          /\ LaterInMonth(local_time, u)
      BY <1>1, <2>1, <2>2
    <3>2. /\ TimeTyped(rtc_time) /\ at' = at /\ rtc_time' = rtc_time /\ local_time' = u
      BY <1>1, <2>1 DEF ClockInv, TypeInv
    <3>4. u.day \in Int /\ local_time.day \in Int /\ rtc_time.day \in Int
      BY <1>1, <2>2, <3>2 DEF TimeTyped
    <3>5. /\ HoursOf(u) \in Int /\ MinutesOf(u) \in Int /\ SecondsOf(u) \in Int
          /\ HoursOf(local_time) \in Int /\ MinutesOf(local_time) \in Int
          /\ SecondsOf(local_time) \in Int /\ HoursOf(rtc_time) \in Int
          /\ MinutesOf(rtc_time) \in Int /\ SecondsOf(rtc_time) \in Int
      BY <1>1, <2>2, <3>2, SumsTyped
    <3>6. at' > 1 => local_time'.year = rtc_time'.year
      BY <3>1, <3>2 DEF ClockInv, AheadInv, LaterInMonth
    <3>7. at' > 2 => local_time'.mon = rtc_time'.mon
      BY <3>1, <3>2 DEF ClockInv, AheadInv
    <3>8. at' > 3 => local_time'.day >= rtc_time'.day
      BY <3>1, <3>2, <3>4 DEF ClockInv, AheadInv, LaterInMonth
    <3>9. at' > 4 => HoursOf(local_time') >= HoursOf(rtc_time')
      BY <3>1, <3>2, <3>5 DEF ClockInv, AheadInv, LaterInMonth
    <3>10. at' > 5 => MinutesOf(local_time') >= MinutesOf(rtc_time')
      BY <3>1, <3>2, <3>5 DEF ClockInv, AheadInv, LaterInMonth
    <3>11. at' > 6 => SecondsOf(local_time') >= SecondsOf(rtc_time')
      BY <3>1, <3>2, <3>5 DEF ClockInv, AheadInv, LaterInMonth
    <3> QED
      BY <3>6, <3>7, <3>8, <3>9, <3>10, <3>11
  <2>6. StampInv'
    <3>1. InCalendar => due \in Int /\ due' \in Int
      BY <2>1 DEF ClockInv, StampInv
    <3>2. ASSUME InCalendar, due' # 0, ~torn', ~odd'
          PROVE  at' = 0 /\ StampDate(u) /\ lTimeToStamp(u, 8) = due'
      <4>1. at' = 0 /\ at = 0 /\ ~torn /\ ~odd /\ due # 0 /\ due' = due + 1
        BY <1>1, <2>1, <3>2
      <4>2. LaterInMonth(local_time, u) /\ u.mon = local_time.mon
        BY <2>1, <2>2, <3>2
      <4>3. StampDate(local_time) /\ lTimeToStamp(local_time, 8) = due
        BY <3>2, <4>1 DEF ClockInv, StampInv, Source
      <4>4. StampDate(u)
        <5>1. /\ u.year = local_time.year /\ (u.day = local_time.day \/ u.day <= 31) /\ u.day >= local_time.day
              /\ u.hour = local_time.hour \/ u.hour = 0 \/ (u.hour = local_time.hour + 1 /\ u.hour < 24)
          BY <4>2 DEF LaterInMonth
        <5>2. u.day \in Int /\ local_time.day \in 0..32 /\ local_time.hour \in 0..38 /\ u.hour \in Int
          BY <2>2, <4>3 DEF StampDate, TimeTyped
        <5>3. u.day \in 0..32 /\ u.hour \in 0..38
          BY <5>1, <5>2
        <5> QED
          BY <2>2, <4>2, <4>3, <5>1, <5>3 DEF StampDate
      <4>5. SumOf(u) = SumOf(local_time)
        BY <4>2 DEF SumOf, LaterInMonth
      <4>6. SecondsOf(u) = SecondsOf(local_time) + 1
        BY <4>2 DEF LaterInMonth
      <4>7. lTimeToStamp(u, 8) = due'
        BY <1>1, <2>2, <3>1, <3>2, <4>1, <4>3, <4>5, <4>6, StampIs, SMT
      <4> QED
        BY <4>1, <4>4, <4>7
    <3>3. at' = 0 => Source' = u
      BY <2>1 DEF Source
    <3> QED
      BY <3>1, <3>2, <3>3 DEF StampInv, InCalendar
  <2>8. ReadInv'
    <3>1. CASE read' = 0 \/ crossed'
      BY <1>1, <2>1, <3>1, ReadStays DEF ClockInv
    <3>2. CASE ~(read' = 0 \/ crossed')
      <4>1. read # 0 /\ ~crossed /\ SecondOn(local_time, u)
        BY <1>1, <2>2, <2>7, <3>2
      <4>2. local_time.second \in Int /\ timeData.second \in Int /\ u.second = local_time.second + 1
        BY <1>1, <4>1 DEF ClockInv, ReadInv, ReadTyped, TimeTyped, SecondOn
      <4>3. ReadTyped'
        BY <1>1 DEF ClockInv, ReadInv, ReadTyped
      <4>4. ReadAgrees'
        BY <1>1, <2>1, <4>1, <4>2 DEF ClockInv, ReadInv, ReadAgrees, SecondOn
      <4>5. ReadSince'
        <5> SUFFICES ASSUME InCalendar
                     PROVE  /\ from' \in Int
                            /\ due' # 0 =>
                                  /\ from' <= due'
                                  /\ read' > 4 => from' <= due' - (u.second - timeData.second)
          BY <1>1, <2>1 DEF ReadSince, InCalendar
        <5>1. due \in Int /\ from \in Int /\ from' = from
          BY <2>1 DEF ClockInv, StampInv, ReadInv, ReadSince
        <5>2. due # 0 => /\ from <= due
                         /\ read > 4 => from <= due - (local_time.second - timeData.second)
          BY <4>1 DEF ClockInv, ReadInv, ReadSince
        <5>3. due' # 0 => due # 0 /\ due' = due + 1
          BY <2>1
        <5> QED
          BY <1>1, <4>2, <5>1, <5>2, <5>3
      <4> QED
        BY <4>3, <4>4, <4>5 DEF ReadInv
    <3> QED
      BY <3>1, <3>2
  <2> QED
    BY <2>3, <2>4, <2>5, <2>6, <2>8 DEF ClockInv
<1> QED
  BY <1>2, <1>3

LEMMA ClockStep == ClockInv /\ [Next]_vars => ClockInv'
<1> SUFFICES ASSUME ClockInv, [Next]_vars PROVE ClockInv'
  OBVIOUS
<1>1. CASE UNCHANGED vars
  <2>1. UNCHANGED <<local_time, week, tz, coming, shift, at, rtc_time, read, timeData, due, from,
                    crossed, torn, mixed, odd>>
    BY <1>1 DEF vars, clock, timezone, setter, reader, history
  <2>2. TypeInv' /\ ShiftInv'
    BY <2>1 DEF ClockInv, TypeInv, ZoneTyped, ShiftInv, RightWay, Valid
  <2>3. WeekInv' /\ AheadInv'
    BY <2>1 DEF ClockInv, WeekInv, Written, WeekKept, WeekOfDate, AheadInv
  <2>4. StampInv'
    BY <2>1 DEF ClockInv, StampInv, Source, InCalendar
  <2>5. ReadInv'
    BY <2>1, ReadStays DEF ClockInv
  <2> QED
    BY <2>2, <2>3, <2>4, <2>5 DEF ClockInv
<1> QED
  BY <1>1, TickKeeps, ReadKeeps, OnlineKeeps, WayKeeps, MoveKeeps, SetKeeps, HoursKeep, ZoneKeeps DEF Next

-----------------------------------------------------------------------------
(* The day of the week.  Both formulas count days with the year of         *)
(* February in March; they differ by whole weeks, in every century.        *)
LEMMA WeekIsOfDays ==
    ASSUME NEW year \in Nat, NEW m \in 1..12, NEW d \in Int
    PROVE  cTimeToWeek(year, m, d) = (Days(year, m, d) + 4) % 7
<1> DEFINE y == IF m <= 2 THEN year - 1 ELSE year
           k == (m + 9) % 12
           c == y \div 100
           r == y % 100
           q == c \div 4
           s == r \div 4
           z == q - 2 * c + r + s + (13 * (k + 4)) \div 5 + d - 1
           n == 4 * k - 102782
<1>1. y \in Int /\ k \in 0..11 /\ (IF m <= 2 THEN m + 12 ELSE m) + 1 = k + 4
  BY SMT
<1>2. cTimeToWeek(year, m, d) = z % 7
  BY <1>1, SMT DEF cTimeToWeek
<1>3. Days(year, m, d) + 4
        = 365 * y + y \div 4 - c + y \div 400 + (153 * k + 2) \div 5 + d - 1 - 719464
  BY SMT DEF Days
<1> HIDE DEF y, k
<1>4. c \in Int /\ r \in 0..99 /\ q \in Int /\ s \in Int /\ y = 100 * c + r
  BY <1>1, SMT
<1>5. y \div 4 = 25 * c + s /\ y \div 400 = q
  BY <1>1, <1>4, SMT
<1>6. n \in Int /\ (153 * k + 2) \div 5 - 719464 = (13 * (k + 4)) \div 5 + 7 * n
  <2> DEFINE e == (13 * k + 2) \div 5
  <2>1. e \in Int /\ (153 * k + 2) \div 5 = 28 * k + e /\ (13 * (k + 4)) \div 5 = e + 10
    BY <1>1, SMT
  <2> QED
    BY <1>1, <2>1, SMT
<1>7. z \in Int /\ (13 * (k + 4)) \div 5 \in Int
  BY <1>1, <1>4, SMT
<1>8. Days(year, m, d) + 4 = z + 7 * (5218 * c + 52 * r + n)
  BY <1>1, <1>3, <1>4, <1>5, <1>6, <1>7, SMT
<1> DEFINE weeks == 5218 * c + 52 * r + n
<1>9. weeks \in Int
  BY <1>4, <1>6, SMT
<1> HIDE DEF c, r, q, s, z, n, weeks
<1>10. (z + 7 * weeks) % 7 = z % 7
  BY <1>7, <1>9, SMT
<1> QED
  BY <1>2, <1>8, <1>10, SMT DEF weeks

\* The invariant in every state.
LEMMA ClockAlways == Spec => []ClockInv
<1> QED
  BY ClockInit, ClockStep, PTL DEF Spec

\* Outside a set that no second tore, the day of the week is that of the date, in any
\* year, although only one tick in a hundred computes it and dates change in between.
THEOREM WeekCorrect == Spec => []WeekIsDay
<1>1. ClockInv => WeekIsDay
  <2> SUFFICES ASSUME ClockInv, due # 0, at = 0, ~torn, local_time.mon # 0
               PROVE  week = (Days(local_time.year, local_time.mon, local_time.day) + 4) % 7
    BY DEF WeekIsDay
  <2>1. local_time.year \in Nat /\ local_time.mon \in 1..12 /\ local_time.day \in Int
    BY DEF ClockInv, TypeInv, TimeTyped
  <2>2. week = cTimeToWeek(local_time.year, local_time.mon, local_time.day)
    BY DEF ClockInv, WeekInv, WeekKept, WeekOfDate
  <2> QED
    BY <2>1, <2>2, WeekIsOfDays
<1> QED
  BY <1>1, ClockAlways, PTL

\* What the code keeps of a stamp is the low 32 bits of the number: here all of it.
StampKept ==
    read = Len(ReadOrder) /\ due # 0 /\ ~crossed /\ ~torn /\ ~odd =>
        CurrentTimeStamp % 4294967296 = CurrentTimeStamp

\* A stamp, and the 32 bits that the code keeps of it, lies between the time answered, moved by
\* the zone of the set, and the seconds until the reading began, and the seconds until now: for
\* any zones and any answers before 2106, wherever seconds pass between the six reads, but for a
\* minute carried or a set written between them, and for the sets that StampIsTime leaves out.
THEOREM StampCorrect == ASSUME InCalendar PROVE Spec => [](StampIsTime /\ StampKept)
<1>1. ASSUME InCalendar, ClockInv, read = Len(ReadOrder), due # 0, ~crossed, ~torn, ~odd
      PROVE  /\ from <= CurrentTimeStamp /\ CurrentTimeStamp <= due
             /\ CurrentTimeStamp % 4294967296 = CurrentTimeStamp
  <2>1. read = 6
    BY <1>1 DEF ReadOrder
  <2>2. /\ at = 0 /\ timeData.year = local_time.year /\ timeData.mon = local_time.mon
        /\ timeData.day = local_time.day /\ timeData.hour = local_time.hour
        /\ timeData.minute = local_time.minute /\ timeData.second <= local_time.second
    BY <1>1, <2>1 DEF ClockInv, ReadInv, ReadAgrees
  <2>3. /\ due \in Int /\ from \in Int /\ StampDate(local_time) /\ lTimeToStamp(local_time, 8) = due
        /\ from <= due - (local_time.second - timeData.second)
    BY <1>1, <2>1, <2>2 DEF ClockInv, StampInv, Source, ReadInv, ReadSince
  <2>4. /\ TimeTyped(timeData) /\ TimeTyped(local_time)
        /\ timeData.second \in Int /\ local_time.second \in Int
    <3>1. TimeTyped(timeData) /\ TimeTyped(local_time)
      BY <1>1 DEF ClockInv, TypeInv, ReadInv, ReadTyped
    <3> QED
      BY <3>1 DEF TimeTyped
  <2>5. StampDate(timeData)
    BY <2>2, <2>3, <2>4 DEF StampDate
  <2>6. SumOf(timeData) = SumOf(local_time) /\ MinutesOf(timeData) = MinutesOf(local_time)
    BY <2>2 DEF SumOf, MinutesOf, HoursOf
  <2>7. MinutesOf(local_time) \in Int
    BY <2>4, SumsTyped
  <2>8. SecondsOf(timeData) = SecondsOf(local_time) - (local_time.second - timeData.second)
    BY <2>4, <2>6, <2>7, SMT DEF SecondsOf
  <2>9. CurrentTimeStamp = due - (local_time.second - timeData.second)
    BY <2>3, <2>4, <2>6, <2>8, StampIs, SMT DEF CurrentTimeStamp
  <2>10. 0 <= CurrentTimeStamp /\ CurrentTimeStamp <= 4294967295
    BY <2>5, StampFits DEF CurrentTimeStamp
  <2>11. CurrentTimeStamp \in Int
    BY <2>3, <2>4, <2>9
  <2>12. CurrentTimeStamp % 4294967296 = CurrentTimeStamp
    BY <2>10, <2>11, SMT
  <2> QED
    BY <2>2, <2>3, <2>4, <2>9, <2>12
<1>2. ClockInv => StampIsTime /\ StampKept
  BY <1>1 DEF StampIsTime, StampKept
<1> QED
  BY <1>2, ClockAlways, PTL

\* The write that ends a set leaves the clock at the answer or after it, whichever writes
\* the seconds came between.
THEOREM SetNeverBehindCorrect == Spec => SetNeverBehind
<1>1. ClockInv /\ [Next]_vars
        => [at # 0 /\ at' = 0 /\ ~odd /\ rtc_time.hour < 24 =>
              lTimeToStamp(local_time, 8) >= lTimeToStamp(rtc_time, 8)]_vars
  <2> SUFFICES ASSUME ClockInv, Next, at # 0, at' = 0, ~odd
               PROVE  lTimeToStamp(local_time, 8) >= lTimeToStamp(rtc_time, 8)
    OBVIOUS
  <2>1. SetRtcTime
    BY DEF Next, Tick, ReadField, OnlineUpdate, FindWay, MoveByZone, ZoneHours, UpdateZone, setter
  <2>2. at = 7
    BY <2>1 DEF SetRtcTime, Fields, ClockInv, TypeInv
  <2>3. /\ TimeTyped(local_time) /\ TimeTyped(rtc_time)
        /\ local_time.year = rtc_time.year /\ local_time.mon = rtc_time.mon
        /\ SecondsOf(local_time) >= SecondsOf(rtc_time)
    BY <2>2 DEF ClockInv, TypeInv, AheadInv
  <2>4. SumOf(local_time) = SumOf(rtc_time)
    BY <2>3 DEF SumOf
  <2> QED
    BY <2>3, <2>4, StampIs, SMT
<1> QED
  BY <1>1, ClockAlways, PTL DEF Spec, SetNeverBehind
===============================================================================
