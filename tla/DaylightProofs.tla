--------------------------- MODULE DaylightProofs ---------------------------
(***************************************************************************)
(* Proofs about Daylight: the formulas of daylight_saving agree with the   *)
(* calendar up to 2099, the last year before a fourth one that is no leap  *)
(* year.                                                                   *)
(***************************************************************************)
EXTENDS Daylight, TLAPS

(* Up to 2099 every fourth year is a leap year. *)
LEMMA Leap ==
    ASSUME NEW y \in 2000 .. 2099
    PROVE  is_leap_year(y) = IF y % 4 = 0 THEN 1 ELSE 0
<1>1. IsLeap(y) <=> y % 4 = 0
  BY DEF IsLeap
<1> QED
  BY <1>1 DEF is_leap_year

(* Division and remainder of what is not negative. *)
LEMMA Positive ==
    ASSUME NEW a \in Nat
    PROVE  CDiv(a, 4) = a \div 4 /\ CMod(a, 7) = a % 7
  BY DEF CDiv, CMod

(* Of seven days one is a Sunday. *)
LEMMA OneSunday ==
    ASSUME NEW y \in Int, NEW x \in Int, NEW z \in Int, x < z + 7, z < x + 7,
           Sunday(y, x), Sunday(y, z)
    PROVE  x = z
  BY DEF Sunday

(* A Sunday among the seven days from d on is the one SundayFrom means. *)
LEMMA SundayFromIs ==
    ASSUME NEW y \in Int, NEW d \in Int, NEW x \in Int, d <= x, x <= d + 6, Sunday(y, x)
    PROVE  SundayFrom(y, d) = x
<1> DEFINE z == SundayFrom(y, d)
<1>1. z \in d .. d + 6 /\ Sunday(y, z)
  BY DEF SundayFrom
<1> HIDE DEF z
<1>2. x = z
  BY <1>1, OneSunday
<1> QED
  BY <1>2 DEF z

(* A Sunday among the seven days up to d is the one SundayUpTo means. *)
LEMMA SundayUpToIs ==
    ASSUME NEW y \in Int, NEW d \in Int, NEW x \in Int, d - 6 <= x, x <= d, Sunday(y, x)
    PROVE  SundayUpTo(y, d) = x
<1> DEFINE z == SundayUpTo(y, d)
<1>1. z \in d - 6 .. d /\ Sunday(y, z)
  BY DEF SundayUpTo
<1> HIDE DEF z
<1>2. x = z
  BY <1>1, OneSunday
<1> QED
  BY <1>2 DEF z

(* How far the weekdays have moved, for years that the formulas count up. *)
LEMMA ShiftIs ==
    ASSUME NEW a \in 1990 .. 2010, NEW b \in 1990 .. 2010, NEW y \in 2000 .. 2099, y >= a, y >= b
    PROVE  Shift(y, a, b) = (y - a + ((y - b) \div 4)) % 7
<1> DEFINE u == y - a + ((y - b) \div 4)
<1>1. CDiv(y - b, 4) = (y - b) \div 4 /\ u \in Nat
  BY Positive
<1>2. Shift(y, a, b) = CMod(u, 7)
  BY <1>1 DEF Shift
<1> HIDE DEF u
<1>3. CMod(u, 7) = u % 7
  BY <1>1, Positive
<1> QED
  BY <1>2, <1>3 DEF u

(* Whole weeks and a day. *)
LEMMA WeeksAndOne == ASSUME NEW t \in Int PROVE (7 * t + 1) % 7 = 1
  OBVIOUS

(* The last Sunday of March. *)
LEMMA LastOfMarch ==
    ASSUME NEW y \in 2002 .. 2099
    PROVE  /\ 89 + is_leap_year(y) - Shift(y, 2002, 2000) = SundayUpTo(y, March(y) + 30)
           /\ SundayUpTo(y, March(y) + 30) \in 80 .. 95
<1> DEFINE x == 89 + is_leap_year(y) - Shift(y, 2002, 2000)
           d == March(y) + 30
<1>1. Shift(y, 2002, 2000) = (y - 2002 + ((y - 2000) \div 4)) % 7
  BY ShiftIs, SMTT(30)
<1>2. is_leap_year(y) = IF y % 4 = 0 THEN 1 ELSE 0
  BY Leap
<1>3. x \in Int /\ d \in Int /\ d - 6 <= x /\ x <= d /\ x \in 80 .. 95
  BY <1>1, <1>2 DEF March
<1>4. Sunday(y, x)
  <2> DEFINE g == (y - 2002 + ((y - 2000) \div 4)) \div 7
  <2>1. g \in Int /\ y - 2002 + ((y - 2000) \div 4) = 7 * g + Shift(y, 2002, 2000)
    BY <1>1
  <2> HIDE DEF g
  <2>2. ((y - 1997) \div 4) + is_leap_year(y) = ((y - 2000) \div 4) + 1
    BY <1>2
  <2> DEFINE t == 52 * (y - 2000) + g + 13
  <2>3. t \in Int /\ 365 * (y - 2000) + ((y - 1997) \div 4) + x = 7 * t + 1
    BY <1>1, <1>2, <2>1, <2>2
  <2> HIDE DEF t, x
  <2>4. (7 * t + 1) % 7 = 1
    BY <2>3, WeeksAndOne
  <2> QED
    BY <2>3, <2>4 DEF Sunday
<1> HIDE DEF x, d
<1>5. SundayUpTo(y, d) = x
  BY <1>3, <1>4, SundayUpToIs
<1> QED
  BY <1>3, <1>5 DEF x, d

(* The last Sunday of October. *)
LEMMA LastOfOctober ==
    ASSUME NEW y \in 2002 .. 2099
    PROVE  /\ 303 + is_leap_year(y) - Shift(y, 1999, 1996) = SundayUpTo(y, November(y) - 1)
           /\ SundayUpTo(y, November(y) - 1) \in 290 .. 310
<1> DEFINE x == 303 + is_leap_year(y) - Shift(y, 1999, 1996)
           d == November(y) - 1
<1>1. Shift(y, 1999, 1996) = (y - 1999 + ((y - 1996) \div 4)) % 7
  BY ShiftIs, SMTT(30)
<1>2. is_leap_year(y) = IF y % 4 = 0 THEN 1 ELSE 0
  BY Leap
<1>3. x \in Int /\ d \in Int /\ d - 6 <= x /\ x <= d /\ x \in 290 .. 310
  BY <1>1, <1>2 DEF November
<1>4. Sunday(y, x)
  <2> DEFINE g == (y - 1999 + ((y - 1996) \div 4)) \div 7
  <2>1. g \in Int /\ y - 1999 + ((y - 1996) \div 4) = 7 * g + Shift(y, 1999, 1996)
    BY <1>1
  <2> HIDE DEF g
  <2>2. ((y - 1997) \div 4) + is_leap_year(y) = ((y - 1996) \div 4)
    BY <1>2
  <2> DEFINE t == 52 * (y - 2000) + g + 43
  <2>3. t \in Int /\ 365 * (y - 2000) + ((y - 1997) \div 4) + x = 7 * t + 1
    BY <1>1, <1>2, <2>1, <2>2
  <2> HIDE DEF t, x
  <2>4. (7 * t + 1) % 7 = 1
    BY <2>3, WeeksAndOne
  <2> QED
    BY <2>3, <2>4 DEF Sunday
<1> HIDE DEF x, d
<1>5. SundayUpTo(y, d) = x
  BY <1>3, <1>4, SundayUpToIs
<1> QED
  BY <1>3, <1>5 DEF x, d

(* The first Sunday of March. *)
LEMMA FirstOfMarch ==
    ASSUME NEW y \in 2002 .. 2099
    PROVE  /\ 65 + is_leap_year(y) - Shift(y, 1999, 1996) = SundayFrom(y, March(y))
           /\ SundayFrom(y, March(y)) \in 55 .. 70
<1> DEFINE x == 65 + is_leap_year(y) - Shift(y, 1999, 1996)
           d == March(y)
<1>1. Shift(y, 1999, 1996) = (y - 1999 + ((y - 1996) \div 4)) % 7
  BY ShiftIs, SMTT(30)
<1>2. is_leap_year(y) = IF y % 4 = 0 THEN 1 ELSE 0
  BY Leap
<1>3. x \in Int /\ d \in Int /\ d <= x /\ x <= d + 6 /\ x \in 55 .. 70
  BY <1>1, <1>2 DEF March
<1>4. Sunday(y, x)
  <2> DEFINE g == (y - 1999 + ((y - 1996) \div 4)) \div 7
  <2>1. g \in Int /\ y - 1999 + ((y - 1996) \div 4) = 7 * g + Shift(y, 1999, 1996)
    BY <1>1
  <2> HIDE DEF g
  <2>2. ((y - 1997) \div 4) + is_leap_year(y) = ((y - 1996) \div 4)
    BY <1>2
  <2> DEFINE t == 52 * (y - 2000) + g + 9
  <2>3. t \in Int /\ 365 * (y - 2000) + ((y - 1997) \div 4) + x = 7 * t + 1
    BY <1>1, <1>2, <2>1, <2>2
  <2> HIDE DEF t, x
  <2>4. (7 * t + 1) % 7 = 1
    BY <2>3, WeeksAndOne
  <2> QED
    BY <2>3, <2>4 DEF Sunday
<1> HIDE DEF x, d
<1>5. SundayFrom(y, d) = x
  BY <1>3, <1>4, SundayFromIs
<1> QED
  BY <1>3, <1>5 DEF x, d

(* The first Sunday of October. *)
LEMMA FirstOfOctober ==
    ASSUME NEW y \in 2002 .. 2099
    PROVE  /\ 279 + is_leap_year(y) - Shift(y, 2001, 2000) = SundayFrom(y, November(y) - 31)
           /\ SundayFrom(y, November(y) - 31) \in 270 .. 285
<1> DEFINE x == 279 + is_leap_year(y) - Shift(y, 2001, 2000)
           d == November(y) - 31
<1>1. Shift(y, 2001, 2000) = (y - 2001 + ((y - 2000) \div 4)) % 7
  BY ShiftIs, SMTT(30)
<1>2. is_leap_year(y) = IF y % 4 = 0 THEN 1 ELSE 0
  BY Leap
<1>3. x \in Int /\ d \in Int /\ d <= x /\ x <= d + 6 /\ x \in 270 .. 285
  BY <1>1, <1>2 DEF November
<1>4. Sunday(y, x)
  <2> DEFINE g == (y - 2001 + ((y - 2000) \div 4)) \div 7
  <2>1. g \in Int /\ y - 2001 + ((y - 2000) \div 4) = 7 * g + Shift(y, 2001, 2000)
    BY <1>1
  <2> HIDE DEF g
  <2>2. ((y - 1997) \div 4) + is_leap_year(y) = ((y - 2000) \div 4) + 1
    BY <1>2
  <2> DEFINE t == 52 * (y - 2000) + g + 40
  <2>3. t \in Int /\ 365 * (y - 2000) + ((y - 1997) \div 4) + x = 7 * t + 1
    BY <1>1, <1>2, <2>1, <2>2
  <2> HIDE DEF t, x
  <2>4. (7 * t + 1) % 7 = 1
    BY <2>3, WeeksAndOne
  <2> QED
    BY <2>3, <2>4 DEF Sunday
<1> HIDE DEF x, d
<1>5. SundayFrom(y, d) = x
  BY <1>3, <1>4, SundayFromIs
<1> QED
  BY <1>3, <1>5 DEF x, d

(* Summer time in Europe begins and ends on the Sundays of the calendar. *)
LEMMA EuropeFormula ==
    ASSUME NEW y \in 2002 .. 2099
    PROVE  /\ startDay("EU", y) - 1 = SundayUpTo(y, March(y) + 30)
           /\ endDay("EU", y) - 1 = SundayUpTo(y, November(y) - 1)
           /\ startDay("EU", y) \in Int /\ endDay("EU", y) \in Int
<1>1. /\ startDay("EU", y) = EuStart(y)
      /\ endDay("EU", y) = 304 + is_leap_year(y) - Shift(y, 1999, 1996)
  BY DEF startDay, endDay
<1>2. Shift(y, 2002, 2000) \in Int /\ Shift(y, 1999, 1996) \in Int /\ is_leap_year(y) \in Int
  BY ShiftIs, SMTT(30) DEF is_leap_year
<1> QED
  BY <1>1, <1>2, LastOfMarch, LastOfOctober DEF EuStart

(* Summer time in North America begins and ends on the Sundays of the calendar. *)
LEMMA AmericaFormula ==
    ASSUME NEW y \in 2007 .. 2099
    PROVE  /\ startDay("NA", y) = SundayFrom(y, March(y)) + 7
           /\ endDay("NA", y) = SundayFrom(y, November(y))
           /\ startDay("NA", y) \in Int /\ endDay("NA", y) \in Int
<1> DEFINE u == y - 2002 + CDiv(y - 2004, 4) - 2
<1>1. startDay("NA", y) = 72 + is_leap_year(y) - CMod(u, 7) /\ endDay("NA", y) = NaEnd(y)
  BY DEF startDay, endDay
<1>2. is_leap_year(y) = IF y % 4 = 0 THEN 1 ELSE 0
  BY Leap
<1>3. CDiv(y - 2004, 4) = (y - 2004) \div 4
  BY DEF CDiv
<1>4. u = y - 2004 + ((y - 2004) \div 4) /\ u \in Nat
  BY <1>3
<1>5. NaEnd(y) = 310 + is_leap_year(y) - CMod(u, 7)
  BY DEF NaEnd
<1> HIDE DEF u
<1>6. CMod(u, 7) = (y - 2004 + ((y - 2004) \div 4)) % 7
  BY <1>4, Positive
<1>7. /\ startDay("NA", y) - 7 \in March(y) .. March(y) + 6
      /\ Sunday(y, startDay("NA", y) - 7)
  BY <1>1, <1>2, <1>6 DEF March, Sunday
<1>8. endDay("NA", y) \in November(y) .. November(y) + 6 /\ Sunday(y, endDay("NA", y))
  BY <1>1, <1>2, <1>5, <1>6 DEF November, Sunday
<1>9. /\ March(y) \in Int /\ November(y) \in Int
      /\ startDay("NA", y) \in Int /\ endDay("NA", y) \in Int
  BY <1>1, <1>2, <1>5, <1>6 DEF March, November
<1> DEFINE m == March(y)
           n == November(y)
           s == startDay("NA", y) - 7
           e == endDay("NA", y)
<1>10. /\ m \in Int /\ n \in Int /\ s \in m .. m + 6 /\ e \in n .. n + 6
       /\ Sunday(y, s) /\ Sunday(y, e) /\ y \in 2000 .. 2099
  BY <1>7, <1>8, <1>9
<1>11. startDay("NA", y) = s + 7
  BY <1>9
<1> HIDE DEF m, n, s, e
<1>12. SundayFrom(y, m) = s /\ SundayFrom(y, n) = e
  BY <1>10, SundayFromIs
<1> QED
  BY <1>9, <1>11, <1>12 DEF m, n, e

(* Australia, Tasmania and New Zealand: the formulas give the day after the
   Sunday of the calendar, or in a leap year the Sunday. *)
LEMMA AustraliaFormula ==
    ASSUME NEW y \in 2002 .. 2099, NEW r \in {"AU", "AU2", "AU3"}, NEW ends, NEW starts,
           ends = IF r = "AU3" THEN SundayFrom(y, March(y)) + 14
                  ELSE SundayUpTo(y, March(y) + 30),
           starts = IF r = "AU" THEN SundayUpTo(y, November(y) - 1)
                    ELSE SundayFrom(y, November(y) - 31)
    PROVE  /\ startDay(r, y) = starts + 1 - is_leap_year(y)
           /\ endDay(r, y) = ends + 1 - is_leap_year(y)
           /\ starts \in 270 .. 310 /\ ends \in 69 .. 95
           /\ is_leap_year(y) \in 0 .. 1
<1>1. /\ startDay("AU", y) = 304 - Shift(y, 1999, 1996)
      /\ startDay("AU2", y) = 280 - Shift(y, 2001, 2000)
      /\ startDay("AU3", y) = 280 - Shift(y, 2001, 2000)
      /\ endDay("AU", y) = 90 - Shift(y, 2002, 2000)
      /\ endDay("AU2", y) = 90 - Shift(y, 2002, 2000)
      /\ endDay("AU3", y) = 80 - Shift(y, 1999, 1996)
  BY DEF startDay, endDay
<1>2. /\ Shift(y, 2002, 2000) \in Int /\ Shift(y, 1999, 1996) \in Int
      /\ Shift(y, 2001, 2000) \in Int
  BY ShiftIs, SMTT(30)
<1>3. is_leap_year(y) \in 0 .. 1
  BY DEF is_leap_year
<1>4. CASE r = "AU"
  BY <1>1, <1>2, <1>3, <1>4, LastOfMarch, LastOfOctober
<1>5. CASE r = "AU2"
  BY <1>1, <1>2, <1>3, <1>5, LastOfMarch, FirstOfOctober
<1>6. CASE r = "AU3"
  BY <1>1, <1>2, <1>3, <1>6, FirstOfMarch, FirstOfOctober
<1> QED
  BY <1>4, <1>5, <1>6
-----------------------------------------------------------------------------
(* Days and years stay within the calendar. *)
CalendarOK == region \in Zones /\ year \in FirstYear .. LastYear /\ yday \in 0 .. 365

(* The calendar walks through days and years that there are. *)
LEMMA CalendarInvariant == Spec => []CalendarOK
<1>1. Init => CalendarOK
  BY YearAssumption DEF Init, CalendarOK
<1>2. CalendarOK /\ [NextDay]_vars => CalendarOK'
  <2> SUFFICES ASSUME CalendarOK, [NextDay]_vars PROVE CalendarOK'
    OBVIOUS
  <2>1. is_leap_year(year) \in 0 .. 1
    BY DEF is_leap_year
  <2> QED
    BY <2>1, YearAssumption DEF CalendarOK, NextDay, vars
<1> QED
  BY <1>1, <1>2, PTL DEF Spec

(* From 2007 on, in every year the clock can show and at every hour, the formula
   for North America is the second Sunday of March to the first of November. *)
THEOREM AmericaHolds == Spec => []NorthAmericaRule
<1>1. CalendarOK => NorthAmericaRule
  <2> SUFFICES ASSUME CalendarOK, region = "NA", year >= 2007, NEW h \in 0 .. 23
               PROVE  daylight_saving(region, year, yday, h)
                        <=> Within(h, SundayFrom(year, March(year)) + 7, 2,
                                      SundayFrom(year, November(year)), 2)
    BY DEF NorthAmericaRule
  <2>1. year \in 2007 .. 2099 /\ yday \in 0 .. 365
    BY YearAssumption DEF CalendarOK
  <2> DEFINE s == startDay("NA", year)
             e == endDay("NA", year)
  <2>2. /\ s = SundayFrom(year, March(year)) + 7 /\ e = SundayFrom(year, November(year))
        /\ s \in Int /\ e \in Int
    BY <2>1, AmericaFormula
  <2>3. daylight_saving(region, year, yday, h)
          <=> /\ yday >= s /\ yday <= e
              /\ ~(yday = s /\ h < 2) /\ ~(yday = e /\ h >= 2)
    BY DEF daylight_saving
  <2> HIDE DEF s, e
  <2>4. (/\ yday >= s /\ yday <= e /\ ~(yday = s /\ h < 2) /\ ~(yday = e /\ h >= 2))
          <=> Within(h, s, 2, e, 2)
    BY <2>1, <2>2 DEF Within
  <2> QED
    BY <2>2, <2>3, <2>4
<1> QED
  BY CalendarInvariant, <1>1, PTL

(* The formula for Europe is the last Sunday of March to the last of October. *)
THEOREM EuropeHolds == Spec => []EuropeRule
<1>1. CalendarOK => EuropeRule
  <2> SUFFICES ASSUME CalendarOK, region = "EU", year >= 2002, NEW h \in 0 .. 23
               PROVE  daylight_saving(region, year, yday, h)
                        <=> Within(h, SundayUpTo(year, March(year) + 30), 1,
                                      SundayUpTo(year, November(year) - 1), 1)
    BY DEF EuropeRule
  <2>1. year \in 2002 .. 2099 /\ yday \in 0 .. 365
    BY YearAssumption DEF CalendarOK
  <2> DEFINE s == startDay("EU", year)
             e == endDay("EU", year)
  <2>2. /\ s - 1 = SundayUpTo(year, March(year) + 30)
        /\ e - 1 = SundayUpTo(year, November(year) - 1) /\ s \in Int /\ e \in Int
    BY <2>1, EuropeFormula
  <2>3. daylight_saving(region, year, yday, h)
          <=> /\ yday >= s - 1 /\ yday <= e - 1
              /\ ~(yday = s - 1 /\ h < 1) /\ ~(yday = e - 1 /\ h >= 1)
    BY DEF daylight_saving
  <2> HIDE DEF s, e
  <2>4. (/\ yday >= s - 1 /\ yday <= e - 1
         /\ ~(yday = s - 1 /\ h < 1) /\ ~(yday = e - 1 /\ h >= 1))
          <=> Within(h, s - 1, 1, e - 1, 1)
    BY <2>1, <2>2 DEF Within
  <2> QED
    BY <2>2, <2>3, <2>4
<1> QED
  BY CalendarInvariant, <1>1, PTL

(* The formulas for Australia, Tasmania and New Zealand are within two days of
   the Sundays of the calendar, the two years that are shifted included. *)
THEOREM AustraliaHolds == Spec => []AustraliaRule
<1>1. CalendarOK => AustraliaRule
  <2> SUFFICES ASSUME CalendarOK, region \in {"AU", "AU2", "AU3"}, year >= 2002,
                      NEW ends, NEW starts,
                      ends = IF region = "AU3" THEN SundayFrom(year, March(year)) + 14
                             ELSE SundayUpTo(year, March(year) + 30),
                      starts = IF region = "AU" THEN SundayUpTo(year, November(year) - 1)
                               ELSE SundayFrom(year, November(year) - 31)
               PROVE  LET summer == daylight_saving(region, year, yday, 12)
                      IN  /\ yday < ends - 1 \/ yday > starts => summer
                          /\ ends + 1 < yday /\ yday < starts - 2 => ~summer
    BY DEF AustraliaRule
  <2>1. year \in 2002 .. 2099 /\ yday \in 0 .. 365
    BY YearAssumption DEF CalendarOK
  <2> DEFINE s == startDay(region, year)
             e == endDay(region, year)
             d == AuDay(region, year, yday)
             leap == is_leap_year(year)
  <2>2. s = starts + 1 - leap /\ e = ends + 1 - leap /\ leap \in 0 .. 1
    BY <2>1, AustraliaFormula
  <2>3. starts \in 270 .. 310 /\ ends \in 69 .. 95
    BY <2>1, AustraliaFormula
  <2>4. daylight_saving(region, year, yday, 12) <=> d >= s \/ d <= e
    <3>1. daylight_saving(region, year, yday, 12) <=> AuSummer(region, year, yday)
      <4>1. CASE region = "AU"
        BY <4>1 DEF daylight_saving
      <4>2. CASE region = "AU2"
        BY <4>2 DEF daylight_saving
      <4>3. CASE region = "AU3"
        BY <4>3 DEF daylight_saving
      <4> QED
        BY <4>1, <4>2, <4>3
    <3> QED
      BY <3>1 DEF AuSummer
  <2>5. d \in yday .. yday + 3 /\ (d # yday => year \in {2006, 2007})
        /\ (year = 2007 => d = IF yday + 2 > e THEN yday + 1 ELSE yday)
    BY <2>1 DEF AuDay
  <2>6. year \in {2006, 2007} => leap = 0
    BY <2>1, Leap
  <2> HIDE DEF s, e, d, leap
  <2>7. yday < ends - 1 \/ yday > starts => d >= s \/ d <= e
    BY <2>1, <2>2, <2>3, <2>5, <2>6
  <2>8. ends + 1 < yday /\ yday < starts - 2 => ~(d >= s \/ d <= e)
    BY <2>1, <2>2, <2>3, <2>5, <2>6
  <2> QED
    BY <2>4, <2>7, <2>8
<1> QED
  BY CalendarInvariant, <1>1, PTL
=============================================================================
