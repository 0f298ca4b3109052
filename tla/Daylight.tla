------------------------------ MODULE Daylight ------------------------------
(***************************************************************************)
(* daylight_saving, of which crond (cron.c) and ntpdate (fntp.c) each have *)
(* a copy: is it summer time in a region, at a given year, day of the year *)
(* (tm_yday, from 0) and hour?  The module walks a calendar through the    *)
(* years the real-time clock can show and compares the closed formulas of  *)
(* the code with the rules they stand for.                                 *)
(***************************************************************************)
EXTENDS Integers

CONSTANTS
    FirstYear, LastYear,    \* SETRTCTIME accepts 2000 to 2037
    Zones                   \* the regions to look at

Regions == {"NEEDNOT", "NA", "EU", "CHILE", "SA", "IRAQ", "AU2", "AU3", "AF", "AU"}

ASSUME YearAssumption ==
    FirstYear \in 2000 .. 2037 /\ LastYear \in FirstYear .. 2037 /\ Zones \subseteq Regions

VARIABLES region, year, yday

vars == <<region, year, yday>>

(* Division and remainder of C round towards zero. *)
CDiv(a, b) == IF a >= 0 THEN a \div b ELSE -((-a) \div b)
CMod(a, b) == a - b * CDiv(a, b)

IsLeap(y) ==
    (y % 4 = 0 /\ y % 100 # 0) \/ (y % 100 = 0 /\ y % 400 = 0)

is_leap_year(y) == IF IsLeap(y) THEN 1 ELSE 0

(* How far the weekdays of year y have moved, counted from year a; leap    *)
(* days are counted from year b.                                           *)
Shift(y, a, b) == CMod(y - a + CDiv(y - b, 4), 7)

(* Mutant of EuStart: the leap day is not counted. *)
EuStartNoLeap(y) == 90 - Shift(y, 2002, 2000)

EuStart(y) == 90 + is_leap_year(y) - Shift(y, 2002, 2000)

startDay(r, y) ==
    CASE r = "NA"    -> CASE y = 2005 -> 92
                          [] y = 2006 -> 91
                          [] OTHER    -> 72 + is_leap_year(y)
                                         - CMod(y - 2002 + CDiv(y - 2004, 4) - 2, 7)
      [] r = "EU"    -> EuStart(y)
      [] r = "AU"    -> 304 - Shift(y, 1999, 1996)
      [] r = "CHILE" -> 287 - Shift(y, 2000, 2000)
      [] r = "SA"    -> 311 - Shift(y, 2004, 2004)
      [] r = "AF"    -> 120 - Shift(y, 2004, 2004)
      [] r = "IRAQ"  -> IF y % 4 # 0 THEN 91 ELSE 92
      [] r \in {"AU2", "AU3"} -> 280 - Shift(y, 2001, 2000)

(* Mutant of NaEnd: the formula is not moved by a day. *)
NaEndUncorrected(y) ==
    309 + is_leap_year(y) - CMod(y - 2002 + CDiv(y - 2004, 4) - 2, 7)

NaEnd(y) ==
    310 + is_leap_year(y) - CMod(y - 2002 + CDiv(y - 2004, 4) - 2, 7)

endDay(r, y) ==
    CASE r = "NA"    -> CASE y = 2005 -> 302
                          [] y = 2006 -> 301
                          [] OTHER    -> NaEnd(y)
      [] r = "EU"    -> 304 + is_leap_year(y) - Shift(y, 1999, 1996)
      [] r = "AU"    -> 90 - Shift(y, 2002, 2000)
      [] r = "CHILE" -> 73 - Shift(y, 1998, 1996)
      [] r = "SA"    -> 52 - Shift(y, 1999, 1996)
      [] r = "AF"    -> 273 - Shift(y, 2004, 2004)
      [] r = "IRAQ"  -> IF y % 4 # 0 THEN 274 ELSE 275
      [] r = "AU2"   -> 90 - Shift(y, 2002, 2000)
      [] r = "AU3"   -> 80 - Shift(y, 1999, 1996)

(* The day the Australian branch compares: 2006 and 2007 are moved. *)
AuDay(r, y, d) ==
    LET e == IF y # 2006 THEN d ELSE IF r = "AU" THEN d + 3 ELSE d + 1
    IN  IF y = 2007 /\ e + 2 > endDay(r, y) THEN e + 1 ELSE e

(* Mutant of AuSummer: the test of the other regions, for a summer that    *)
(* does not span the new year.                                             *)
AuSummerAnd(r, y, d) ==
    AuDay(r, y, d) >= startDay(r, y) /\ AuDay(r, y, d) <= endDay(r, y)

AuSummer(r, y, d) ==
    AuDay(r, y, d) >= startDay(r, y) \/ AuDay(r, y, d) <= endDay(r, y)

daylight_saving(r, y, d, h) ==
    CASE r \in {"AU", "AU2", "AU3"} -> AuSummer(r, y, d)
      [] r \in {"IRAQ", "AF", "SA", "CHILE"} ->
            d >= startDay(r, y) - 1 /\ d <= endDay(r, y) - 1
      [] r = "EU" ->
            /\ d >= startDay(r, y) - 1 /\ d <= endDay(r, y) - 1
            /\ ~(d = startDay(r, y) - 1 /\ h < 1)
            /\ ~(d = endDay(r, y) - 1 /\ h >= 1)
      [] r = "NA" ->
            /\ d >= startDay(r, y) /\ d <= endDay(r, y)
            /\ ~(d = startDay(r, y) /\ h < 2)
            /\ ~(d = endDay(r, y) /\ h >= 2)
      [] r = "NEEDNOT" -> FALSE
----------------------------------------------------------------------------
Init == region \in Zones /\ year = FirstYear /\ yday = 0

NextDay ==
    \/ /\ yday < 364 + is_leap_year(year)
       /\ yday' = yday + 1 /\ UNCHANGED <<region, year>>
    \/ /\ yday = 364 + is_leap_year(year)
       /\ yday' = 0 /\ UNCHANGED region
       /\ year' = IF year < LastYear THEN year + 1 ELSE FirstYear

Spec == Init /\ [][NextDay]_vars
----------------------------------------------------------------------------
(* The calendar the formulas stand for.  1 January 2000 was a Saturday.    *)
Sunday(y, d) == (365 * (y - 2000) + (y - 1997) \div 4 + d) % 7 = 1

(* The first Sunday on or after day d, the last one on or before it. *)
SundayFrom(y, d) == CHOOSE x \in d .. d + 6 : Sunday(y, x)
SundayUpTo(y, d) == CHOOSE x \in d - 6 .. d : Sunday(y, x)

March(y)    == 59 + is_leap_year(y)
November(y) == 304 + is_leap_year(y)

(* Hour h of the day is within the spell from hour b of day s to hour e    *)
(* of day t.                                                               *)
Within(h, s, b, t, e) ==
    24 * s + b <= 24 * yday + h /\ 24 * yday + h < 24 * t + e

(***************************************************************************)
(* From 2007 on summer time in North America lasts from 2:00 on the second *)
(* Sunday of March to 2:00 on the first Sunday of November ("beginning 3   *)
(* weeks earlier in Spring and ending 1 week later in the Fall").  The     *)
(* formulas of daylight_saving, an hour at a time, leap years included.    *)
(***************************************************************************)
NorthAmericaRule ==
    region = "NA" /\ year >= 2007 =>
        \A h \in 0 .. 23 :
            daylight_saving(region, year, yday, h)
                <=> Within(h, SundayFrom(year, March(year)) + 7, 2,
                              SundayFrom(year, November(year)), 2)

(***************************************************************************)
(* Summer time in Europe lasts from 1:00 on the last Sunday of March to    *)
(* 1:00 on the last Sunday of October, from 2002, the year the formulas    *)
(* count from, to the last year the clock can show.                        *)
(***************************************************************************)
EuropeRule ==
    region = "EU" /\ year >= 2002 =>
        \A h \in 0 .. 23 :
            daylight_saving(region, year, yday, h)
                <=> Within(h, SundayUpTo(year, March(year) + 30), 1,
                              SundayUpTo(year, November(year) - 1), 1)

(***************************************************************************)
(* Summer in Australia spans the new year: it ends on the last Sunday of   *)
(* March, or in New Zealand (AU3) on the third one, and begins on the last *)
(* Sunday of October, or in Tasmania (AU2) and New Zealand on the first.   *)
(* The formulas count days without the leap day, and two years are shifted *)
(* by hand; from 2002, the year they count from, they are never off by     *)
(* more than two days.                                                     *)
(***************************************************************************)
AustraliaRule ==
    region \in {"AU", "AU2", "AU3"} /\ year >= 2002 =>
        LET ends   == IF region = "AU3" THEN SundayFrom(year, March(year)) + 14
                      ELSE SundayUpTo(year, March(year) + 30)
            starts == IF region = "AU" THEN SundayUpTo(year, November(year) - 1)
                      ELSE SundayFrom(year, November(year) - 31)
            summer == daylight_saving(region, year, yday, 12)
        IN  /\ yday < ends - 1 \/ yday > starts => summer
            /\ ends + 1 < yday /\ yday < starts - 2 => ~summer

(***************************************************************************)
(* The regions south of the equator that the table of time zones gives a   *)
(* summer time (CHILE_DST, SA_DST, AU_DST...) have it in January.          *)
(***************************************************************************)
SouthernSummer ==
    region \in {"AU", "AU2", "AU3", "SA", "CHILE"} /\ yday <= 30
        => daylight_saving(region, year, yday, 12)
============================================================================
