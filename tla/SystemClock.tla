---------------------------- MODULE SystemClock ----------------------------
(***************************************************************************)
(* The clock of the camera, which crond (cron.c) and ntpdate (fntp.c) both *)
(* set.  The kernel's clock keeps local time, summer time included, and    *)
(* the configuration entry summer_chg says whether crond has moved it.     *)
(* One tick of the model is what a step of a process takes at most; a      *)
(* minute and an hour are so many ticks.                                   *)
(***************************************************************************)
EXTENDS Integers

CONSTANTS
    Minute, Hour,           \* 60 and 3600 seconds, in ticks
    Start, End,             \* when daylight_saving turns 1 and turns 0
    DaySaving,              \* timefmt.d_sav: the user wants summer time
    Horizon                 \* bound: the time the model covers

ASSUME ClockAssumption ==
    /\ Minute \in Nat \ {0} /\ Hour \in Nat \ {0} /\ Hour % Minute = 0
    /\ Start \in Nat /\ Start % Hour = 0 /\ End \in Nat /\ End % Hour = 0
    /\ Start + 2 * Hour <= End
    /\ DaySaving \in BOOLEAN /\ Horizon \in Nat

(* Time 0, when the camera is switched on, is in winter. *)
ASSUME WinterAssumption == Start > 0

VARIABLES
    now,            \* local standard time, what an NTP server and the time zone give
    wall,           \* time(NULL), the same as the real-time clock
    summer_chg      \* MAN_SUMMER_CHANGED

clock == <<now, wall, summer_chg>>

(* daylight_saving for the regions that change by the hour (see Daylight): *)
(* whatever time it is given, it takes for the time on the clock.          *)
daylight_saving(t) == Start <= t /\ t < End

(* What time it legally is: summer time begins at Start, standard time,    *)
(* and ends at End, summer time.                                           *)
LegalOffset == IF DaySaving /\ Start <= now /\ now + Hour < End THEN Hour ELSE 0

Passes == now < Horizon /\ now' = now + 1 /\ wall' = wall + 1 /\ UNCHANGED summer_chg
============================================================================
