------------------------------- MODULE Crond -------------------------------
(***************************************************************************)
(* The cron daemon (cron.c): once a minute it looks whether summer time    *)
(* begins or ends and moves the clock, reloads its crontab if that has     *)
(* changed and runs what is due.  A job table is a version number: which   *)
(* jobs it holds does not matter here, only whether it is the right one.   *)
(***************************************************************************)
EXTENDS SystemClock

CONSTANTS
    Versions,       \* versions of the crontab other programs write, above Skeleton
    Late            \* by how many ticks crond may come too late

Skeleton == 0       \* the crontab without jobs that create_file writes
Never == -1

ASSUME CrondAssumption ==
    /\ Versions \subseteq Nat \ {Skeleton}
    /\ Late \in 0 .. (Minute - 1)

VARIABLES
    cs,             \* where crond is: "sleep", "dst" or "run"
    t, dsv,         \* main's t and dsv
    wake,           \* when the sleep ends; crond is due until it sleeps again
    last,           \* the minute check_runs looked at last
    crontab, mtime, \* version and time of the file
    tasklist,       \* version that is loaded
    file_mtime      \* load_file's memory of mtime

table == <<crontab, mtime, tasklist, file_mtime>>
crond == <<cs, t, dsv, wake, last>>

MinuteOf(x) == x \div Minute

(* main up to its loop, at time x: the crontab is written anew. *)
Boot(x) ==
    /\ cs' = "sleep" /\ wake' = now /\ last' = Never
    /\ t' = 0 /\ dsv' = FALSE
    /\ crontab' = Skeleton /\ mtime' = x
    /\ tasklist' = Skeleton /\ file_mtime' = Never
    /\ summer_chg' = IF DaySaving THEN daylight_saving(x) ELSE summer_chg

CrondInit ==
    /\ cs = "sleep" /\ wake = now /\ last = Never
    /\ t = 0 /\ dsv = FALSE
    /\ crontab = Skeleton /\ mtime = wall
    /\ tasklist = Skeleton /\ file_mtime = Never

(* The camera is switched off and on, or crond is started again. *)
Restart == Boot(wall) /\ UNCHANGED <<now, wall>>

(* The head of the loop: the time and the flag are read. *)
Wakes ==
    /\ cs = "sleep" /\ now >= wake
    /\ cs' = "dst" /\ t' = wall /\ dsv' = summer_chg
    /\ UNCHANGED <<clock, wake, last, table>>

(* stime and set_rtc: the clock is moved by d. *)
set_rtc(d) == wall' = wall + d

(* Mutant of Changes: the flag is not written when summer time ends. *)
ChangesForgets ==
    /\ cs = "dst" /\ cs' = "run"
    /\ IF DaySaving /\ daylight_saving(t) # dsv
       THEN IF dsv THEN set_rtc(-Hour) /\ UNCHANGED summer_chg
                   ELSE set_rtc(Hour) /\ summer_chg' = TRUE
       ELSE UNCHANGED <<wall, summer_chg>>
    /\ UNCHANGED <<now, t, dsv, wake, last, table>>

(* Summer time begins or ends: the clock, the real-time clock and the flag *)
(* are set.                                                                *)
Changes ==
    /\ cs = "dst" /\ cs' = "run"
    /\ IF DaySaving /\ daylight_saving(t) # dsv
       THEN IF dsv THEN set_rtc(-Hour) /\ summer_chg' = FALSE
                   ELSE set_rtc(Hour) /\ summer_chg' = TRUE
       ELSE UNCHANGED <<wall, summer_chg>>
    /\ UNCHANGED <<now, t, dsv, wake, last, table>>

(* Mutant of load_file: the old tasks are not purged from the list. *)
load_fileAppends ==
    \/ /\ mtime # file_mtime
       /\ tasklist' = tasklist + crontab /\ file_mtime' = mtime
    \/ UNCHANGED <<tasklist, file_mtime>>

(* load_file: the file is read when its time differs from the time of the  *)
(* last load; one that cannot be opened or checked is left for later.  A   *)
(* version stands for the tasks a file yields, up to a line without end.   *)
load_file ==
    \/ /\ mtime # file_mtime
       /\ tasklist' = crontab /\ file_mtime' = mtime
    \/ UNCHANGED <<tasklist, file_mtime>>

(* Mutant of Delay: the next minute is that of the clock as it is now. *)
DelayFromNow == Minute - (wall % Minute)

(* Mutant of Delay: the seconds of t are not taken off. *)
DelayUnaligned ==
    LET d == t + Minute - wall
    IN  IF d > 0 THEN d ELSE IF d % Minute > 0 THEN d % Minute ELSE Minute

(***************************************************************************)
(* "target = t + 60 - now->tm_sec", then as many minutes more as it takes  *)
(* to lie ahead of time(NULL).  t is the time before the clock was moved.  *)
(***************************************************************************)
Delay ==
    LET d == t + Minute - (t % Minute) - wall
    IN  IF d > 0 THEN d ELSE IF d % Minute > 0 THEN d % Minute ELSE Minute

(* check_runs starts the jobs whose bits are set for the minute of t. *)
check_runs == last' = MinuteOf(t)

(* The rest of the loop: clean up, load, run what is due, sleep. *)
Runs ==
    /\ cs = "run" /\ cs' = "sleep"
    /\ load_file
    /\ check_runs
    /\ wake' = now + Delay
    /\ UNCHANGED <<clock, t, dsv, crontab, mtime>>

(* Another program writes the crontab (SCHDAddSchedule, SCHDDelSchedule). *)
Edit ==
    /\ \E v \in Versions \ {crontab} : crontab' = v
    /\ mtime' = wall
    /\ UNCHANGED <<clock, crond, tasklist, file_mtime>>

(* crond gets the processor in time. *)
OnTime == now < wake + Late
============================================================================
