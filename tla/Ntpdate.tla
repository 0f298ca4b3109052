------------------------------ MODULE Ntpdate ------------------------------
(***************************************************************************)
(* ntpdate (ntpdate.c, fntp.c): once a day it asks a server for the time   *)
(* and sets the clock, with up to three tries.  Query and answer take any  *)
(* time on their way, are lost or arrive more than once, and an answer may *)
(* come after its try was given up; other processes run between the steps. *)
(* Times are local standard time: the time zone that the code subtracts    *)
(* and adds again is left out.                                             *)
(***************************************************************************)
EXTENDS SystemClock

CONSTANTS
    Gross,              \* beyond this offset the server's time is taken as it is
    CheckTime,          \* from one call of NTP_update to the next, in ticks
    Wait,               \* timeOut, how long select waits for an answer
    Retry               \* retryTime, the sleep after a try that failed

Tries == 3

ASSUME NtpAssumption ==
    /\ Gross \in Nat /\ CheckTime \in Nat \ {0}
    /\ Wait \in Nat \ {0} /\ Retry \in Nat \ {0}

VARIABLES
    ns,                 \* where NTP_update is: "idle", "wait" or "set"
    i,                  \* tries that have failed
    due,                \* when the next query is due, or select gives up
    t1,                 \* the clock when the query was sent
    t3,                 \* the server's time in the answer
    td,                 \* local offset, half of (t2 - t1) + (t3 - t4)
    asked,              \* queries on their way: their originate timestamps
    air                 \* answers on their way: originate timestamp and t3

ntp == <<ns, i, due, t1, t3, td, asked, air>>

(* ntpdate is started at any time from the camera's start on. *)
NtpInit(starts) ==
    /\ ns = "idle" /\ i = 0 /\ due \in starts
    /\ t1 = 0 /\ t3 = 0 /\ td = 0 /\ asked = {} /\ air = {}

(* The quotient of C: rounded towards zero. *)
Halved(x) == IF x >= 0 THEN x \div 2 ELSE -((-x) \div 2)

send_query ==
    /\ ns = "idle" /\ now >= due
    /\ ns' = "wait" /\ t1' = wall /\ due' = now + Wait
    /\ asked' = asked \cup {wall}
    /\ UNCHANGED <<clock, i, t3, td, air>>

(* A query reaches the server, which answers at once: t2 and t3 are now. *)
Answers ==
    \E o \in asked :
        /\ asked' = asked \ {o} /\ air' = air \cup {[orig |-> o, t3 |-> now]}
        /\ UNCHANGED <<clock, ns, i, due, t1, t3, td>>

(* Mutant of get_response: the originate timestamp is not compared. *)
get_responseAny ==
    /\ ns = "wait" /\ ns' = "set"
    /\ \E a \in air :
           /\ t3' = a.t3 /\ td' = Halved((a.t3 - t1) + (a.t3 - wall))
    /\ UNCHANGED <<clock, i, due, t1, asked, air>>

(* A good response, with the originate timestamp of the query; t4 is wall. *)
(* The packet stays in the air: it may come twice.                         *)
get_response ==
    /\ ns = "wait" /\ ns' = "set"
    /\ \E a \in air :
           /\ a.orig = t1
           /\ t3' = a.t3 /\ td' = Halved((a.t3 - t1) + (a.t3 - wall))
    /\ UNCHANGED <<clock, i, due, t1, asked, air>>

(* NTP_update closes its socket and returns; main calls it again later. *)
Done(pause) == i' = 0 /\ due' = now + pause /\ asked' = {} /\ air' = {}

(* Timeout, a bad packet or a foreign one: sleep and try again. *)
NoResponse ==
    /\ ns = "wait" /\ ns' = "idle"
    /\ \/ i + 1 < Tries /\ i' = i + 1 /\ due' = now + Retry /\ UNCHANGED <<asked, air>>
       \/ i + 1 = Tries /\ Done(Retry + CheckTime)
    /\ UNCHANGED <<clock, t1, t3, td>>

(* No address, or no socket: NTP_update returns without a query. *)
NoSocket ==
    /\ ns = "idle" /\ i = 0 /\ now >= due
    /\ Done(CheckTime)
    /\ UNCHANGED <<clock, ns, t1, t3, td>>

(* Summer time is added to a time without it. *)
WithSummer(x) == IF DaySaving /\ daylight_saving(x) THEN x + Hour ELSE x

(* settimeofday and SETRTCTIME; summer_chg is left alone. *)
SETRTCTIME(x) == wall' = x /\ UNCHANGED summer_chg

(* The gross adjustment takes t3, the fine one the clock plus the offset.  *)
SetTime ==
    /\ ns = "set" /\ ns' = "idle" /\ Done(CheckTime)
    /\ SETRTCTIME(WithSummer(IF td > Gross \/ td < -Gross THEN t3 ELSE wall + td))
    /\ UNCHANGED <<now, t1, t3, td>>
============================================================================
