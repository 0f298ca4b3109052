---------------------------- MODULE TimeKeeping ----------------------------
(***************************************************************************)
(* crond and ntpdate on the clock they share.                              *)
(***************************************************************************)
EXTENDS Crond, Ntpdate

CONSTANTS
    Events,         \* what happens besides: "restart", "edit", "ntp"
    Errors          \* how far the clock is off at first

ASSUME EventAssumption ==
    Events \subseteq {"restart", "edit", "ntp"} /\ Errors \subseteq Int

VARIABLES
    sent,           \* history: when the query of this try was sent
    moved           \* history: how far crond moved the clock since the first query

exchange == <<sent, moved>>
vars == <<clock, crond, table, ntp, exchange>>

(* The camera is switched on in winter; its clock may be wrong.  crond,    *)
(* when it starts, takes the flag from the clock.                          *)
Init ==
    /\ now = 0 /\ wall \in Errors
    /\ summer_chg = (DaySaving /\ daylight_saving(wall))
    /\ CrondInit /\ NtpInit(IF "ntp" \in Events THEN 0 .. Horizon ELSE {0})
    /\ sent = 0 /\ moved = 0

Distance(x, y) == IF x >= y THEN x - y ELSE y - x

CrondStep ==
    /\ Wakes \/ Changes \/ Runs
    /\ moved' = moved + Distance(wall', wall)
    /\ UNCHANGED <<ntp, sent>>

(* A try begins; the first one of a call starts the count of moved. *)
Queries ==
    /\ send_query
    /\ sent' = now /\ moved' = IF i = 0 THEN 0 ELSE moved

NtpStep ==
    /\ "ntp" \in Events
    /\ \/ Queries
       \/ /\ Answers \/ get_response \/ NoResponse \/ NoSocket \/ SetTime
          /\ UNCHANGED exchange
    /\ UNCHANGED <<crond, table>>

Restarts == "restart" \in Events /\ Restart /\ UNCHANGED <<ntp, exchange>>

Edits == "edit" \in Events /\ Edit /\ UNCHANGED <<ntp, exchange>>

(* Time passes; select does not wait longer than its timeout. *)
Tick ==
    /\ OnTime /\ (ns = "wait" => now < due)
    /\ Passes
    /\ UNCHANGED <<crond, table, ntp, exchange>>

(* The model stops at its bound. *)
Over == now = Horizon /\ UNCHANGED vars

Next == CrondStep \/ NtpStep \/ Restarts \/ Edits \/ Tick \/ Over

Spec == Init /\ [][Next]_vars

TypeOK ==
    /\ now \in 0 .. Horizon /\ wall \in Int /\ summer_chg \in BOOLEAN
    /\ cs \in {"sleep", "dst", "run"} /\ t \in Int /\ dsv \in BOOLEAN
    /\ wake \in Int /\ last \in Int
    /\ crontab \in Versions \cup {Skeleton} /\ mtime \in Int
    /\ tasklist \in Versions \cup {Skeleton} /\ file_mtime \in Int
    /\ ns \in {"idle", "wait", "set"} /\ i \in 0 .. (Tries - 1) /\ due \in Nat
    /\ t1 \in Int /\ t3 \in Int /\ td \in Int
    /\ asked \subseteq Int /\ air \subseteq [orig : Int, t3 : Int]
    /\ sent \in Nat /\ moved \in Nat
----------------------------------------------------------------------------
(* crond has done its work for this minute and is not due yet. *)
Asleep == cs = "sleep" /\ now < wake

(***************************************************************************)
(* While crond sleeps the clock shows the legal time, and summer_chg says  *)
(* how: it is moved once when summer time begins and once when it ends,    *)
(* although an hour of the clock then comes twice and daylight_saving, for *)
(* that hour, cannot tell the first from the second.                       *)
(***************************************************************************)
ClockLegal ==
    Asleep => wall = now + LegalOffset /\ (summer_chg <=> LegalOffset = Hour)

(***************************************************************************)
(* When crond moves the clock, it moves it to the legal time: summer_chg,  *)
(* which crond and ntpdate share, says whether the hour is still to be     *)
(* added ("summer_chg = 1", cron.c).                                       *)
(***************************************************************************)
CrondMovesToLegal ==
    [][cs = "dst" /\ cs' = "run" /\ wall' # wall => wall' = now + LegalOffset]_vars

(***************************************************************************)
(* check_runs goes forward: no minute of the clock is looked at twice,     *)
(* also not in the hour that is repeated, so no job runs twice.            *)
(***************************************************************************)
NeverRerun == cs \in {"dst", "run"} => MinuteOf(t) > last

(***************************************************************************)
(* "A job is executed when all of the time and date conditions are met"    *)
(* (cron/README): while crond sleeps, the minute on the clock has had its  *)
(* check_runs, however late crond was and whatever the clock was set back. *)
(* The exception is the turn that sets the clock ahead (wall is an hour    *)
(* past t): the minute the clock then shows is lost.                       *)
(***************************************************************************)
MinuteHandled == Asleep /\ wall < t + Hour => MinuteOf(wall) <= last

(***************************************************************************)
(* However wrong the clock was, NTP_update sets it to the server's time,   *)
(* with summer time where daylight_saving says so, up to the time since    *)
(* its last query and as far as crond moved the clock during the call: no  *)
(* answer to an earlier try, no delay or repetition on the way and no hour *)
(* that crond adds or takes off between two steps does more harm than      *)
(* that, in either adjustment.                                             *)
(***************************************************************************)
NtpSetsTime ==
    [][ns = "set" /\ ns' = "idle" =>
         LET e == (now - sent) + moved
         IN  \E x \in (now - e) .. (now + e) : wall' = WithSummer(x)]_vars
----------------------------------------------------------------------------
(* What the documents say and the code does not do. *)

(***************************************************************************)
(* An exchange with an NTP server during which nobody else moves the clock *)
(* leaves a right clock right: "the camera will contact a network time     *)
(* server at regular intervals and update its internal timer"              *)
(* (h_basic.htm).  NTP_update asks daylight_saving about standard time.    *)
(***************************************************************************)
SyncKeepsLegal ==
    [][/\ ns = "set" /\ ns' = "idle"
       /\ wall = now + LegalOffset /\ td = now - wall
       => wall' = wall]_vars

(***************************************************************************)
(* The offset is "local offset" (fntp.c): between the response and the     *)
(* adjustment nobody moves the clock it was measured on.  crond does.      *)
(***************************************************************************)
OffsetIsLocal ==
    [][ns = "set" /\ ns' = "idle" /\ sent = now => wall' = WithSummer(now)]_vars

(***************************************************************************)
(* "It automatically detects modifications to its crontab file and reloads *)
(* it as required" (cron/README): a loaded table that is not the file's is *)
(* one that the next load_file replaces.                                   *)
(***************************************************************************)
ModificationDetected == tasklist # crontab => mtime # file_mtime
============================================================================
